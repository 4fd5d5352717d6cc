SPECIFICATION FairSpec
CONSTANTS
  Freqs <- MCFreqs
  Steps = 2
  MaxErrors = 0
  Overlap = {"tx", "stop", "sweep", "reset", "status"}
INVARIANT NoThreadReuse
