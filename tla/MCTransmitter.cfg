SPECIFICATION FairSpec
CONSTANTS
  Freqs <- MCFreqs
  Steps = 2
  MaxErrors = 1
  Overlap = {"stop"}
INVARIANTS
  TypeOK
  AmplifierFollowsFlag
  ControlAgrees
PROPERTIES
  NoCarrierBeforeAmplifier
  StopStops
  SweepEnds
