SPECIFICATION FairSpec
CONSTANTS
  Minute = 3
  MaxFifo = 2
  MaxBuf = 2
  MaxCuts = 1
INVARIANTS
  TypeOK
  TimeCoherent
PROPERTIES
  TimeRecovers
