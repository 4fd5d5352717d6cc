SPECIFICATION Spec
CONSTANTS
  Minute = 3
  MaxFifo = 2
  MaxBuf = 2
  MaxCuts = 1
INVARIANTS
  SlotOnTime
