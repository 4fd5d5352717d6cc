SPECIFICATION Spec
CONSTANTS
  Carriers <- Bands
  Offsets <- MCOffsets
  Phases <- MCPhases
INVARIANTS
  VCOInRange
