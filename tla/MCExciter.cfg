SPECIFICATION Spec
CONSTANTS
  Carriers <- MCCarriers
  Offsets <- MCOffsets
  Phases <- MCPhases
INVARIANTS
  TypeOK
  DividerIsBest
  RingsAligned
  DrivesFollowPhase
