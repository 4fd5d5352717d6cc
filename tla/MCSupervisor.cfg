SPECIFICATION FairSpec
CONSTANTS
  MaxQueue = 3
  Configured = TRUE
INVARIANTS
  TypeOK
  ConnectingOnlyInConnect
  ConnectedNotDown
PROPERTIES
  RememberedLossRepaired
  ConnectReturns
