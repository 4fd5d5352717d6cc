SPECIFICATION FairSpec
CONSTANTS
  MaxQueue = 2
  Configured = TRUE
PROPERTIES
  LossRepaired
