SPECIFICATION FairSpec
CONSTANTS
  ConfigBodies <- MCConfigBodies
  FileBodies <- MCFileBodies
  Block <- MCBlock
  Text <- MCText
  Number <- MCNumber
  Value <- MCValue
  MaxRequest = 4
INVARIANTS
  TypeOK
  ConfigDurable
  FileBeginsWithReceived
PROPERTIES
  ServerReturns
  ImplementsStore
