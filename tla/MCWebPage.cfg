SPECIFICATION Spec
CONSTANTS
  Config <- MCConfig
  Defaults <- MCDefaults
  Nothing = Nothing
  None = None
  Top <- MCTop
  Bands <- MCBands
  Stored <- MCStored
  Typed <- MCTyped
  Value <- MCValue
  Reads <- MCReads
  Place <- MCPlace
  Takes <- MCTakes
  Cut <- MCCut
  Broken <- MCBroken
  MaxOps = 2
  MaxFails = 1
  MaxEdits = 1
INVARIANTS
  TypeOK
  CleanShowsLoaded
  TrustedPageIsTrue
PROPERTIES
  LoadShowsTaken
  SaveEnds
  PageUpdates
