SPECIFICATION Spec
CONSTANTS
  Sync = 8
  Periods = {3, 8, 15}
  Bits = 2
  Taps = 2
  Words = {1, 3}
  Slots = {3, 4}
  Halves = {2, 3}
  Delays <- MCDelays
  Torn = Torn
  None = None
INVARIANT
  TypeOK
PROPERTIES
  EachWordReceived
  WordsCross
  WordsArrive
