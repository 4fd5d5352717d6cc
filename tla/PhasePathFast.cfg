SPECIFICATION Spec
CONSTANTS
  Sync = 48
  Periods = {13, 15}
  Bits = 2
  Taps = 2
  Words = {1, 3}
  Slots = {3}
  Halves = {2, 3}
  Delays <- MCDelays
  Torn = Torn
  None = None
INVARIANT
  SafeCrossing
