CONSTANTS
  N = 3
  Commands = {c1, c2}
  NoCommand = NoCommand
  AtMostOnce = FALSE
  MaxSequence = 2
  MaxSubmissions = 2
SPECIFICATION LiveSpec
PROPERTIES
  CatchesUp
  UsesSlots
CHECK_DEADLOCK FALSE
