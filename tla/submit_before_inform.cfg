CONSTANTS
  N = 2
  Commands = {c1, c2}
  NoCommand = NoCommand
  AtMostOnce = FALSE
  MaxSequence = 2
  MaxSubmissions = 3
SPECIFICATION Spec
INVARIANT HandlersReturn
SYMMETRY Symmetry
CHECK_DEADLOCK FALSE
