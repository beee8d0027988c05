CONSTANTS
  N = 2
  Commands = {c1, c2}
  NoCommand = NoCommand
  AtMostOnce = TRUE
  MaxSequence = 3
  MaxSubmissions = 3
  BlockSize = 3
  MaxRestarts = 2
SPECIFICATION RestartSpec
INVARIANTS
  AppliedInv
  NoHoles
PROPERTIES
  RestartKeeps
  RestartImplementsCommandLog
SYMMETRY Symmetry
CHECK_DEADLOCK FALSE
