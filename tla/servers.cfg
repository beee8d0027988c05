CONSTANTS
  N = 2
  Commands = {c1, c2}
  NoCommand = NoCommand
  AtMostOnce = TRUE
  MaxSequence = 3
  MaxSubmissions = 4
SPECIFICATION Spec
INVARIANTS
  TypeOK
  ServerInv
  AppliedInv
  NoHoles
  NothingForgotten
  ResponsibleAnswers
PROPERTIES
  DisplacedIsPostponed
  ImplementsCommandLog
SYMMETRY Symmetry
CHECK_DEADLOCK FALSE
