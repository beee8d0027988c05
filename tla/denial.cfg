CONSTANTS
  N = 2
  Values = {v1}
  NoValue = NoValue
  Proposers = {0, 1}
  MaxNumber = 6
  Lost = {"INFORM"}
SPECIFICATION Spec
INVARIANTS
  AnswersNeverAhead
  UndecidedIsTimed
CHECK_DEADLOCK FALSE
