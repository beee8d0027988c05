CONSTANTS
  N = 2
  Values = {v1}
  NoValue = NoValue
  Proposers = {0}
  MaxNumber = 8
  Lost = {}
SPECIFICATION Spec
INVARIANTS
  StaysUp
CHECK_DEADLOCK FALSE
