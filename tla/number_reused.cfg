CONSTANTS
  N = 3
  Values = {v1, v2}
  NoValue = NoValue
  Proposers = {0}
  MaxNumber = 9
  Lost = {"DENIAL", "INFORM"}
  Asserts = TRUE
  Restarting = {0}
  MaxRestarts = 1
SPECIFICATION RecoverySpec
INVARIANT Consistency
SYMMETRY Symmetry
CHECK_DEADLOCK FALSE
