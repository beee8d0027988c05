CONSTANTS
  N = 2
  Values = {v1, v2}
  NoValue = NoValue
  Proposers = {0}
  MaxNumber = 6
  Lost = {"DENIAL"}
  Asserts = TRUE
  Restarting = {0, 1}
  MaxRestarts = 3
SPECIFICATION RecoverySpec
INVARIANTS
  RecoveryInv
  AgreesUnlessMisled
  BindsUnlessMisled
  LearnsUnlessMisled
PROPERTIES
  PromisesKept
  RecoveryImplementsConsensus
  RecoveryImplementsSlot
CONSTRAINT Unmisled
SYMMETRY Symmetry
CHECK_DEADLOCK FALSE
