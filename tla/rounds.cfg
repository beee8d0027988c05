CONSTANTS
  N = 3
  Values = {v1, v2}
  NoValue = NoValue
  Proposers = {0, 1}
  MaxNumber = 7
  Lost = {"DENIAL", "INFORM"}
SPECIFICATION Spec
INVARIANTS
  TypeOK
  IInv
  Consistency
  OneValuePerNumber
  ChosenBindsLaterRounds
PROPERTIES
  PromisesKept
  ImplementsConsensus
SYMMETRY Symmetry
CHECK_DEADLOCK FALSE
