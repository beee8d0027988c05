CONSTANTS
  N = 2
  Values = {v1, v2}
  NoValue = NoValue
  Proposers = {0, 1}
  MaxNumber = 6
  Lost = {"DENIAL"}
  GoodRound = 0
  MayStop = {}
SPECIFICATION LiveSpec
INVARIANTS
  IInv
  LearnedIsChosen
PROPERTIES
  DecisionReachesAll
  ImplementsSlot
CHECK_DEADLOCK FALSE
