CONSTANTS
  N = 3
  Values = {v1}
  NoValue = NoValue
  Proposers = {0}
  MaxNumber = 9
  Lost = {"DENIAL"}
  GoodRound = 9
  MayStop = {2}
SPECIFICATION LiveSpec
PROPERTY SubmissionsAreDecided
CHECK_DEADLOCK FALSE
