CONSTANTS
  Clients = {a, b}
  Registered = {a}
  Objects = {o1, o2}
  Nobody = Nobody
  Filed = {a}
  Restarting = {a}
  NoMessage = NoMessage
  MaxOperations = 2
  MaxExecutions = 5
  MaxRestarts = 2
SPECIFICATION Spec
INVARIANTS
  TypeOK
  ClientInv
  HolderOwns
  OneResponsePerOperation
  AnswersTheCall
CHECK_DEADLOCK FALSE
