SPECIFICATION FairSpec
CONSTANTS
  c1 = c1
  c2 = c2
  c3 = c3
  Clients = {c1, c2, c3}
  Kinds = {"sums", "single", "pairs"}
  Numbers = {0, 1}
  MAX_CLIENTS_SUPPORT = 3
  Free = Free
  Console = Console
  Master = Master
  None = None
  FdLimit = 4
  MaxTyped <- MCMaxTyped
CHECK_DEADLOCK FALSE
INVARIANTS
  AnswerIsSum
  ServerEndHasACause
PROPERTY
  WaiterAnswered
