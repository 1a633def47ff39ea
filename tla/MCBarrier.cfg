SPECIFICATION FairSpec
CONSTANTS
  sched = sched
  server = server
  w1 = w1
  w2 = w2
  None = None
  MaxCalls = 2
  Proc <- MCProc
  Role <- MCRole
  Customers <- MCCustomers
  Group <- MCGroup
INVARIANTS
  TypeOK
  CountIsExact
  ResponseFindsAllWaiting
  NoEarlyReturn
PROPERTIES
  AbsSpec
  AllReturn
CHECK_DEADLOCK FALSE
