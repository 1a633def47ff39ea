SPECIFICATION FairSpec
CONSTANTS
  sched = sched
  w1 = w1
  None = None
  MaxCalls = 1
  Proc <- MCProc
  Role <- MCRole
  Customers <- MCCustomers
  Group <- MCGroup
PROPERTIES
  AllReturn
CHECK_DEADLOCK FALSE
