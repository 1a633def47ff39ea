SPECIFICATION SubmitSpec
CONSTANTS
  sch = sch
  srv = srv
  w1 = w1
  w2 = w2
  r1 = r1
  r2 = r2
  r3 = r3
  r4 = r4
  None = None
  MaxCalls = 9
  Iterations = 1
  MaxErrors = 1
  MaxBreaks = 1
  Proc <- MCProc
  Role <- MCRole
  Customers <- MCCustomers
  Group <- MCGroup
  Slave <- MCSlave
  Host <- MCHost
INVARIANTS
  RoundsAreSynchronous
  QuietStop
  LinksMatch
PROPERTIES
  SubmitReturns
CHECK_DEADLOCK FALSE
