SPECIFICATION FairSpec
CONSTANTS
  sv = sv
  w1 = w1
  w2 = w2
  l1 = l1
  l2 = l2
  None = None
  NumServers = 1
  NumWorkers = 3
  MaxCrashes = 2
  Proc <- MCProc
  Late <- MCLate
  Role <- MCRole
  Addr <- MCAddr
  Threads <- MCThreads
INVARIANTS
  TypeOK
  OneHolder
  IDsCovered
  RoutesAgree
PROPERTIES
  StartCompletes
  ReplacementJoins
CHECK_DEADLOCK FALSE
