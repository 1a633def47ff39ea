SPECIFICATION Spec
CONSTANTS
  sv = sv
  wk = wk
  l2 = l2
  l1 = l1
  None = None
  NumServers = 1
  NumWorkers = 1
  MaxCrashes = 2
  Proc <- MCProc
  Late <- MCLate
  Role <- MCRole
  Addr <- MCAddr
  Threads <- MCThreads
INVARIANTS
  OneRecovery
CHECK_DEADLOCK FALSE
