SPECIFICATION Spec
CONSTANTS
  w1 = w1
  w2 = w2
  c1 = c1
  c2 = c2
  ka = ka
  kb = kb
  None = None
  NumServers = 2
  MaxRequests <- MCMaxRequests
  Worker <- MCWorker
  Caller <- MCCaller
  Uses <- MCUses
  Key <- MCKey
  Home <- MCHome
  Request <- MCRequest
INVARIANTS
  AddedOnce
  ReadsSeeDone
  ReadsGrow
CHECK_DEADLOCK FALSE
