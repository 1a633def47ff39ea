SPECIFICATION FairSpec
CONSTANTS
  kw = kw
  c1 = c1
  c2 = c2
  ka = ka
  kb = kb
  None = None
  NumServers = 2
  MaxRequests <- MCMaxRequests
  Worker <- MCWorker
  Caller <- MCCaller
  Uses <- MCUses
  Key <- MCKey
  Home <- MCHome
  Request <- MCRequest
INVARIANTS
  TypeOK
  WaitMeansDone
  CallbackSeesAll
PROPERTIES
  AbsSpec
  EveryWaitReturns
CHECK_DEADLOCK FALSE
