SPECIFICATION FairSpec
CONSTANTS
  p1 = p1
  p2 = p2
  p3 = p3
  t1 = t1
  t2 = t2
  t3 = t3
  None = None
  Alignment = 2
  PoolSize = 4
  Base = 16
  Gap = 1
  Depth = 1
  MaxEntries = 2
  MaxRejects <- MCMaxRejects
  Place <- MCPlace
  Proc <- MCProc
  Link <- MCLink
  Thread <- MCThread
  Via <- MCVia
  Outbox <- MCOutbox
INVARIANTS
  TypeOK
  PoolsSound
  BlocksHaveOneOwner
  ContextsSuffice
  DeliveredInOrder
  
PROPERTIES
  MessagesArrive
CHECK_DEADLOCK FALSE
