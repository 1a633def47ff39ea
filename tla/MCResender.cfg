SPECIFICATION FairSpec
CONSTANTS
  None = None
  Node <- MCNode
  Msg <- MCMsg
  UpAtStart <- MCUp
  MaxRetry = 3
  MaxCopies = 2
  MayLose = TRUE
INVARIANTS
  TypeOK
  AtMostOnce
  KeptUntilHandled
PROPERTIES
  EventuallyProcessed
CHECK_DEADLOCK FALSE
