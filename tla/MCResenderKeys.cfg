SPECIFICATION FairSpec
CONSTANTS
  None = None
  Node <- MCNode
  Msg <- MCMsg
  UpAtStart <- MCNode
  MaxRetry = 3
  MaxCopies = 2
  MayLose = FALSE
PROPERTIES
  EventuallyProcessed
CHECK_DEADLOCK FALSE
