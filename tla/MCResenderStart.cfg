SPECIFICATION Spec
CONSTANTS
  None = None
  Node <- MCNode
  Msg <- MCMsg
  UpAtStart = {}
  MaxRetry = 3
  MaxCopies = 2
  MayLose = FALSE
INVARIANTS
  ProcessedOnce
CHECK_DEADLOCK FALSE
