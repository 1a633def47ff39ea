SPECIFICATION Spec
CONSTANTS
  a = a
  b = b
  X = X
  Y = Y
  None = None
  NumServers = 2
  MaxKey = 5
  Client <- MCClient
  Matrix <- MCMatrices
  Shape <- MCShape
  Calls <- MCCalls
  MaxCalls = 4
SYMMETRY MCSymmetry
INVARIANTS
  TypeOK
  ReadsAreSums
  RowsFound
  ResultsRight
  EndsHaveCauses
CHECK_DEADLOCK FALSE
