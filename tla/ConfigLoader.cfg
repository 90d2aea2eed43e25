SPECIFICATION Spec
CONSTANTS
  IntMin <- MCIntMin
  IntMax = 70000
  Documents <- MCDocuments
  Names <- MCNames
  Paths <- MCPaths
  Bad = Bad
  Null = Null
  Unreadable = Unreadable
  MaxSignals = 15
CHECK_DEADLOCK FALSE
INVARIANTS
  OrderIrrelevant
  LoadedMeansWritten
