CONSTANT Sources <- SmallSources
CONSTANT BatchSizes = {0, 1, 2, 3}
CONSTANT ArrayPlaces = 2
CONSTANT IndexValues <- SomeIndices
SPECIFICATION SFSpec
CHECK_DEADLOCK FALSE
INVARIANTS
  SFTypeOK
  SupportedIsSplit
  FailureHasCause
  ReadsOwnValue
  StaysInArrays
PROPERTIES
  TakesPacketsThroughBody
  SupportedBatchReturns
