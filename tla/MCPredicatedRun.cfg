CONSTANT Programs <- LinearizedPrograms
SPECIFICATION PRSpec
CHECK_DEADLOCK FALSE
INVARIANTS
  PRTypeOK
  TargetIsAhead
  PhiHasValueOfPath
PROPERTIES
  OriginalSpec
  BlocksInOrder
  CallReturns
