CONSTANTS
  NullBlock = NullBlock
  UnifiedReturnBlock = UnifiedReturnBlock
  UnifiedUnreachableBlock = UnifiedUnreachableBlock
  GarbageIDs = {0, 1, 7}
  InputFunctions <- ConditionalValue
SPECIFICATION PFSpec
CHECK_DEADLOCK FALSE
INVARIANT EveryPhiHasValueOfPath
