CONSTANTS
  NullBlock = NullBlock
  UnifiedReturnBlock = UnifiedReturnBlock
  UnifiedUnreachableBlock = UnifiedUnreachableBlock
  GarbageIDs = {0, 1, 7}
  InputFunctions <- SmallInputs
SPECIFICATION PFSpec
CHECK_DEADLOCK FALSE
INVARIANTS
  MakesLinearization
  SupportedIsNotAborted
  PhiHasValueOfPath
  OnlyRewiredBlocksRun
PROPERTIES
  OriginalSpec
  PredicatedCallReturns
