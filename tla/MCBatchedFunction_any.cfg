CONSTANTS
  NullBlock = NullBlock
  ExitBlock = ExitBlock
  TasBlock = TasBlock
  ExitingBlock = ExitingBlock
  PreHeader = PreHeader
  Header = Header
  Latch = Latch
  BatchInputs <- AnyBatches
  BatchSizes = {0, 1, 3}
SPECIFICATION BFSpec
CHECK_DEADLOCK FALSE
INVARIANTS
  OneReturnIsTransformed
  NonEmptyBatchInOrder
PROPERTY
  BatchReturns
