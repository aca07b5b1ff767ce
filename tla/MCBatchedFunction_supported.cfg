CONSTANTS
  NullBlock = NullBlock
  ExitBlock = ExitBlock
  TasBlock = TasBlock
  ExitingBlock = ExitingBlock
  PreHeader = PreHeader
  Header = Header
  Latch = Latch
  BatchInputs <- SupportedBatches
  BatchSizes <- SmallBatches
SPECIFICATION BFSpec
CHECK_DEADLOCK FALSE
INVARIANTS
  BMTypeOK
  EachPacketOnce
PROPERTY
  PacketLoopSpec
