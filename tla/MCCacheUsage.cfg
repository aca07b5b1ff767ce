CONSTANT Modules <- SmallModules
CONSTANT CacheLineSize = 64
CONSTANT UnsignedSize = 4096
SPECIFICATION CUSpec
CHECK_DEADLOCK FALSE
INVARIANTS
  CUTypeOK
  CountsAllSoFar
  FailsOnBadIndex
