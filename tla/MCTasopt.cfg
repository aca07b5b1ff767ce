CONSTANT Functions = {"f", "g"}
CONSTANT Sources <- SmallSources
CONSTANT MaxRuns = 2
SPECIFICATION TOSpec
CHECK_DEADLOCK FALSE
INVARIANTS
  TOTypeOK
  SuccessIsComplete
  NothingHalfTransformed
