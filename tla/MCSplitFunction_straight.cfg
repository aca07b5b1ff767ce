CONSTANT Sources <- StraightSources
CONSTANT BatchSizes = {1}
CONSTANT ArrayPlaces = 2
CONSTANT IndexValues <- SomeIndices
SPECIFICATION SFSpec
CHECK_DEADLOCK FALSE
INVARIANT PreconditionsSuffice
