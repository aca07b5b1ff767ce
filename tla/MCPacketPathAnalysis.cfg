CONSTANT InputFunctions <- AnalysisInputs
SPECIFICATION PPASpec
CHECK_DEADLOCK FALSE
INVARIANTS
  PPATypeOK
  EdgesLeadForward
  MasksSeparateBlocks
  TargetsAreNumbered
PROPERTIES
  PassedBlocksKeepTheirID
  AnalysisEnds
