CONSTANT Signatures <- SmallSignatures
SPECIFICATION BASpec
CHECK_DEADLOCK FALSE
INVARIANTS
  BATypeOK
  EachUseHasItsElement
  FailsOnlyOnDoubleUse
