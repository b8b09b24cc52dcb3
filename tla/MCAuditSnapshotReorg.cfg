SPECIFICATION Spec
CONSTANTS
  MaxGoods = 4
  MaxClaims = 1
  Histories <- MCHistories
  MaxBlocks = 4
  MaxReorgs = 1
  FinalSnapshot = FALSE
  MaxFailures = 0
PROPERTIES
  CompleteOnCanonicalSnapshot
CHECK_DEADLOCK FALSE
