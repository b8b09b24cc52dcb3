SPECIFICATION Spec
CONSTANTS
  MaxGoods = 4
  MaxClaims = 1
  Histories <- MCHistories
  MaxBlocks = 4
  MaxReorgs = 1
  FinalSnapshot = TRUE
  MaxFailures = 0
INVARIANTS
  CompleteMeansContained
CHECK_DEADLOCK FALSE
