SPECIFICATION BackSpec
CONSTANTS
  MaxGoods = 6
  MaxClaims = 1
  Histories <- MCHistories
  MaxBlocks = 4
  MaxReorgs = 1
  FinalSnapshot = FALSE
  MaxFailures = 1
INVARIANTS
  LineageExact
CHECK_DEADLOCK FALSE
