SPECIFICATION FairSpec
CONSTANTS
  MaxGoods = 4
  MaxClaims = 1
  Histories <- MCHistories
  MaxBlocks = 4
  MaxReorgs = 0
  FinalSnapshot = TRUE
  MaxFailures = 1
INVARIANTS
  FrontierExact
  CompleteMeansContained
  NoTargetsEver
  FreezesOnlyTargets
  CompleteLeavesNothingPending
PROPERTIES
  ContainedUntilReleased
  AuditEnds
CHECK_DEADLOCK FALSE
