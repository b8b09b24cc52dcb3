SPECIFICATION Spec
CONSTANTS
  MaxGoods = 6
  MaxDPPs = 2
  Starts <- MCStarts
  MaxBlocks = 3
  MaxReorgs = 2
INVARIANTS
  ClaimTraceExact
  ForwardExact
CHECK_DEADLOCK FALSE
