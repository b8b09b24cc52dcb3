SPECIFICATION Spec
CONSTANTS
  MaxGoods = 6
  MaxDPPs = 2
  Starts <- MCStarts
  MaxBlocks = 4
  MaxReorgs = 1
INVARIANTS
  ForwardOnSnapshot
CHECK_DEADLOCK FALSE
