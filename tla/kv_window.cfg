\* The instance of kv_serving.cfg, with verify graphs captured without a mask.
CONSTANTS
  Rows <- MCRows
  GraphSizes <- MCGraphs
  GraphMask = FALSE
  MaxRequests = 2
  MaxLen = 5
  Boots <- MCBoots
  PoolBound = 8
  Extent = 3
  NumDraft = 3
  MaxSplits = 2
  MinBlockKv = 1
  BlockN = 2
SPECIFICATION Spec
INVARIANT WindowIndependentOfLane
CHECK_DEADLOCK FALSE
