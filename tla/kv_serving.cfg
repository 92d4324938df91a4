\* Two rows, pools of six slots (eight for the server that speculates), contexts
\* of five, a window of three keys, draft blocks of two rows.
CONSTANTS
  Rows <- MCRows
  GraphSizes <- MCGraphs
  GraphMask = TRUE
  MaxRequests = 2
  MaxLen = 5
  Boots <- MCBoots
  PoolBound = 8
  Extent = 3
  NumDraft = 3
  MaxSplits = 2
  MinBlockKv = 1
  BlockN = 2
SPECIFICATION Spec
INVARIANTS OnlyPadsOverrun StagesShareCapacity DraftSlotsExist OneRequestFits
  AttendsOwnContext AttendsOwnWindow CommittedIsStored
CHECK_DEADLOCK FALSE
