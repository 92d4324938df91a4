\* One row is enough: the snapshot of a crossed boundary.
CONSTANTS
  Reqs = {r1}
  Inputs <- Tokens
  Zero = Zero
  Stale = Stale
  StateLen = 3
  DraftTokens = 3
  TrackInterval = 2
  Prefill = 2
  Rounds = 1
SPECIFICATION Spec
INVARIANT SnapshotAtBoundary
CHECK_DEADLOCK FALSE
