\* Two rows, the real W - 1 = 3, three draft tokens, an interval of two.
CONSTANTS
  Reqs = {r1, r2}
  Inputs <- Tokens
  Zero = Zero
  Stale = Stale
  StateLen = 3
  DraftTokens = 3
  TrackInterval = 2
  Prefill = 2
  Rounds = 2
SYMMETRY Symmetry
SPECIFICATION Spec
INVARIANTS RawSafety PaddedRowsWriteNothing SnapshotAccepted
PROPERTY FeedsAccepted
CHECK_DEADLOCK FALSE
