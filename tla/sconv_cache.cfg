\* Two requests, five slots (two each and one cached prefix), W - 1 = 2, two
\* verified tokens per round (the one it starts from and a draft).
CONSTANTS
  Reqs = {r1, r2}
  Slots = {s1, s2, s3, s4, s5}
  NoSlot = NoSlot
  Inputs = {a, b}
  Zero = Zero
  Stale = Stale
  StateLen = 2
  DraftTokens = 2
  ChunkSize = 2
  TrackInterval = 2
  StepBias = 1
  MaxContext = 3
SYMMETRY Symmetry
SPECIFICATION Spec
INVARIANTS TypeOK WorkingWindow TrackedWindow CachedPrefix SavedRows
PROPERTY ImplementsReference
CHECK_DEADLOCK FALSE
