\* Two cases, four items in batches of one or three, two builds, four runs.
CONSTANTS
  Cases = 2
  Items = 4
  Threshold = 3
  Concurrency = {1, 3}
  Builds = {b1, b2}
  MaxRuns = 4
SPECIFICATION Spec
INVARIANTS LogIsPrefix PassJustified OneBuild CheckpointReadable
PROPERTY NeverAskedAgain
CHECK_DEADLOCK FALSE
