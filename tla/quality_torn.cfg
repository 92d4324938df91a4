\* One case, two items, one build: a kill in the middle of a record.
CONSTANTS
  Cases = 1
  Items = 2
  Threshold = 1
  Concurrency = {1}
  Builds = {b1}
  MaxRuns = 2
SPECIFICATION Spec
INVARIANT LogResumes
CHECK_DEADLOCK FALSE
