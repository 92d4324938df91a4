\* One candidate, nothing lost and no fault: only a gate that fails.
CONSTANTS
  Candidates = 1
  MaxMishaps = 0
SPECIFICATION Spec
INVARIANT MismatchInvalidates
CHECK_DEADLOCK FALSE
