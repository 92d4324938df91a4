\* Two candidates, and one command lost or one fault anywhere.
CONSTANTS
  Candidates = 2
  MaxMishaps = 1
SPECIFICATION Spec
INVARIANTS NoComparisonWithoutBaseline AcceptedBooted EveryArmReported MeasuredOwnServer
PROPERTY Terminates
CHECK_DEADLOCK FALSE
