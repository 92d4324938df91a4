\* Two lost commands (a stop_arm, or a kill and a rm), two faults, or one each.
CONSTANT MaxTrouble = 2
SPECIFICATION Spec
INVARIANTS TypeOK StableClean AcceptJustified CleanExit
PROPERTIES Terminates GuardsEnd
CHECK_DEADLOCK FALSE
