\* One fault is enough: an interrupt while a launcher is on its way.
CONSTANT MaxTrouble = 1
SPECIFICATION Spec
INVARIANT StoppedAfterExit
CHECK_DEADLOCK FALSE
