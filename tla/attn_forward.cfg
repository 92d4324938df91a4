\* Two consecutive calls: the second reuses the tensors of the first.
CONSTANTS
  Calls = 2
  Configs <- Reachable
SPECIFICATION Spec
INVARIANTS AttendsOwnOperands StoredOnce ConvAdvancedOnce
PROPERTY AlwaysFinishes
CHECK_DEADLOCK FALSE
