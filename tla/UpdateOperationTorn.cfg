CONSTANTS
  Kinds = {"update", "backup", "rollback", "verify"}
  MaxOps = 3
  MaxFaults = 4
SPECIFICATION Spec
INVARIANT NeverServesTorn
CHECK_DEADLOCK FALSE
