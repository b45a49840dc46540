CONSTANTS
  Used = {"update", "rollback"}
  Threshold = 2
  BaseLockout = 1
  MaxLockout = 2
  MaxTime = 3
  MaxFailures = 3
SPECIFICATION Spec
INVARIANTS
  GuessesAccounted
PROPERTIES
  OneUsePerCode
CHECK_DEADLOCK FALSE
