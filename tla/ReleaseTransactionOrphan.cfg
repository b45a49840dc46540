CONSTANTS
  MaxOps = 2
  MaxFaults = 1
SPECIFICATION Spec
INVARIANT JournalOwned
CHECK_DEADLOCK FALSE
