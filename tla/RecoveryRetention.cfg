CONSTANTS
  Keep = 2
  Validity = 2
  Plans = {n1}
  MaxPoints = 4
  MaxTime = 4
  MaxFaults = 1
  MaxSetbacks = 1
SPECIFICATION Spec
INVARIANTS
  PlanKept
  UnresolvedKept
  LatestKept
CHECK_DEADLOCK FALSE
