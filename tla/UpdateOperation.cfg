CONSTANTS
  Kinds = {"update", "backup", "rollback", "verify"}
  MaxOps = 3
  MaxFaults = 4
SPECIFICATION FairSpec
INVARIANTS
  ReopenedBehindBoundary
  ReopensWhole
  StatusTruthful
  PointOnRecord
PROPERTIES
  AcceptedWritesSurvive
  BoundaryConverges
CHECK_DEADLOCK FALSE
