CONSTANTS
  Transactions = {t1, t2, t3}
  ReleaseTx = {t1}
  Points = {p1, p2}
  Digests = {d1}
  None = None
  CreatesSource = TRUE
  MaxEpoch = 4
  MaxInterrupts = 2
SPECIFICATION FairRestoreSpec
INVARIANTS
  ReplacedUnderHold
  ServesProvenData
  RestoredUnlessMisled
PROPERTIES
  QueuesKept
  RestoredDataIsFinal
  BoundaryRecovers
CHECK_DEADLOCK FALSE
