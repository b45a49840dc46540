CONSTANTS
  Requests = {r1, r2}
  Restores = {r2}
  None = None
  MaxOps = 3
  MaxEpoch = 2
  MaxFaults = 2
SPECIFICATION FairSpec
INVARIANTS
  OrderReadable
  NoMasquerade
  AcceptedReceiptsLast
PROPERTIES
  RunsOnItsPlan
  ImplementsLog
  PendingResolves
CHECK_DEADLOCK FALSE
