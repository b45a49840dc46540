CONSTANTS
  Transactions = {t1, t2}
  Points = {p1, p2}
  Digests = {d1, d2}
  None = None
  MaxEpoch = 4
SPECIFICATION Spec
INVARIANTS
  TypeOK
  PublicNeverAhead
  HTTPNeedsProof
PROPERTIES
  GenerationMonotone
  LostAuthorityStaysClosed
  CheckpointFrozen
CHECK_DEADLOCK FALSE
