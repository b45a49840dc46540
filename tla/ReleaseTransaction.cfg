CONSTANTS
  MaxOps = 3
  MaxFaults = 2
SPECIFICATION FairSpec
INVARIANTS
  ServesThroughReboot
  WorkersExclusive
  RolledBackIsComplete
PROPERTIES
  InFlightKept
  UndoneSafely
  ReleaseConverges
CHECK_DEADLOCK FALSE
