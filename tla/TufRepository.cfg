CONSTANTS
  MaxRelease = 3
  Shared = {1, 2}
  MaxVersion = 6
  MaxRefreshes = 1
  MaxFaults = 2
SPECIFICATION FairSpec
INVARIANTS
  LiveIsWhole
PROPERTIES
  NeverOlder
  ReleaseArrives
CHECK_DEADLOCK FALSE
