CONSTANTS
  MaxStarts = 4
  MaxFaults = 4
SPECIFICATION FairSpec
INVARIANTS
  SoundDrain
PROPERTIES
  FrozenIsReleased
CHECK_DEADLOCK FALSE
