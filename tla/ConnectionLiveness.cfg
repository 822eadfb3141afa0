SPECIFICATION FairSpec
CONSTANTS
  v1 = v1
  v2 = v2
  Names <- MCOneName
  MaxChanges = 3
  MaxFaults = 1
PROPERTIES
  BusyClears
  Converges
CHECK_DEADLOCK FALSE
