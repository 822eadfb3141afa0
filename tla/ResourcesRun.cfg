SPECIFICATION FairSpec
CONSTANTS
  n1 = n1
  n2 = n2
  Names <- MCNames
  MaxChanges = 2
  MaxFaults = 1
  MaxLoads = 1
INVARIANT TypeOK
PROPERTIES
  RosterSpec
  QuietPollExact
  SteadyDeviceKept
  Converges
