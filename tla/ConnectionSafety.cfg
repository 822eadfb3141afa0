SPECIFICATION Spec
CONSTANTS
  v1 = v1
  v2 = v2
  Names <- MCNames
  MaxChanges = 2
  MaxFaults = 1
SYMMETRY MCSymmetry
INVARIANTS
  BusyMatchesWork
  TickExclusive
  DomainsNeedHandle
  StubsShowNoState
PROPERTIES
  ListenersInStep
  QuietPollExact
CHECK_DEADLOCK FALSE
