SPECIFICATION FairSpec
CONSTANTS
  j1 = j1
  d1 = d1
  d2 = d2
  Jobs <- MCJobs
  Devices <- MCDevices
  Poll = Poll
  MaxChanges = 1
  MaxFaults = 1
INVARIANTS
  TypeOK
  ButtonsFitState
PROPERTIES
  NoInventedState
  ShownConverges
CHECK_DEADLOCK FALSE
