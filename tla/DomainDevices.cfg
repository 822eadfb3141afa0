SPECIFICATION Spec
CONSTANTS
  j1 = j1
  d1 = d1
  d2 = d2
  Jobs <- MCJobs
  Devices <- MCTwoDevices
  Poll = Poll
  MaxChanges = 1
  MaxFaults = 0
INVARIANT DevicesKept
CHECK_DEADLOCK FALSE
