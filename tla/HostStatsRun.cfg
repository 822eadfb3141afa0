SPECIFICATION FairSpec
CONSTANTS
  Dialogs = {d1, d2}
  Closed = Closed
  MaxJobs = 3
  Width = 1024
  MaxTime = 4
  MaxFaults = 1
INVARIANTS
  TypeOK
  UsageIsReal
PROPERTIES
  CapabilitiesCome
