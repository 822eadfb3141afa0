SPECIFICATION Spec
CONSTANTS
  a = a
  b = b
  c = c
  UUIDs <- MCUUIDs
  MaxFaults = 2
INVARIANTS
  KeptLoads
PROPERTY FullSaveRepairs
