SPECIFICATION Spec
CONSTANTS
  u1 = u1
  v1 = v1
  v2 = v2
  c1 = c1
  c2 = c2
  c3 = c3
  None = None
  URIs <- MCURIs
  VMs <- MCVMs
  Conns <- MCConns
  MaxChanges = 1
  MaxLosses = 1
  MaxFaults = 1
SYMMETRY Symmetry
CHECK_DEADLOCK FALSE
INVARIANTS
  TypeOK
  ConnectedIsPolled
  PolledIsHeard
  RowsAlive
  KnownIsListed
PROPERTY RowsKept
