SPECIFICATION Spec
CONSTANTS
  p1 = p1
  p2 = p2
  v1 = v1
  v2 = v2
  Names <- MCNames
  Vols <- MCVols
  None = None
  MaxVols = 2
  MaxTroubles = 1
SYMMETRY Symmetry
INVARIANTS
  AloneSafe
PROPERTY OnlyAsked
CHECK_DEADLOCK FALSE
