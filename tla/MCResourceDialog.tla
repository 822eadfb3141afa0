-------------------------- MODULE MCResourceDialog --------------------------
(* Two pools with two volume names, or two networks; one change by another
   client or one failed call.  *)
EXTENDS ResourceDialog, TLC

CONSTANTS p1, p2, v1, v2
MCNames == {p1, p2}
MCVols == {v1, v2}
Symmetry == Permutations(MCNames) \cup Permutations(MCVols)
=============================================================================
