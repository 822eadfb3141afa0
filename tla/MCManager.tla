----------------------------- MODULE MCManager -----------------------------
(* One host with two VMs and three connection objects, whose attempts overlap. *)
EXTENDS Manager, TLC

CONSTANTS u1, v1, v2, c1, c2, c3
MCURIs == {u1}
MCVMs == {v1, v2}
MCConns == {c1, c2, c3}
Symmetry == Permutations(MCConns) \cup Permutations(MCVMs)
=============================================================================
