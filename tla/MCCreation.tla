----------------------------- MODULE MCCreation -----------------------------
(* Creation for TLC: the default name and another one. *)
EXTENDS Creation

CONSTANTS vm1, vm2
MCNames == {vm1, vm2}
=============================================================================
