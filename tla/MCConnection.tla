---------------------------- MODULE MCConnection ----------------------------
(* Two virtual machines; the host and the network get a small budget each. *)
EXTENDS Connection, TLC

CONSTANTS v1, v2
MCNames == {v1, v2}
MCOneName == {v1}
MCSymmetry == Permutations(MCNames)
=============================================================================
