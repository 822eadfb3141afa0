----------------------------- MODULE MCVMCache -----------------------------
(* Three VMs: one saved before the fault, one during it, one after it.  *)
EXTENDS VMCache

CONSTANTS a, b, c
MCUUIDs == {a, b, c}
=============================================================================
