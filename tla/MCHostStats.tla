----------------------------- MODULE MCHostStats -----------------------------
(* Two dialogs over one connection, three requests under way. *)
EXTENDS HostStats
=============================================================================
