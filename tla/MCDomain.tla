------------------------------ MODULE MCDomain ------------------------------
(* One request of the user beside the stats worker; one device, or two.  *)
EXTENDS Domain

CONSTANTS j1, d1, d2
MCJobs == {j1}
MCDevices == {d1}
MCTwoDevices == {d1, d2}
=============================================================================
