---------------------------- MODULE MCResources ----------------------------
(* Two entries of each kind of table; the host changes twice, a call fails
   once, and the table is loaded anew or closed once.  *)
EXTENDS Resources

CONSTANTS n1, n2
MCNames == {n1, n2}
=============================================================================
