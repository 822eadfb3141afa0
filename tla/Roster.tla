------------------------------- MODULE Roster -------------------------------
(***************************************************************************)
(* What a table of libvirt objects promises to those who hold pointers      *)
(* from it, whatever polls fill it: the specification that Resources        *)
(* implements for the networks, the storage pools and the node devices of   *)
(* a Connection.                                                            *)
(*                                                                          *)
(* Objects are numbered in the order they are made.  A name is entered with *)
(* a new object, keeps that very object while it stays, and the object is   *)
(* deleted when the name leaves.  Only while the table is loaded anew may a *)
(* name be entered over another object, which is then lost: it is in no     *)
(* table, and deleted with the connection only.                             *)
(***************************************************************************)
EXTENDS Naturals

CONSTANT Names

VARIABLES known,    \* the object of each name, 0 if it is not in the table
          made,     \* objects made so far
          dead,     \* objects deleted
          loading   \* the table is being loaded anew

vars == <<known, made, dead, loading>>

Init == /\ known = [n \in Names |-> 0]
        /\ made = 0 /\ dead = {} /\ loading = FALSE

\* A name is entered with an object made for it.
Enter(n) == /\ known[n] = 0 \/ loading
            /\ made' = made + 1
            /\ known' = [known EXCEPT ![n] = made + 1]
            /\ UNCHANGED <<dead, loading>>

\* The names of G leave, each with its object.
Leave(G) == /\ ~loading
            /\ known' = [n \in Names |-> IF n \in G THEN 0 ELSE known[n]]
            /\ dead' = dead \cup {known[n] : n \in {m \in G : known[m] # 0}}
            /\ UNCHANGED <<made, loading>>

\* Everything goes at once: the connection closes, or a load begins.
Clear == /\ known' = [n \in Names |-> 0]
         /\ dead' = dead \cup {known[n] : n \in {m \in Names : known[m] # 0}}
         /\ loading' \in BOOLEAN
         /\ UNCHANGED made

Loaded == /\ loading
          /\ loading' = FALSE
          /\ UNCHANGED <<known, made, dead>>

Next == \/ \E n \in Names : Enter(n)
        \/ \E G \in SUBSET Names : Leave(G)
        \/ Clear
        \/ Loaded

Spec == Init /\ [][Next]_vars

\* A name that is entered has an object of its own, and that object lives.
Sound == \A n \in Names : known[n] # 0 =>
           /\ known[n] \in 1..made /\ known[n] \notin dead
           /\ \A m \in Names \ {n} : known[m] # known[n]
=============================================================================
