------------------------------ MODULE VMCache ------------------------------
(***************************************************************************)
(* The VM cache of one connection on disk (src/src/core/Config.cpp): an     *)
(* index.xml that lists UUIDs and one file for each VM, both written in     *)
(* place, and Connection::saveVMCache, which saves one VM after the other.  *)
(*                                                                          *)
(* A fault is a call on a file that fails, a write that is cut short (a     *)
(* full disk) or a crash of the program between two steps.  Everything runs *)
(* on the GUI thread of one program; loading changes nothing and is the     *)
(* operator Loaded.                                                         *)
(*                                                                          *)
(* Left out: what a VM's file says beyond being whole (a cut XML text never *)
(* parses), the time stamps, the creation of directories.                   *)
(*                                                                          *)
(* "Slip:" marks a form that an easy mistake would give to the definition   *)
(* after it.                                                                *)
(***************************************************************************)
EXTENDS Naturals

CONSTANTS UUIDs,      \* VMs the cache may know
          MaxFaults   \* bound: faults

ASSUME FaultsAssumption == MaxFaults \in Nat

VARIABLES index,    \* index.xml, see Index
          file,     \* for each UUID, its file
          pc,       \* where Connection::saveVMCache is
          todo,     \* its VMs still to be saved
          cur,      \* the one being saved
          doc,      \* indexDoc, the index in memory: "void" without a root element
          faults,   \* budget left
          \* What happened, for the properties:
          asked,    \* the VMs of the last Connection::saveVMCache
          began,    \* the budget of faults when it began
          kept      \* VMs saved, and hit by no fault or removal since

disk == <<index, file>>
vars == <<disk, pc, todo, cur, doc, faults, asked, began, kept>>

\* A "void" index exists and is empty, a "cut" one ends too early.
Index == [state : {"absent", "void", "cut", "whole"}, uuids : SUBSET UUIDs]
IndexOf(state, uuids) == [state |-> state, uuids |-> uuids]
Void == IndexOf("void", {})
Whole(uuids) == IndexOf("whole", uuids)

TypeOK ==
  /\ index \in Index
  /\ file \in [UUIDs -> {"absent", "cut", "whole"}]
  /\ pc \in {"idle", "next", "index", "writeIndex", "file", "writeFile"}
  /\ todo \subseteq UUIDs /\ (pc \notin {"idle", "next"} => cur \in todo)
  /\ (pc = "idle" <=> todo = {})
  /\ doc \in Index
  /\ faults \in Nat /\ began \in Nat /\ faults <= began
  /\ asked \subseteq UUIDs /\ todo \subseteq asked
  /\ kept \subseteq UUIDs

-----------------------------------------------------------------------------
(* Reading. *)

\* loadAllVMCache: the VMs of an index that parses whose file parses too.
Loaded == IF index.state = "whole" THEN {u \in index.uuids : file[u] = "whole"} ELSE {}

\* Slip: an index written for the VM at hand.
IndexDocAlone(u) == Whole({u})

\* Slip: a VM whose file exists is taken to be listed.
IndexDocByFile(u) ==
  IF index.state = "absent" THEN Whole({u})
  ELSE IF index.state = "void" THEN Void
  ELSE Whole(IF file[u] = "absent" THEN index.uuids \cup {u} ELSE index.uuids)

\* saveVMCache reads the index without asking whether it parses: what comes before
\* a cut is kept, and without a root element there is nothing to add u to.
IndexDoc(u) ==
  IF index.state = "absent" THEN Whole({u})
  ELSE IF index.state = "void" THEN Void
  ELSE Whole(index.uuids \cup {u})

-----------------------------------------------------------------------------
(* Saving. *)

Init ==
  /\ index = IndexOf("absent", {}) /\ file = [u \in UUIDs |-> "absent"]
  /\ pc = "idle" /\ todo = {} /\ cur \in UUIDs /\ doc = Void
  /\ faults = MaxFaults
  /\ asked = {} /\ began = MaxFaults /\ kept = {}

Fault == faults > 0 /\ faults' = faults - 1
Clean == faults = began

\* Connection::saveVMCache, with the table's VMs that have a UUID.
saveVMCache ==
  /\ pc = "idle"
  /\ todo' \in (SUBSET UUIDs) \ {{}}
  /\ pc' = "next" /\ asked' = todo' /\ began' = faults
  /\ UNCHANGED <<disk, cur, doc, faults, kept>>

\* An index that cannot be opened is taken for one that is not there.
ReadIndex(u) ==
  /\ pc = "next" /\ u \in todo
  /\ cur' = u /\ pc' = "index"
  /\ \/ doc' = IndexDoc(u) /\ UNCHANGED <<faults, kept>>
     \/ doc' = Whole({u}) /\ Fault /\ kept' = {}
  /\ UNCHANGED <<disk, todo, asked, began>>

\* Opening truncates the file; a failure is only logged.
OpenIndex ==
  /\ pc = "index"
  /\ \/ index' = Void /\ pc' = "writeIndex" /\ UNCHANGED faults
     \/ pc' = "file" /\ Fault /\ UNCHANGED index
  /\ UNCHANGED <<file, todo, cur, doc, asked, began, kept>>

\* The text on disk when a write of the index was cut short: the parser finds any
\* of the UUIDs in front of the cut, or not even the root element.
CutIndex == IF doc.state = "void" THEN {Void}
            ELSE {Void} \cup {IndexOf("cut", s) : s \in SUBSET doc.uuids}

WriteIndex ==
  /\ pc = "writeIndex" /\ pc' = "file"
  /\ \/ index' = doc /\ UNCHANGED <<faults, kept>>
     \/ index' \in CutIndex /\ Fault /\ kept' = {}
  /\ UNCHANGED <<file, todo, cur, doc, asked, began>>

\* On to the next VM.
NextVM == todo' = todo \ {cur} /\ pc' = IF todo = {cur} THEN "idle" ELSE "next"

OpenFile ==
  /\ pc = "file"
  /\ \/ /\ file' = [file EXCEPT ![cur] = "cut"]
        /\ pc' = "writeFile" /\ UNCHANGED <<faults, todo>>
     \/ NextVM /\ Fault /\ UNCHANGED file
  /\ UNCHANGED <<index, cur, doc, asked, began, kept>>

\* A VM that loads from now on is kept.
WriteFile ==
  /\ pc = "writeFile" /\ NextVM
  /\ \/ /\ file' = [file EXCEPT ![cur] = "whole"] /\ UNCHANGED faults
        /\ kept' = IF index.state = "whole" /\ cur \in index.uuids
                   THEN kept \cup {cur} ELSE kept \ {cur}
     \/ Fault /\ kept' = kept \ {cur} /\ UNCHANGED file
  /\ UNCHANGED <<index, cur, doc, asked, began>>

\* The program is killed while it saves, and starts again.
Crash ==
  /\ pc # "idle" /\ Fault
  /\ pc' = "idle" /\ todo' = {}
  /\ IF pc = "writeIndex" THEN index' \in CutIndex ELSE UNCHANGED index
  /\ kept' = CASE pc = "writeIndex" -> {}
               [] pc = "writeFile" -> kept \ {cur}
               [] OTHER -> kept
  /\ UNCHANGED <<file, cur, doc, asked, began>>

-----------------------------------------------------------------------------
(* Removing.  Public, and without a caller in the program. *)

\* The index is open for reading when it is opened for writing, which fails: its
\* entry stays.
removeVMCache(u) ==
  /\ pc = "idle"
  /\ file' = [file EXCEPT ![u] = "absent"]
  /\ kept' = kept \ {u}
  /\ UNCHANGED <<index, pc, todo, cur, doc, faults, asked, began>>

\* All files of the directory; a crash or a failure leaves some.
clearVMCache ==
  /\ pc = "idle" /\ kept' = {}
  /\ \/ /\ index' = IndexOf("absent", {}) /\ file' = [u \in UUIDs |-> "absent"]
        /\ UNCHANGED faults
     \/ /\ index' \in {index, IndexOf("absent", {})}
        /\ \E gone \in SUBSET UUIDs :
             file' = [u \in UUIDs |-> IF u \in gone THEN "absent" ELSE file[u]]
        /\ Fault
  /\ UNCHANGED <<pc, todo, cur, doc, asked, began>>

-----------------------------------------------------------------------------
Next == \/ saveVMCache \/ OpenIndex \/ WriteIndex \/ OpenFile \/ WriteFile
        \/ Crash \/ clearVMCache
        \/ \E u \in UUIDs : ReadIndex(u) \/ removeVMCache(u)

Spec == Init /\ [][Next]_vars

-----------------------------------------------------------------------------
(* Properties. *)

\* A VM once saved is loaded at every later time, however often others are saved,
\* as long as no fault hits the index or its own file (Config::saveVMCache rewrites
\* the whole index for each VM); while a file is being rewritten it is unreadable.
KeptLoads ==
  pc # "writeIndex" =>
    \A u \in kept : (pc = "writeFile" /\ u = cur) \/ u \in Loaded

\* Connection::saveVMCache without a fault makes up for earlier ones: each of its
\* VMs loads afterwards, unless the index was void.
FullSaveRepairs ==
  [][pc # "idle" /\ pc' = "idle" /\ Clean' /\ index'.state # "void"
       => asked \subseteq Loaded']_vars

\* "Add UUID to index if not present" (Config.cpp:222): each VM that was saved without
\* a fault is in the index, whatever happened before.
SavedIsListed ==
  [][pc # "idle" /\ pc' = "idle" /\ Clean' => asked \subseteq index'.uuids]_vars

=============================================================================
