--------------------------- MODULE VMCacheProofs ---------------------------
(***************************************************************************)
(* That the VM cache keeps what was saved, for any set of VMs and any       *)
(* number of faults.                                                        *)
(***************************************************************************)
EXTENDS VMCache, TLAPS

-----------------------------------------------------------------------------
(* Types. *)

LEMMA VoidType == Void \in Index
  BY DEF Void, IndexOf, Index

LEMMA IndexDocType ==
  ASSUME TypeOK, NEW u \in UUIDs
  PROVE  IndexDoc(u) \in Index
  BY VoidType DEF TypeOK, Index, IndexDoc, Whole, IndexOf

LEMMA CutIndexType ==
  ASSUME TypeOK
  PROVE  CutIndex \subseteq Index
<1>1. {IndexOf("cut", s) : s \in SUBSET doc.uuids} \subseteq Index
  BY DEF TypeOK, IndexOf, Index
<1>2. QED
  BY <1>1, VoidType DEF CutIndex

LEMMA TypeNext ==
  ASSUME TypeOK, [Next]_vars
  PROVE  TypeOK'
<1>1. CASE saveVMCache
  BY <1>1 DEF saveVMCache, TypeOK, disk
<1>2. ASSUME NEW u \in UUIDs, ReadIndex(u) PROVE TypeOK'
  <2>1. doc' \in Index
    BY <1>2, IndexDocType DEF ReadIndex, Whole, IndexOf, Index
  <2>2. faults' \in Nat /\ faults' <= began /\ kept' \subseteq UUIDs
    BY <1>2 DEF ReadIndex, Fault, TypeOK
  <2>3. QED
    BY <1>2, <2>1, <2>2 DEF ReadIndex, TypeOK, disk
<1>3. CASE OpenIndex
  <2>1. index' \in Index /\ faults' \in Nat /\ faults' <= began
    BY <1>3, VoidType DEF OpenIndex, Fault, TypeOK
  <2>2. QED
    BY <1>3, <2>1 DEF OpenIndex, TypeOK
<1>4. CASE WriteIndex
  <2>1. doc \in Index
    BY DEF TypeOK
  <2>2. index' \in Index /\ faults' \in Nat /\ faults' <= began /\ kept' \subseteq UUIDs
    BY <1>4, <2>1, VoidType, CutIndexType DEF WriteIndex, Fault, TypeOK
  <2>3. QED
    BY <1>4, <2>2 DEF WriteIndex, TypeOK
<1>5. CASE OpenFile
  <2>1. file' \in [UUIDs -> {"absent", "cut", "whole"}]
    BY <1>5 DEF OpenFile, TypeOK
  <2>2. faults' \in Nat /\ faults' <= began
    BY <1>5 DEF OpenFile, Fault, TypeOK
  <2>3. QED
    BY <1>5, <2>1, <2>2 DEF OpenFile, NextVM, TypeOK
<1>6. CASE WriteFile
  <2>1. file' \in [UUIDs -> {"absent", "cut", "whole"}]
    BY <1>6 DEF WriteFile, TypeOK
  <2>2. faults' \in Nat /\ faults' <= began /\ kept' \subseteq UUIDs
    BY <1>6 DEF WriteFile, Fault, TypeOK
  <2>3. QED
    BY <1>6, <2>1, <2>2 DEF WriteFile, NextVM, TypeOK
<1>7. CASE Crash
  <2>1. index' \in Index /\ kept' \subseteq UUIDs
    BY <1>7, CutIndexType DEF Crash, TypeOK
  <2>2. faults' \in Nat /\ faults' <= began
    BY <1>7 DEF Crash, Fault, TypeOK
  <2>3. QED
    BY <1>7, <2>1, <2>2 DEF Crash, TypeOK
<1>8. ASSUME NEW u \in UUIDs, removeVMCache(u) PROVE TypeOK'
  BY <1>8 DEF removeVMCache, TypeOK
<1>9. CASE clearVMCache
  <2>1. index' \in Index
    BY <1>9 DEF clearVMCache, TypeOK, IndexOf, Index
  <2>2. file' \in [UUIDs -> {"absent", "cut", "whole"}]
    BY <1>9 DEF clearVMCache, TypeOK
  <2>3. faults' \in Nat /\ faults' <= began
    BY <1>9 DEF clearVMCache, Fault, TypeOK
  <2>4. QED
    BY <1>9, <2>1, <2>2, <2>3 DEF clearVMCache, TypeOK
<1>10. CASE UNCHANGED vars
  BY <1>10 DEF vars, disk, TypeOK
<1>11. QED
  BY <1>1, <1>2, <1>3, <1>4, <1>5, <1>6, <1>7, <1>8, <1>9, <1>10 DEF Next

\* Every variable keeps its type, and the loop of Connection::saveVMCache is over
\* exactly when no VM is left to save.
THEOREM CacheTypeCorrect == Spec => []TypeOK
<1>1. Init => TypeOK
  BY FaultsAssumption DEF Init, TypeOK, Index, IndexOf, Void
<1>2. QED
  BY <1>1, TypeNext, PTL DEF Spec

-----------------------------------------------------------------------------
(* What was saved stays. *)

KeptIn(idx) == kept \subseteq idx.uuids /\ (kept # {} => idx.state = "whole")

\* The strengthening of KeptLoads: a kept VM's file is whole, and it is listed on
\* disk and, from the moment the index is read until it is written, in memory.
KeptInv ==
  /\ \A u \in kept : file[u] = "whole" \/ (pc = "writeFile" /\ u = cur)
  /\ pc # "writeIndex" => KeptIn(index)
  /\ pc \in {"index", "writeIndex"} => KeptIn(doc)

LEMMA IndexDocKeeps ==
  ASSUME NEW u, KeptIn(index)
  PROVE  KeptIn(IndexDoc(u))
  BY DEF KeptIn, IndexDoc, Whole, Void, IndexOf

LEMMA KeptNext ==
  ASSUME TypeOK, KeptInv, [Next]_vars
  PROVE  KeptInv'
<1>1. CASE saveVMCache
  BY <1>1 DEF saveVMCache, KeptInv, KeptIn, disk
<1>2. ASSUME NEW u \in UUIDs, ReadIndex(u) PROVE KeptInv'
  <2>1. KeptIn(index) /\ UNCHANGED disk /\ pc' = "index"
    BY <1>2 DEF ReadIndex, KeptInv
  <2>2. CASE kept' = {}
    BY <2>1, <2>2 DEF KeptInv, KeptIn
  <2>3. CASE kept' = kept /\ doc' = IndexDoc(u)
    <3>1. KeptIn(IndexDoc(u))
      BY <2>1, IndexDocKeeps
    <3>2. KeptIn(doc)' /\ KeptIn(index)'
      BY <2>1, <2>3, <3>1 DEF KeptIn, disk
    <3>3. QED
      BY <1>2, <2>1, <2>3, <3>2 DEF ReadIndex, KeptInv, disk
  <2>4. QED
    BY <1>2, <2>2, <2>3 DEF ReadIndex
<1>3. CASE OpenIndex
  BY <1>3 DEF OpenIndex, KeptInv, KeptIn
<1>4. CASE WriteIndex
  <2>1. CASE kept' = {}
    BY <1>4, <2>1 DEF WriteIndex, KeptInv, KeptIn
  <2>2. CASE kept' = kept /\ index' = doc
    BY <1>4, <2>2 DEF WriteIndex, KeptInv, KeptIn
  <2>3. QED
    BY <1>4, <2>1, <2>2 DEF WriteIndex
<1>5. CASE OpenFile
  <2>1. \A u \in kept' : file'[u] = "whole" \/ (pc' = "writeFile" /\ u = cur')
    BY <1>5 DEF OpenFile, TypeOK, KeptInv
  <2>2. QED
    BY <1>5, <2>1 DEF OpenFile, NextVM, KeptInv, KeptIn
<1>6. CASE WriteFile
  <2>1. \A u \in kept' : file'[u] = "whole"
    BY <1>6 DEF WriteFile, TypeOK, KeptInv
  <2>2. KeptIn(index)'
    BY <1>6 DEF WriteFile, KeptInv, KeptIn
  <2>3. QED
    BY <1>6, <2>1, <2>2 DEF WriteFile, NextVM, KeptInv
<1>7. CASE Crash
  <2>1. CASE pc = "writeIndex"
    BY <1>7, <2>1 DEF Crash, KeptInv, KeptIn
  <2>2. CASE pc # "writeIndex"
    <3>1. UNCHANGED disk /\ kept' \subseteq kept /\ (pc = "writeFile" => cur \notin kept')
      BY <1>7, <2>2 DEF Crash, disk
    <3>2. QED
      BY <1>7, <2>2, <3>1 DEF Crash, KeptInv, KeptIn, disk
  <2>3. QED
    BY <2>1, <2>2
<1>8. ASSUME NEW u \in UUIDs, removeVMCache(u) PROVE KeptInv'
  BY <1>8 DEF removeVMCache, TypeOK, KeptInv, KeptIn
<1>9. CASE clearVMCache
  BY <1>9 DEF clearVMCache, KeptInv, KeptIn
<1>10. CASE UNCHANGED vars
  BY <1>10 DEF vars, disk, KeptInv, KeptIn
<1>11. QED
  BY <1>1, <1>2, <1>3, <1>4, <1>5, <1>6, <1>7, <1>8, <1>9, <1>10 DEF Next

LEMMA KeptInvImplies ==
  ASSUME KeptInv
  PROVE  KeptLoads
  BY DEF KeptInv, KeptIn, KeptLoads, Loaded

LEMMA KeptInitially == Init => TypeOK /\ KeptInv
  BY FaultsAssumption DEF Init, TypeOK, Index, IndexOf, Void, KeptInv, KeptIn

\* A VM once saved is loaded at every later time, unless a fault hits the index or
\* its own file, or it is removed.
THEOREM KeptCorrect == Spec => []KeptLoads
<1>1. TypeOK /\ KeptInv /\ [Next]_vars => (TypeOK /\ KeptInv)'
  BY TypeNext, KeptNext
<1>2. TypeOK /\ KeptInv => KeptLoads
  BY KeptInvImplies
<1>3. QED
  BY <1>1, <1>2, KeptInitially, PTL DEF Spec

-----------------------------------------------------------------------------
(* A save without a fault makes up for earlier ones. *)

\* The index the next file will find: in memory while it is being rewritten.
Coming == IF pc \in {"index", "writeIndex"} THEN doc ELSE index

\* As long as no fault has hit this Connection::saveVMCache and the index has a root
\* element, the VMs it has done are kept, and the present one is listed once the index
\* has been read.
SaveInv ==
  Clean /\ pc # "idle" /\ Coming.state # "void" =>
    /\ asked \ todo \subseteq kept
    /\ pc # "next" => Coming.state = "whole" /\ cur \in Coming.uuids

LEMMA FaultNotClean ==
  ASSUME TypeOK, Fault, began' = began
  PROVE  ~Clean'
  BY DEF TypeOK, Fault, Clean

LEMMA SaveNext ==
  ASSUME TypeOK, SaveInv, [Next]_vars
  PROVE  SaveInv'
<1>1. CASE saveVMCache
  BY <1>1 DEF saveVMCache, SaveInv
<1>2. ASSUME NEW u \in UUIDs, ReadIndex(u) PROVE SaveInv'
  <2>1. CASE Fault
    BY <1>2, <2>1, FaultNotClean DEF ReadIndex, SaveInv
  <2>2. CASE doc' = IndexDoc(u) /\ UNCHANGED <<faults, kept>>
    <3>1. doc'.state # "void" =>
            index.state # "void" /\ doc'.state = "whole" /\ u \in doc'.uuids
      BY <2>2 DEF IndexDoc, Whole, Void, IndexOf
    <3>2. QED
      BY <1>2, <2>2, <3>1 DEF ReadIndex, SaveInv, Coming, Clean
  <2>3. QED
    BY <1>2, <2>1, <2>2 DEF ReadIndex
<1>3. CASE OpenIndex
  <2>1. CASE Fault
    BY <1>3, <2>1, FaultNotClean DEF OpenIndex, SaveInv
  <2>2. CASE UNCHANGED faults /\ pc' = "writeIndex"
    BY <1>3, <2>2 DEF OpenIndex, SaveInv, Coming, Clean
  <2>3. QED
    BY <1>3, <2>1, <2>2 DEF OpenIndex
<1>4. CASE WriteIndex
  <2>1. CASE Fault
    BY <1>4, <2>1, FaultNotClean DEF WriteIndex, SaveInv
  <2>2. CASE index' = doc /\ UNCHANGED <<faults, kept>>
    BY <1>4, <2>2 DEF WriteIndex, SaveInv, Coming, Clean
  <2>3. QED
    BY <1>4, <2>1, <2>2 DEF WriteIndex
<1>5. CASE OpenFile
  <2>1. CASE Fault
    BY <1>5, <2>1, FaultNotClean DEF OpenFile, SaveInv
  <2>2. CASE UNCHANGED <<faults, todo>> /\ pc' = "writeFile"
    BY <1>5, <2>2 DEF OpenFile, SaveInv, Coming, Clean
  <2>3. QED
    BY <1>5, <2>1, <2>2 DEF OpenFile
<1>6. CASE WriteFile
  <2>1. CASE Fault
    BY <1>6, <2>1, FaultNotClean DEF WriteFile, SaveInv
  <2>2. CASE UNCHANGED faults
    <3>1. pc = "writeFile" /\ todo' = todo \ {cur} /\ pc' \in {"idle", "next"}
      BY <1>6 DEF WriteFile, NextVM
    <3>2. UNCHANGED <<index, asked, began>>
      BY <1>6 DEF WriteFile
    <3>3. index.state = "whole" /\ cur \in index.uuids => kept' = kept \cup {cur}
      BY <1>6, <2>2 DEF WriteFile, Fault, TypeOK
    <3>4. QED
      BY <2>2, <3>1, <3>2, <3>3 DEF SaveInv, Coming, Clean
  <2>3. QED
    BY <1>6, <2>1, <2>2 DEF WriteFile
<1>7. CASE Crash
  BY <1>7 DEF Crash, SaveInv
<1>8. ASSUME NEW u \in UUIDs, removeVMCache(u) PROVE SaveInv'
  BY <1>8 DEF removeVMCache, SaveInv
<1>9. CASE clearVMCache
  BY <1>9 DEF clearVMCache, SaveInv
<1>10. CASE UNCHANGED vars
  BY <1>10 DEF vars, disk, SaveInv, Coming, Clean
<1>11. QED
  BY <1>1, <1>2, <1>3, <1>4, <1>5, <1>6, <1>7, <1>8, <1>9, <1>10 DEF Next

\* The step that ends such a save leaves every VM it was asked for loadable.
LEMMA SaveEnds ==
  ASSUME TypeOK, KeptInv', SaveInv, [Next]_vars,
         pc # "idle", pc' = "idle", Clean', index'.state # "void"
  PROVE  asked \subseteq Loaded'
<1>1. ~Fault \/ began' # began
  BY FaultNotClean
<1>2. CASE WriteFile
  <2>1. UNCHANGED <<index, asked, began, faults>> /\ pc = "writeFile" /\ todo = {cur}
    BY <1>1, <1>2 DEF WriteFile, NextVM
  <2>2. asked \ {cur} \subseteq kept /\ index.state = "whole" /\ cur \in index.uuids
    BY <2>1 DEF SaveInv, Coming, Clean
  <2>3. kept' = kept \cup {cur}
    BY <1>1, <1>2, <2>1, <2>2 DEF WriteFile
  <2>4. KeptLoads'
    BY DEF KeptInv, KeptIn, KeptLoads, Loaded
  <2>5. kept' \subseteq Loaded'
    BY <2>4 DEF KeptLoads
  <2>6. QED
    BY <2>2, <2>3, <2>5
<1>3. CASE OpenFile
  BY <1>1, <1>3 DEF OpenFile
<1>4. CASE Crash
  BY <1>1, <1>4 DEF Crash
<1>5. CASE saveVMCache \/ clearVMCache \/ OpenIndex \/ WriteIndex
  BY <1>5 DEF saveVMCache, clearVMCache, OpenIndex, WriteIndex
<1>6. ASSUME NEW u \in UUIDs, ReadIndex(u) \/ removeVMCache(u) PROVE FALSE
  BY <1>6 DEF ReadIndex, removeVMCache
<1>7. CASE UNCHANGED vars
  BY <1>7 DEF vars
<1>8. QED
  BY <1>2, <1>3, <1>4, <1>5, <1>6, <1>7 DEF Next

\* Connection::saveVMCache without a fault makes up for earlier ones, except for a void
\* index.
THEOREM RepairsCorrect == Spec => FullSaveRepairs
<1> DEFINE Inv == TypeOK /\ KeptInv /\ SaveInv
<1>1. Init => Inv
  BY KeptInitially DEF Init, SaveInv
<1>2. Inv /\ [Next]_vars => Inv'
  BY TypeNext, KeptNext, SaveNext
<1>3. Inv /\ Inv' /\ [Next]_vars =>
        [pc # "idle" /\ pc' = "idle" /\ Clean' /\ index'.state # "void"
           => asked \subseteq Loaded']_vars
  BY SaveEnds
<1>4. QED
  BY <1>1, <1>2, <1>3, PTL DEF Spec, FullSaveRepairs

=============================================================================
