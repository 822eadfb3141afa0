------------------------ MODULE ResourceDialogProofs ------------------------
(***************************************************************************)
(* That the dialogs destroy only what was asked about and, alone with the   *)
(* host, hold no pointer to an object a poll deletes, for any pools,        *)
(* networks and volumes and any number of troubles.                         *)
(***************************************************************************)
EXTENDS ResourceDialog, TLAPS

-----------------------------------------------------------------------------
(* Types. *)

LEMMA ObjectType ==
  ASSUME TypeOK, NEW n \in Names, NEW f \in BOOLEAN
  PROVE  ObjectOf(n, f) \in Objects
  BY DEF ObjectOf, Objects, Running, InfoState, ActiveState

LEMMA OutdatedType ==
  ASSUME TypeOK, NEW h
  PROVE  Outdated(h) \in [Names -> Objects \cup {None}]
  BY DEF Outdated, TypeOK, Objects

LEMMA OffersType ==
  ASSUME NEW w
  PROVE  OffersOf(w) \in Offers
  BY DEF OffersOf, Offers

LEMMA ReadsType ==
  ASSUME TypeOK, NEW n \in Names, Reads(n)
  PROVE  wrap' \in [Names -> Objects \cup {None}] /\ troubles' \in Nat
  BY ObjectType DEF Reads, TypeOK

LEMMA DangleType ==
  ASSUME TypeOK, NEW N, Dangle(N)
  PROVE  /\ cur' \in Pointers \cup {None} /\ vol' \in VolPointers \cup {None}
         /\ ask' \in Prompts \cup {None}
  BY DEF Dangle, TypeOK, Pointers, VolPointers, Prompts

LEMMA PointerType ==
  ASSUME TypeOK, NEW n \in Names, wrap[n] # None
  PROVE  PointerTo(n) \in Pointers
  BY DEF PointerTo, Pointers, TypeOK, Objects

LEMMA QuestionType ==
  ASSUME TypeOK, NEW what \in Up
  PROVE  /\ cur # None => Question(what) \in Prompts
         /\ vol # None => VolumeQuestion(what) \in Prompts
  BY DEF Question, VolumeQuestion, Prompts, TypeOK, Pointers, VolPointers, Offers

\* A pointer that does not dangle has its object in the table.
Held == /\ Alive(cur) => wrap[cur.n] # None
        /\ Alive(vol) => wrap[vol.n] # None

LEMMA PoolType ==
  ASSUME TypeOK, Held, Pool
  PROVE  TypeOK'
<1> USE DEF objVars, viewVars, buttons, hostVars
<1>1. ASSUME NEW n \in Names, Select(n) PROVE TypeOK'
  BY <1>1, PointerType, OffersType DEF Select, TypeOK, VolumesOf
<1>2. ASSUME NEW n \in Names, Menu(n) PROVE TypeOK'
  <2>1. cur' \in Pointers \cup {None}
    BY <1>2, PointerType DEF Menu, TypeOK
  <2>2. ask' \in Prompts \cup {None}
    <3>1. ASSUME NEW o \in Offers
          PROVE  [what |-> "menu", n |-> n, v |-> None, offers |-> o, alive |-> TRUE]
                   \in Prompts
      BY DEF Prompts, Up
    <3>2. "nothing" \in Offers
      BY DEF Offers
    <3>3. QED
      BY <1>2, <3>1, <3>2, OffersType DEF Menu
  <2>3. QED
    BY <1>2, <2>1, <2>2 DEF Menu, TypeOK
<1>3. CASE Dismiss
  BY <1>3 DEF Dismiss, TypeOK
<1>4. CASE Start
  <2>1. host' \in [Names -> HostStates]
    BY <1>4 DEF Start, TypeOK, HostStates
  <2>2. wrap' \in [Names -> Objects \cup {None}]
    <3>1. cur.n \in Names /\ wrap[cur.n] \in Objects
      BY <1>4 DEF Start, Held, TypeOK, Alive, Pointers
    <3>2. [wrap[cur.n] EXCEPT !.m_active = TRUE] \in Objects
      BY <3>1 DEF Objects
    <3>3. QED
      BY <1>4, <3>1, <3>2 DEF Start, TypeOK
  <2>3. QED
    BY <1>4, <2>1, <2>2, OffersType DEF Start, TypeOK
<1>5. CASE Refresh
  <2>1. wrap' \in [Names -> Objects \cup {None}]
    <3>1. cur.n \in Names /\ wrap[cur.n] \in Objects
      BY <1>5 DEF Refresh, Held, TypeOK, Alive, Pointers
    <3>2. wrap[cur.n].valid \in BOOLEAN /\ Reaches(cur.n) \in BOOLEAN
      BY <3>1 DEF Objects, Reaches
    <3>3. [valid |-> wrap[cur.n].valid,
           m_active |-> Reaches(cur.n) /\ Running(cur.n),
           m_state |-> IF Reaches(cur.n) THEN ActiveState(host[cur.n])
                                         ELSE "Inactive"] \in Objects
      BY <3>2 DEF Objects, Running, ActiveState
    <3>4. QED
      BY <1>5, <3>1, <3>3 DEF Refresh, TypeOK
  <2>2. QED
    BY <1>5, <2>1, OffersType DEF Refresh, TypeOK, VolumesOf
<1>6. ASSUME NEW w \in {"stop", "delete"}, Asks(w) PROVE TypeOK'
  BY <1>6, QuestionType DEF Asks, TypeOK, Alive, Up
<1>7. CASE Stop
  <2>1. host' \in [Names -> HostStates]
    BY <1>7 DEF Stop, TypeOK, HostStates
  <2>2. Outdated(host') \in [Names -> Objects \cup {None}]
    BY OutdatedType
  <2>3. wrap' \in [Names -> Objects \cup {None}]
    <3>1. cur.n \in Names /\ wrap[cur.n] # None
      BY <1>7 DEF Stop, Held, TypeOK, Alive, Pointers
    <3>2. Outdated(host')[cur.n] \in Objects
      BY <3>1 DEF Outdated, TypeOK, Objects
    <3>3. [Outdated(host')[cur.n] EXCEPT !.m_active = FALSE] \in Objects
      BY <3>2 DEF Objects
    <3>4. QED
      BY <1>7, <2>2, <3>1, <3>3 DEF Stop, TypeOK
  <2>4. QED
    BY <1>7, <2>1, <2>3, OffersType DEF Stop, TypeOK
<1>8. CASE Delete
  <2>1. host' \in [Names -> HostStates]
    BY <1>8 DEF Delete, TypeOK, HostStates, Undefined
  <2>2. QED
    BY <1>8, <2>1, OutdatedType DEF Delete, DropCurrent, TypeOK
<1>9. CASE RefreshList
  BY <1>9, OffersType DEF RefreshList, TypeOK, VolumesOf
<1>10. QED
  BY <1>1, <1>2, <1>3, <1>4, <1>5, <1>6, <1>7, <1>8, <1>9 DEF Pool

LEMMA VolumeType ==
  ASSUME TypeOK, Volume
  PROVE  TypeOK'
<1> USE DEF objVars, viewVars, buttons, hostVars
<1>1. ASSUME NEW v \in Vols, SelectVolume(v) PROVE TypeOK'
  BY <1>1 DEF SelectVolume, TypeOK, VolPointers, Pointers, Alive
<1>2. ASSUME NEW v \in Vols, NewVolume(v) PROVE TypeOK'
  <2>1. cur.n \in Names
    BY <1>2 DEF NewVolume, Uploaded, Created, Alive, TypeOK, Pointers
  <2>2. vols' = vols \/ vols' = vols \cup {<<cur.n, v>>}
    BY <1>2 DEF NewVolume, Uploaded, Created
  <2>3. <<cur.n, v>> \in Pairs
    BY <2>1 DEF Pairs
  <2>4. vols' \subseteq Pairs /\ vols \subseteq vols'
    BY <2>2, <2>3 DEF TypeOK
  <2>5. vrows' \subseteq Vols
    BY <1>2 DEF NewVolume, Uploaded, Created, TypeOK
  <2>6. QED
    BY <1>2, <2>4, <2>5 DEF NewVolume, Uploaded, Created, TypeOK
<1>3. ASSUME NEW v \in Vols, CloneVolume(v) PROVE TypeOK'
  <2>1. vols' \subseteq Pairs /\ data' \subseteq vols'
    BY <1>3 DEF CloneVolume, TypeOK, Pairs, Alive, VolPointers, Target
  <2>2. QED
    BY <1>3, <2>1, QuestionType DEF CloneVolume, TypeOK, Alive, Up
<1>4. ASSUME NEW w \in {"remove", "wipe", "clone", "download"}, AsksVolume(w) PROVE TypeOK'
  BY <1>4, QuestionType DEF AsksVolume, TypeOK, Alive, Up
<1>5. ASSUME NEW w \in {"create", "upload"}, AsksNewVolume(w) PROVE TypeOK'
  BY <1>5, QuestionType DEF AsksNewVolume, TypeOK, Alive, Up
<1>6. CASE RemoveVolume
  BY <1>6 DEF RemoveVolume, ListsAfter, TypeOK
<1>7. CASE WipeVolume
  BY <1>7, QuestionType DEF WipeVolume, TypeOK, Alive, Up
<1>8. CASE CloseBox
  BY <1>8 DEF CloseBox, ListsAfter, TypeOK
<1>9. CASE Download
  BY <1>9 DEF Download, TypeOK
<1>10. QED
  BY <1>1, <1>2, <1>3, <1>4, <1>5, <1>6, <1>7, <1>8, <1>9 DEF Volume

LEMMA AroundType ==
  ASSUME TypeOK, Around
  PROVE  TypeOK'
<1> USE DEF objVars, viewVars, buttons, hostVars
<1>1. CASE ClickOnDeleted
  BY <1>1 DEF ClickOnDeleted, TypeOK
<1>2. CASE AnswerOnDeleted
  BY <1>2 DEF AnswerOnDeleted, TypeOK
<1>3. CASE CloseDialog
  BY <1>3 DEF CloseDialog, OpenDialog, TypeOK, Offers
<1>4. CASE CloseConnection
  BY <1>4, DangleType DEF CloseConnection, TypeOK
<1>5. ASSUME NEW n \in Names, PollDrops(n) PROVE TypeOK'
  <2>1. host' \in [Names -> HostStates] /\ troubles' \in Nat
    BY <1>5 DEF PollDrops, TypeOK, HostStates
  <2>2. wrap' \in [Names -> Objects \cup {None}]
    BY <1>5 DEF PollDrops, TypeOK
  <2>3. QED
    BY <1>5, <2>1, <2>2, DangleType DEF PollDrops, TypeOK
<1>6. ASSUME NEW n \in Names, PollAdds(n) PROVE TypeOK'
  BY <1>6, ReadsType DEF PollAdds, TypeOK
<1>7. ASSUME NEW n \in Names, UpdateInfo(n) PROVE TypeOK'
  BY <1>7, ReadsType DEF UpdateInfo, TypeOK
<1>8. ASSUME NEW n \in Names, HostChanges(n) PROVE TypeOK'
  <2>1. host' \in [Names -> HostStates] /\ troubles' \in Nat
    BY <1>8 DEF HostChanges, TypeOK
  <2>2. QED
    BY <1>8, <2>1, OutdatedType DEF HostChanges, TypeOK
<1>9. QED
  BY <1>1, <1>2, <1>3, <1>4, <1>5, <1>6, <1>7, <1>8 DEF Around

LEMMA TypeNext ==
  ASSUME TypeOK, Held, [Next]_vars
  PROVE  TypeOK'
<1>1. CASE UNCHANGED vars
  BY <1>1 DEF vars, objVars, viewVars, buttons, hostVars, TypeOK
<1>2. QED
  BY <1>1, PoolType, VolumeType, AroundType DEF Next

LEMMA ReadsHeld ==
  ASSUME TypeOK, NEW n \in Names, Reads(n), Held, UNCHANGED <<cur, vol>>
  PROVE  Held'
<1>1. PICK f \in BOOLEAN : wrap' = [wrap EXCEPT ![n] = ObjectOf(n, f)]
  BY DEF Reads
<1>2. ObjectOf(n, f) # None
  BY ObjectType, NoneAssumption
<1>3. QED
  BY <1>1, <1>2 DEF Held, TypeOK, Alive, Pointers, VolPointers

LEMMA OutdatedHeld ==
  ASSUME TypeOK, NEW h, NEW n \in Names
  PROVE  Outdated(h)[n] = None <=> wrap[n] = None
<1>1. CASE wrap[n] # None /\ h[n] = "absent"
  <2>1. [wrap[n] EXCEPT !.valid = FALSE] \in Objects
    BY <1>1 DEF TypeOK, Objects
  <2>2. QED
    BY <1>1, <2>1, NoneAssumption DEF Outdated
<1>2. QED
  BY <1>1 DEF Outdated

LEMMA PoolHeld ==
  ASSUME TypeOK, Held, Pool
  PROVE  Held'
<1> USE DEF objVars, viewVars, buttons, hostVars
<1>1. ASSUME NEW n \in Names, Select(n) PROVE Held'
  BY <1>1 DEF Select, Held, Alive, PointerTo
<1>2. ASSUME NEW n \in Names, Menu(n) PROVE Held'
  BY <1>2 DEF Menu, Held, Alive, PointerTo
<1>3. CASE Dismiss
  BY <1>3 DEF Dismiss, Held, Alive
<1>4. CASE Start
  <2>1. cur.n \in Names /\ wrap[cur.n] \in Objects
    BY <1>4 DEF Start, Held, TypeOK, Alive, Pointers
  <2>2. [wrap[cur.n] EXCEPT !.m_active = TRUE] \in Objects
    BY <2>1 DEF Objects
  <2>3. QED
    BY <1>4, <2>1, <2>2, NoneAssumption DEF Start, Held, TypeOK, Alive, VolPointers
<1>5. CASE Refresh
  <2>1. cur.n \in Names /\ wrap[cur.n] \in Objects
    BY <1>5 DEF Refresh, Held, TypeOK, Alive, Pointers
  <2>2. TypeOK'
    BY <1>5, PoolType DEF Pool
  <2>3. wrap'[cur.n] # None
    <3>1. CASE kind = "network"
      <4> DEFINE w == [valid |-> wrap[cur.n].valid,
                       m_active |-> Reaches(cur.n) /\ Running(cur.n),
                       m_state |-> IF Reaches(cur.n) THEN ActiveState(host[cur.n])
                                                     ELSE "Inactive"]
      <4>1. wrap' = [wrap EXCEPT ![cur.n] = w]
        BY <1>5, <3>1 DEF Refresh
      <4>2. Reaches(cur.n) \in BOOLEAN
        BY <2>1 DEF Objects, Reaches
      <4>3. w \in Objects
        BY <2>1, <4>2 DEF Objects, Running, ActiveState
      <4>4. QED
        BY <2>1, <4>1, <4>3, NoneAssumption DEF TypeOK
    <3>2. QED
      BY <1>5, <2>1, <3>1, NoneAssumption DEF Refresh
  <2>4. \A n \in Names : n # cur.n => wrap'[n] = wrap[n]
    BY <1>5, <2>1 DEF Refresh, TypeOK
  <2>5. QED
    BY <1>5, <2>1, <2>3, <2>4 DEF Refresh, Held, TypeOK, Alive, VolPointers
<1>6. ASSUME NEW w \in {"stop", "delete"}, Asks(w) PROVE Held'
  BY <1>6 DEF Asks, Held, Alive
<1>7. CASE Stop
  <2>1. cur.n \in Names /\ wrap[cur.n] # None
    BY <1>7 DEF Stop, Held, TypeOK, Alive, Pointers
  <2>2. Outdated(host')[cur.n] \in Objects
    BY <2>1, OutdatedType, OutdatedHeld DEF TypeOK
  <2>3. [Outdated(host')[cur.n] EXCEPT !.m_active = FALSE] \in Objects
    BY <2>2 DEF Objects
  <2>4. QED
    BY <1>7, <2>1, <2>3, NoneAssumption, OutdatedHeld, OutdatedType
       DEF Stop, Held, TypeOK, Alive, VolPointers
<1>8. CASE Delete
  <2>1. Alive(vol) => vol.n \in Names
    BY DEF TypeOK, Alive, VolPointers
  <2>2. Alive(cur) => cur.n \in Names
    BY DEF TypeOK, Alive, Pointers
  <2>3. QED
    BY <1>8, <2>1, <2>2, OutdatedHeld DEF Delete, DropCurrent, Held, Alive
<1>9. CASE RefreshList
  BY <1>9 DEF RefreshList, Held, Alive
<1>10. QED
  BY <1>1, <1>2, <1>3, <1>4, <1>5, <1>6, <1>7, <1>8, <1>9 DEF Pool

LEMMA VolumeHeld ==
  ASSUME TypeOK, Held, Volume
  PROVE  Held'
<1> USE DEF objVars, viewVars, buttons, hostVars
<1>1. ASSUME NEW v \in Vols, SelectVolume(v) PROVE Held'
  BY <1>1 DEF SelectVolume, Held, Alive
<1>2. ASSUME NEW v \in Vols, NewVolume(v) \/ CloneVolume(v) PROVE Held'
  BY <1>2 DEF NewVolume, Uploaded, Created, CloneVolume, Held, Alive
<1>3. CASE RemoveVolume
  BY <1>3 DEF RemoveVolume, Held, Alive
<1>4. ASSUME NEW w, AsksVolume(w) \/ AsksNewVolume(w) PROVE Held'
  BY <1>4 DEF AsksVolume, AsksNewVolume, Held, Alive
<1>5. CASE WipeVolume \/ CloseBox \/ Download
  BY <1>5 DEF WipeVolume, CloseBox, Download, Held, Alive
<1>6. QED
  BY <1>1, <1>2, <1>3, <1>4, <1>5 DEF Volume

LEMMA AroundHeld ==
  ASSUME TypeOK, Held, Around
  PROVE  Held'
<1> USE DEF objVars, viewVars, buttons, hostVars
<1>1. CASE ClickOnDeleted \/ AnswerOnDeleted \/ CloseDialog
  BY <1>1 DEF ClickOnDeleted, AnswerOnDeleted, CloseDialog, OpenDialog, Held, Alive
<1>2. CASE CloseConnection
  BY <1>2 DEF CloseConnection, Dangle, Held, Alive, TypeOK, Pointers, VolPointers
<1>3. ASSUME NEW n \in Names, PollDrops(n) PROVE Held'
  BY <1>3 DEF PollDrops, Dangle, Held, Alive, TypeOK, Pointers, VolPointers
<1>4. ASSUME NEW n \in Names, PollAdds(n) \/ UpdateInfo(n) PROVE Held'
  BY <1>4, ReadsHeld DEF PollAdds, UpdateInfo
<1>5. ASSUME NEW n \in Names, HostChanges(n) PROVE Held'
  <2>1. Alive(vol) => vol.n \in Names
    BY DEF TypeOK, Alive, VolPointers
  <2>2. Alive(cur) => cur.n \in Names
    BY DEF TypeOK, Alive, Pointers
  <2>3. QED
    BY <1>5, <2>1, <2>2, OutdatedHeld DEF HostChanges, Held, Alive
<1>6. QED
  BY <1>1, <1>2, <1>3, <1>4, <1>5 DEF Around

LEMMA HeldNext ==
  ASSUME TypeOK, Held, [Next]_vars
  PROVE  Held'
<1>1. CASE UNCHANGED vars
  BY <1>1 DEF vars, objVars, Held, Alive
<1>2. QED
  BY <1>1, PoolHeld, VolumeHeld, AroundHeld DEF Next

LEMMA TypesAlways == Spec => [](TypeOK /\ Held)
<1>1. Init => TypeOK
  <2> SUFFICES ASSUME Init PROVE TypeOK
    OBVIOUS
  <2>1. wrap \in [Names -> Objects \cup {None}]
    BY DEF Init, ObjectOf, Objects, Running, InfoState, ActiveState
  <2>2. vols \subseteq Pairs
    BY DEF Init
  <2>3. host \in [Names -> HostStates] /\ offers \in Offers
    BY DEF Init, HostStates, Offers
  <2>4. QED
    BY <2>1, <2>2, <2>3, BoundsAssumption DEF Init, TypeOK
<1>2. Init => Held
  BY DEF Init, Held, Alive
<1>3. QED
  BY <1>1, <1>2, TypeNext, HeldNext, PTL DEF Spec

\* The variables keep their types, for all values of the constants.
THEOREM TypeCorrect == Spec => []TypeOK
  BY TypesAlways, PTL
-----------------------------------------------------------------------------
(* What is destroyed was asked about: while a question is up the pointer it  *)
(* was asked about stays, whatever happens to its object.                    *)

AskFits ==
  /\ Asked({"stop", "delete"}, ask.n) => cur # None /\ cur.n = ask.n
  /\ Asked({"remove", "wipe"}, ask.n) => vol # None /\ vol.n = ask.n /\ vol.v = ask.v

LEMMA DangleFits ==
  ASSUME TypeOK, AskFits, NEW N, Dangle(N)
  PROVE  AskFits'
<1>1. /\ cur' # None <=> cur # None
      /\ cur # None => cur'.n = cur.n
      /\ vol' # None <=> vol # None
      /\ vol # None => vol'.n = vol.n /\ vol'.v = vol.v
  <2>1. cur # None => [cur EXCEPT !.alive = FALSE] \in Pointers
    BY DEF TypeOK, Pointers
  <2>2. vol # None => [vol EXCEPT !.alive = FALSE] \in VolPointers
    BY DEF TypeOK, VolPointers
  <2>3. QED
    BY <2>1, <2>2, NoneAssumption DEF Dangle, TypeOK, Pointers, VolPointers
<1>2. /\ ask' # None => ask # None
      /\ ask' # None => ask'.n = ask.n /\ ask'.v = ask.v /\ ask'.what = ask.what
  BY DEF Dangle, TypeOK, Prompts
<1>3. QED
  BY <1>1, <1>2 DEF AskFits, Asked

LEMMA FitsNext ==
  ASSUME TypeOK, AskFits, [Next]_vars
  PROVE  AskFits'
<1> USE DEF objVars, viewVars, buttons, hostVars
<1>1. ASSUME ask' = None PROVE AskFits'
  BY <1>1 DEF AskFits, Asked
<1>2. ASSUME UNCHANGED <<ask, cur, vol>> PROVE AskFits'
  BY <1>2 DEF AskFits, Asked
<1>3. CASE UNCHANGED vars
  BY <1>2, <1>3 DEF vars
<1>4. CASE Pool
  <2>1. ASSUME NEW n \in Names, Menu(n) PROVE AskFits'
    BY <2>1 DEF Menu, AskFits, Asked
  <2>2. ASSUME NEW w \in {"stop", "delete"}, Asks(w) PROVE AskFits'
    BY <2>2 DEF Asks, AskFits, Asked, Question, Alive
  <2>3. ASSUME NEW n \in Names, Select(n) PROVE AskFits'
    BY <2>3 DEF Select, AskFits, Asked, Quiet
  <2>4. CASE RefreshList
    BY <2>4, <1>2 DEF RefreshList
  <2>5. CASE Dismiss \/ Start \/ Refresh \/ Stop \/ Delete
    BY <2>5, <1>1 DEF Dismiss, Start, Refresh, Stop, Delete
  <2>6. QED
    BY <1>4, <2>1, <2>2, <2>3, <2>4, <2>5 DEF Pool
<1>5. CASE Volume
  <2>1. ASSUME NEW v \in Vols, SelectVolume(v) PROVE AskFits'
    BY <2>1 DEF SelectVolume, AskFits, Asked, Quiet
  <2>2. ASSUME NEW w \in {"remove", "wipe", "clone", "download"}, AsksVolume(w)
        PROVE  AskFits'
    BY <2>2 DEF AsksVolume, VolumeQuestion, AskFits, Asked, Alive, Question
  <2>3. ASSUME NEW w \in {"create", "upload"}, AsksNewVolume(w) PROVE AskFits'
    BY <2>3 DEF AsksNewVolume, Question, AskFits, Asked
  <2>4. ASSUME NEW v \in Vols, CloneVolume(v) PROVE AskFits'
    BY <2>4 DEF CloneVolume, VolumeQuestion, AskFits, Asked
  <2>5. CASE WipeVolume
    BY <2>5 DEF WipeVolume, VolumeQuestion, AskFits, Asked
  <2>6. ASSUME NEW v \in Vols, NewVolume(v) PROVE AskFits'
    BY <2>6, <1>1 DEF NewVolume, Uploaded, Created
  <2>7. CASE RemoveVolume \/ CloseBox \/ Download
    BY <2>7, <1>1 DEF RemoveVolume, CloseBox, Download
  <2>8. QED
    BY <1>5, <2>1, <2>2, <2>3, <2>4, <2>5, <2>6, <2>7 DEF Volume
<1>6. CASE Around
  <2>1. CASE ClickOnDeleted
    BY <2>1, <1>2 DEF ClickOnDeleted
  <2>2. CASE AnswerOnDeleted \/ CloseDialog
    BY <2>2, <1>1 DEF AnswerOnDeleted, CloseDialog, OpenDialog
  <2>3. CASE CloseConnection
    BY <2>3, DangleFits DEF CloseConnection
  <2>4. ASSUME NEW n \in Names, PollDrops(n) PROVE AskFits'
    BY <2>4, DangleFits DEF PollDrops
  <2>5. ASSUME NEW n \in Names, PollAdds(n) \/ UpdateInfo(n) \/ HostChanges(n)
        PROVE  AskFits'
    BY <2>5, <1>2 DEF PollAdds, UpdateInfo, HostChanges
  <2>6. QED
    BY <1>6, <2>1, <2>2, <2>3, <2>4, <2>5 DEF Around
<1>7. QED
  BY <1>3, <1>4, <1>5, <1>6 DEF Next

OnlyAskedStep ==
  /\ \A n \in Names : troubles' = troubles /\ Destroyed(n) =>
                           Asked({"stop", "delete"}, n)
  /\ \A p \in Pairs : p \in data /\ p \notin data' =>
                           Asked({"remove", "wipe"}, p[1]) /\ ask.v = p[2]

LEMMA AskedStep ==
  ASSUME TypeOK, AskFits, [Next]_vars
  PROVE  OnlyAskedStep
<1> USE DEF objVars, viewVars, buttons, hostVars
<1>1. ASSUME host' = host, data' = data PROVE OnlyAskedStep
  BY <1>1 DEF OnlyAskedStep, Destroyed
<1>2. ASSUME UNCHANGED vars PROVE OnlyAskedStep
  BY <1>1, <1>2 DEF vars
<1>3. CASE Pool
  <2>1. CASE Start
    BY <2>1 DEF Start, OnlyAskedStep, Destroyed, TypeOK
  <2>2. CASE Stop \/ Delete
    <3>1. data' = data /\ Asked({"stop", "delete"}, cur.n)
      BY <2>2 DEF Stop, Delete, Yes, AskFits, Asked
    <3>2. \A n \in Names : n # cur.n => host'[n] = host[n]
      BY <2>2 DEF Stop, Delete, TypeOK
    <3>3. QED
      BY <3>1, <3>2 DEF OnlyAskedStep, Destroyed
  <2>3. ASSUME NEW n \in Names, Select(n) \/ Menu(n) PROVE OnlyAskedStep
    BY <2>3, <1>1 DEF Select, Menu
  <2>4. ASSUME NEW w, Asks(w) PROVE OnlyAskedStep
    BY <2>4, <1>1 DEF Asks
  <2>5. CASE Dismiss \/ Refresh \/ RefreshList
    BY <2>5, <1>1 DEF Dismiss, Refresh, RefreshList
  <2>6. QED
    BY <1>3, <2>1, <2>2, <2>3, <2>4, <2>5 DEF Pool
<1>4. CASE Volume
  <2>1. CASE RemoveVolume \/ WipeVolume
    <3>1. host' = host /\ data \ data' \subseteq {Target}
      BY <2>1 DEF RemoveVolume, WipeVolume
    <3>2. Asked({"remove", "wipe"}, Target[1]) /\ ask.v = Target[2]
      BY <2>1 DEF RemoveVolume, WipeVolume, Yes, AskFits, Asked, Target
    <3>3. QED
      BY <3>1, <3>2 DEF OnlyAskedStep, Destroyed
  <2>2. ASSUME NEW v \in Vols, CloneVolume(v) PROVE OnlyAskedStep
    BY <2>2 DEF CloneVolume, OnlyAskedStep, Destroyed
  <2>3. ASSUME NEW v \in Vols, SelectVolume(v) \/ NewVolume(v) PROVE OnlyAskedStep
    BY <2>3, <1>1 DEF SelectVolume, NewVolume, Uploaded, Created
  <2>4. ASSUME NEW w, AsksVolume(w) \/ AsksNewVolume(w) PROVE OnlyAskedStep
    BY <2>4, <1>1 DEF AsksVolume, AsksNewVolume
  <2>5. CASE CloseBox \/ Download
    BY <2>5, <1>1 DEF CloseBox, Download
  <2>6. QED
    BY <1>4, <2>1, <2>2, <2>3, <2>4, <2>5 DEF Volume
<1>5. CASE Around
  <2>1. ASSUME NEW n \in Names, PollDrops(n) \/ HostChanges(n) PROVE OnlyAskedStep
    <3>1. data' = data /\ (host' = host \/ troubles' = troubles - 1)
      BY <2>1 DEF PollDrops, HostChanges
    <3>2. troubles - 1 # troubles
      BY DEF TypeOK
    <3>3. QED
      BY <3>1, <3>2, <1>1 DEF OnlyAskedStep, Destroyed
  <2>2. ASSUME NEW n \in Names, PollAdds(n) \/ UpdateInfo(n) PROVE OnlyAskedStep
    BY <2>2, <1>1 DEF PollAdds, UpdateInfo
  <2>3. CASE ClickOnDeleted \/ AnswerOnDeleted \/ CloseDialog \/ CloseConnection
    BY <2>3, <1>1 DEF ClickOnDeleted, AnswerOnDeleted, CloseDialog, CloseConnection
  <2>4. QED
    BY <1>5, <2>1, <2>2, <2>3 DEF Around
<1>6. QED
  BY <1>2, <1>3, <1>4, <1>5 DEF Next

\* What the program stops, deletes, removes or wipes was named in the question
\* that was answered, for any number of entries, volumes and other clients.
THEOREM AskedFirst == Spec => OnlyAsked
<1>1. Init => AskFits
  BY DEF Init, AskFits, Asked
<1>2. TypeOK /\ AskFits /\ [Next]_vars => [OnlyAskedStep]_vars
  BY AskedStep
<1>3. QED
  BY <1>1, <1>2, TypesAlways, FitsNext, PTL DEF Spec, OnlyAsked, OnlyAskedStep
-----------------------------------------------------------------------------
(* Alone with the host.  What keeps the pointers good: an entry selected as   *)
(* defined stays on the host while it is the current one, a running pool is   *)
(* never stopped from here (it shows as degraded, so Stop is not offered), and*)
(* a volume that is selected is in a running pool.                            *)

Alone == isOpen /\ troubles = MaxTroubles

Kept ==
  /\ ~Dead(vol) /\ (Dead(cur) => ~cur.defined)
  /\ Alive(cur) /\ cur.defined => host[cur.n] \in {"inactive", "active"}
  /\ Alive(vol) => kind = "pool" /\ Running(vol.n)

NoStop ==
  kind = "pool" =>
    /\ \A n \in Names : wrap[n] # None => wrap[n].m_state # "Running"
    /\ offers # "stop"
    /\ ask # None => ask.offers # "stop" /\ ask.what # "stop"

LoneInv == troubles <= MaxTroubles /\ (Alone => Kept /\ NoStop)

LEMMA StillAlone ==
  ASSUME TypeOK, troubles <= MaxTroubles, [Next]_vars
  PROVE  /\ troubles' <= MaxTroubles
         /\ Alone' => Alone /\ troubles' = troubles
<1> USE DEF objVars, viewVars, buttons, hostVars
<1>1. (troubles' = troubles \/ troubles' = troubles - 1) /\ (isOpen' => isOpen)
  <2>1. CASE UNCHANGED vars
    BY <2>1 DEF vars
  <2>2. CASE Pool
    BY <2>2 DEF Pool, Select, Menu, Dismiss, Start, Refresh, Stop, Delete, RefreshList, Asks
  <2>3. CASE Volume
    <3>1. ASSUME NEW v \in Vols, SelectVolume(v) \/ NewVolume(v) \/ CloneVolume(v)
          PROVE  UNCHANGED <<troubles, isOpen>>
      BY <3>1 DEF SelectVolume, NewVolume, Uploaded, Created, CloneVolume
    <3>2. ASSUME NEW w, AsksVolume(w) \/ AsksNewVolume(w)
          PROVE  UNCHANGED <<troubles, isOpen>>
      BY <3>2 DEF AsksVolume, AsksNewVolume
    <3>3. CASE RemoveVolume \/ WipeVolume \/ CloseBox \/ Download
      BY <3>3 DEF RemoveVolume, WipeVolume, CloseBox, Download
    <3>4. QED
      BY <2>3, <3>1, <3>2, <3>3 DEF Volume
  <2>4. CASE Around
    <3>1. CASE ClickOnDeleted \/ AnswerOnDeleted \/ CloseDialog \/ CloseConnection
      BY <3>1 DEF ClickOnDeleted, AnswerOnDeleted, CloseDialog, CloseConnection
    <3>2. ASSUME NEW n \in Names, PollDrops(n) \/ HostChanges(n)
          PROVE  isOpen' = isOpen /\ (troubles' = troubles \/ troubles' = troubles - 1)
      BY <3>2 DEF PollDrops, HostChanges
    <3>3. ASSUME NEW n \in Names, PollAdds(n) \/ UpdateInfo(n)
          PROVE  isOpen' = isOpen /\ (troubles' = troubles \/ troubles' = troubles - 1)
      BY <3>3 DEF PollAdds, UpdateInfo, Reads
    <3>4. QED
      BY <2>4, <3>1, <3>2, <3>3 DEF Around
  <2>5. QED
    BY <2>1, <2>2, <2>3, <2>4 DEF Next
<1>2. troubles \in Nat /\ MaxTroubles \in Nat
  BY BoundsAssumption DEF TypeOK
<1>3. QED
  BY <1>1, <1>2 DEF Alone

LEMMA KeptPool ==
  ASSUME TypeOK, Held, Kept, NoStop, Pool
  PROVE  Kept'
<1> USE DEF objVars, viewVars, buttons, hostVars
<1>1. ASSUME UNCHANGED <<kind, host, cur, vol>> PROVE Kept'
  BY <1>1 DEF Kept, Alive, Dead, Running
<1>2. ASSUME NEW n \in Names, Select(n) \/ Menu(n) PROVE Kept'
  <2>1. UNCHANGED <<kind, host, vol>>
    BY <1>2 DEF Select, Menu
  <2>2. cur' = None \/ cur' = PointerTo(n) \/ cur' = cur
    BY <1>2 DEF Select, Menu
  <2>3. /\ PointerTo(n).alive = TRUE /\ PointerTo(n).n = n
        /\ PointerTo(n).defined = (wrap[n].valid /\ host[n] \in {"inactive", "active"})
    BY DEF PointerTo
  <2>4. CASE cur' = PointerTo(n)
    <3>1. ~Dead(cur')
      BY <2>3, <2>4 DEF Dead
    <3>2. cur'.defined => host[cur'.n] \in {"inactive", "active"}
      BY <2>3, <2>4
    <3>3. QED
      BY <2>1, <3>1, <3>2 DEF Kept, Alive, Dead, Running
  <2>5. QED
    BY <2>1, <2>2, <2>4 DEF Kept, Alive, Dead, Running
<1>3. ASSUME NEW w \in {"stop", "delete"}, Asks(w) PROVE Kept'
  BY <1>3, <1>1 DEF Asks
<1>4. CASE Dismiss \/ Refresh \/ RefreshList
  BY <1>4, <1>1 DEF Dismiss, Refresh, RefreshList
<1>5. CASE Start
  <2>1. UNCHANGED <<kind, cur, vol>>
    BY <1>5 DEF Start
  <2>2. \A n \in Names : host'[n] = host[n] \/ host'[n] = "active"
    BY <1>5 DEF Start, TypeOK
  <2>3. (cur # None => cur.n \in Names) /\ (vol # None => vol.n \in Names)
    BY DEF TypeOK, Pointers, VolPointers
  <2>4. QED
    BY <2>1, <2>2, <2>3 DEF Kept, Alive, Dead, Running
<1>6. CASE Stop
  <2>1. kind = "network" /\ vol = None
    BY <1>6 DEF Stop, Yes, NoStop, Kept, Alive, Dead, TypeOK
  <2>2. UNCHANGED <<kind, cur, vol>> /\ Alive(cur) /\ cur.n \in Names
    BY <1>6 DEF Stop, Alive, TypeOK, Pointers
  <2>3. host[cur.n] # "transient" => host'[cur.n] = host[cur.n] \/ host'[cur.n] = "inactive"
    BY <1>6, <2>2 DEF Stop, TypeOK
  <2>4. QED
    BY <2>1, <2>2, <2>3 DEF Kept, Alive, Dead
<1>7. CASE Delete
  <2>1. cur.n \in Names /\ Alive(cur)
    BY <1>7 DEF Delete, Alive, TypeOK, Pointers
  <2>2. CASE cur' = None
    <3>1. UNCHANGED <<kind, vol>> /\ \A n \in Names : n # cur.n => host'[n] = host[n]
      BY <1>7, <2>1 DEF Delete, TypeOK
    <3>2. Alive(vol) => vol.n \in Names /\ kind = "pool" /\ Running(vol.n)
      BY DEF Kept, Alive, TypeOK, VolPointers
    <3>3. Alive(vol) => host'[vol.n] = host[vol.n]
      BY <1>7, <3>1, <3>2 DEF Delete, Running
    <3>4. QED
      BY <2>2, <3>1, <3>2, <3>3 DEF Kept, Alive, Dead, Running
  <2>3. CASE cur' # None
    BY <1>7, <2>3, <1>1 DEF Delete, DropCurrent
  <2>4. QED
    BY <2>2, <2>3
<1>8. QED
  BY <1>2, <1>3, <1>4, <1>5, <1>6, <1>7 DEF Pool

LEMMA KeptVolume ==
  ASSUME Kept, Volume
  PROVE  Kept'
<1> USE DEF objVars, viewVars, buttons, hostVars
<1>1. ASSUME NEW v \in Vols, SelectVolume(v) PROVE Kept'
  BY <1>1 DEF SelectVolume, VolumesOf, Kept, Alive, Dead, Running
<1>2. ASSUME NEW v \in Vols, NewVolume(v) \/ CloneVolume(v) PROVE Kept'
  BY <1>2 DEF NewVolume, Uploaded, Created, CloneVolume, Kept, Alive, Dead, Running
<1>3. CASE RemoveVolume
  BY <1>3 DEF RemoveVolume, Kept, Alive, Dead, Running
<1>4. ASSUME NEW w, AsksVolume(w) \/ AsksNewVolume(w) PROVE Kept'
  BY <1>4 DEF AsksVolume, AsksNewVolume, Kept, Alive, Dead, Running
<1>5. CASE WipeVolume \/ CloseBox \/ Download
  BY <1>5 DEF WipeVolume, CloseBox, Download, Kept, Alive, Dead, Running
<1>6. QED
  BY <1>1, <1>2, <1>3, <1>4, <1>5 DEF Volume

LEMMA KeptAround ==
  ASSUME TypeOK, Kept, Around, isOpen', troubles' = troubles
  PROVE  Kept'
<1> USE DEF objVars, viewVars, buttons, hostVars
<1>1. CASE ClickOnDeleted \/ AnswerOnDeleted \/ CloseDialog
  BY <1>1 DEF ClickOnDeleted, AnswerOnDeleted, CloseDialog, OpenDialog, Kept, Alive, Dead,
     Running
<1>2. ASSUME NEW n \in Names, PollDrops(n) PROVE Kept'
  <2>1. troubles - 1 # troubles
    BY DEF TypeOK
  <2>2. host[n] = "absent" /\ UNCHANGED <<kind, host>> /\ Dangle({n})
    BY <1>2, <2>1 DEF PollDrops
  <2>3. vol # None => vol.n # n
    BY <2>2 DEF Kept, Alive, Dead, Running
  <2>4. vol' = vol
    BY <2>2, <2>3 DEF Dangle
  <2>5. cur' = cur \/ (cur # None /\ ~cur.defined /\ cur' # None /\ ~cur'.defined)
    <3>1. CASE cur # None /\ cur.n = n
      <4>1. ~cur.defined
        BY <2>2, <3>1 DEF Kept, Alive, Dead
      <4>2. [cur EXCEPT !.alive = FALSE] \in Pointers
             /\ ~[cur EXCEPT !.alive = FALSE].defined
        BY <3>1, <4>1 DEF TypeOK, Pointers
      <4>3. QED
        BY <2>2, <3>1, <4>1, <4>2, NoneAssumption DEF Dangle
    <3>2. QED
      BY <2>2, <3>1 DEF Dangle
  <2>6. QED
    BY <2>2, <2>4, <2>5 DEF Kept, Alive, Dead, Running
<1>3. ASSUME NEW n \in Names, PollAdds(n) \/ UpdateInfo(n) PROVE Kept'
  BY <1>3 DEF PollAdds, UpdateInfo, Kept, Alive, Dead, Running
<1>4. ASSUME NEW n \in Names, HostChanges(n) PROVE Kept'
  BY <1>4 DEF HostChanges, TypeOK
<1>5. CASE CloseConnection
  BY <1>5 DEF CloseConnection
<1>6. QED
  BY <1>1, <1>2, <1>3, <1>4, <1>5 DEF Around
LEMMA ObjectNoStop ==
  ASSUME TypeOK, NEW n \in Names, kind = "pool"
  PROVE  ObjectOf(n, FALSE).m_state # "Running"
  BY DEF ObjectOf, InfoState

LEMMA OffersNoStop ==
  ASSUME NoStop, kind = "pool", NEW n \in Names, wrap[n] # None
  PROVE  OffersOf(wrap[n]) # "stop"
  BY DEF NoStop, OffersOf

LEMMA OutdatedNoStop ==
  ASSUME TypeOK, NoStop, kind = "pool", NEW h, NEW n \in Names, Outdated(h)[n] # None
  PROVE  Outdated(h)[n].m_state # "Running"
  BY DEF Outdated, NoStop, TypeOK, Objects

LEMMA NoStopPool ==
  ASSUME TypeOK, Held, NoStop, Pool
  PROVE  NoStop'
<1> USE DEF objVars, viewVars, buttons, hostVars
<1> SUFFICES ASSUME kind' = "pool" PROVE NoStop'
  BY DEF NoStop
<1>0. kind = "pool"
  BY DEF Pool, Select, Menu, Dismiss, Start, Refresh, Stop, Delete, RefreshList, Asks
<1>1. ASSUME NEW n \in Names, Select(n) PROVE NoStop'
  BY <1>0, <1>1, OffersNoStop DEF Select, NoStop
<1>2. ASSUME NEW n \in Names, Menu(n) PROVE NoStop'
  BY <1>0, <1>2, OffersNoStop DEF Menu, NoStop
<1>3. ASSUME NEW w \in {"stop", "delete"}, Asks(w) PROVE NoStop'
  <2>1. w = "delete"
    BY <1>0, <1>3 DEF Asks, Triggered, NoStop
  <2>2. QED
    BY <1>3, <2>1 DEF Asks, Question, NoStop
<1>4. CASE Dismiss
  BY <1>4 DEF Dismiss, NoStop
<1>5. CASE Start
  <2>1. cur.n \in Names /\ wrap[cur.n] \in Objects /\ wrap[cur.n] # None
    BY <1>5 DEF Start, Held, TypeOK, Alive, Pointers
  <2>2. \A n \in Names : wrap'[n] = wrap[n] \/ (n = cur.n /\ wrap'[n].m_state = wrap[n].m_state)
    BY <1>5, <2>1 DEF Start, TypeOK, Objects
  <2>3. offers' # "stop" /\ ask' = None
    BY <1>0, <1>5, <2>1, OffersNoStop DEF Start, NoStop
  <2>4. QED
    BY <1>0, <2>1, <2>2, <2>3 DEF NoStop
<1>6. CASE Refresh \/ Stop
  BY <1>0, <1>6 DEF Refresh, Stop, Triggered, Yes, NoStop
<1>7. CASE Delete
  BY <1>0, <1>7, OutdatedNoStop DEF Delete, NoStop
<1>8. CASE RefreshList
  <2>1. cur # None => cur.n \in Names /\ wrap[cur.n] # None
    BY <1>8 DEF RefreshList, Dead, Held, Alive, TypeOK, Pointers
  <2>2. QED
    BY <1>0, <1>8, <2>1, OffersNoStop DEF RefreshList, NoStop
<1>9. QED
  BY <1>1, <1>2, <1>3, <1>4, <1>5, <1>6, <1>7, <1>8 DEF Pool

LEMMA NoStopVolume ==
  ASSUME NoStop, Volume
  PROVE  NoStop'
<1> USE DEF objVars, viewVars, buttons, hostVars
<1>1. ASSUME NEW v \in Vols, SelectVolume(v) \/ NewVolume(v) PROVE NoStop'
  BY <1>1 DEF SelectVolume, NewVolume, Uploaded, Created, NoStop
<1>2. ASSUME NEW v \in Vols, CloneVolume(v) PROVE NoStop'
  BY <1>2 DEF CloneVolume, VolumeQuestion, NoStop
<1>3. ASSUME NEW w \in {"remove", "wipe", "clone", "download"}, AsksVolume(w) PROVE NoStop'
  BY <1>3 DEF AsksVolume, VolumeQuestion, NoStop
<1>4. ASSUME NEW w \in {"create", "upload"}, AsksNewVolume(w) PROVE NoStop'
  BY <1>4 DEF AsksNewVolume, Question, NoStop
<1>5. CASE WipeVolume
  BY <1>5 DEF WipeVolume, VolumeQuestion, NoStop
<1>6. CASE RemoveVolume \/ CloseBox \/ Download
  BY <1>6 DEF RemoveVolume, CloseBox, Download, NoStop
<1>7. QED
  BY <1>1, <1>2, <1>3, <1>4, <1>5, <1>6 DEF Volume

LEMMA NoStopAround ==
  ASSUME TypeOK, NoStop, Around, isOpen', troubles' = troubles
  PROVE  NoStop'
<1> USE DEF objVars, viewVars, buttons, hostVars
<1>0. troubles - 1 # troubles
  BY DEF TypeOK
<1>1. CASE ClickOnDeleted \/ AnswerOnDeleted \/ CloseDialog
  BY <1>1 DEF ClickOnDeleted, AnswerOnDeleted, CloseDialog, OpenDialog, NoStop
<1>2. ASSUME NEW n \in Names, PollDrops(n) PROVE NoStop'
  <2>1. ask' # None => ask # None /\ ask'.offers = ask.offers /\ ask'.what = ask.what
    BY <1>2 DEF PollDrops, Dangle, TypeOK, Prompts
  <2>2. \A k \in Names : wrap'[k] = wrap[k] \/ wrap'[k] = None
    BY <1>2 DEF PollDrops, TypeOK
  <2>3. kind' = kind /\ offers' = offers
    BY <1>2 DEF PollDrops
  <2>4. QED
    BY <2>1, <2>2, <2>3 DEF NoStop
<1>3. ASSUME NEW n \in Names, PollAdds(n) \/ UpdateInfo(n) PROVE NoStop'
  <2>1. wrap' = [wrap EXCEPT ![n] = ObjectOf(n, FALSE)]
    BY <1>0, <1>3 DEF PollAdds, UpdateInfo, Reads
  <2>2. UNCHANGED <<kind, offers, ask>>
    BY <1>3 DEF PollAdds, UpdateInfo
  <2>3. QED
    BY <2>1, <2>2, ObjectNoStop DEF NoStop, TypeOK
<1>4. ASSUME NEW n \in Names, HostChanges(n) PROVE NoStop'
  BY <1>4, <1>0 DEF HostChanges
<1>5. CASE CloseConnection
  BY <1>5 DEF CloseConnection
<1>6. QED
  BY <1>1, <1>2, <1>3, <1>4, <1>5 DEF Around

LEMMA LoneNext ==
  ASSUME TypeOK, Held, LoneInv, [Next]_vars
  PROVE  LoneInv'
<1>1. /\ troubles' <= MaxTroubles
      /\ Alone' => Alone /\ troubles' = troubles /\ isOpen'
  BY StillAlone DEF LoneInv, Alone
<1>2. ASSUME Alone' PROVE Kept' /\ NoStop'
  <2>1. Kept /\ NoStop
    BY <1>1, <1>2 DEF LoneInv
  <2>2. CASE UNCHANGED vars
    BY <2>1, <2>2 DEF vars, objVars, viewVars, buttons, hostVars, Kept, NoStop, Alive, Dead,
       Running
  <2>3. QED
    BY <1>1, <1>2, <2>1, <2>2, KeptPool, KeptVolume, KeptAround,
       NoStopPool, NoStopVolume, NoStopAround DEF Next
<1>3. QED
  BY <1>1, <1>2 DEF LoneInv

\* Alone with the host, the dialog holds no deleted object that was selected
\* while its entry was defined, for any number of pools and networks.
THEOREM AloneIsSafe == Spec => []AloneSafe
<1>1. Init => LoneInv
  <2> SUFFICES ASSUME Init PROVE LoneInv
    OBVIOUS
  <2>1. NoStop
    <3>1. ASSUME NEW n \in Names, kind = "pool"
          PROVE  ObjectOf(n, FALSE).m_state # "Running"
      BY <3>1 DEF ObjectOf, InfoState
    <3>2. QED
      BY <3>1 DEF Init, NoStop
  <2>2. QED
    BY <2>1, BoundsAssumption DEF Init, LoneInv, Kept, Alive, Dead
<1>2. LoneInv => AloneSafe
  BY DEF LoneInv, Kept, Alone, AloneSafe
<1>3. QED
  BY <1>1, <1>2, LoneNext, TypesAlways, PTL DEF Spec
=============================================================================
