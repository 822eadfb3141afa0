-------------------------- MODULE ConnectionProofs --------------------------
(* Proofs about Connection, for every finite set of names and all budgets. *)
EXTENDS Connection, FiniteSetTheorems, TLAPS

\* What the calls to the host return: known states, known names, natural sizes.
LEMMA InfoStateType ==
  ASSUME NEW n \in Names, NEW kept \in VMStates
  PROVE  InfoState(n, kept) \in VMStates
  BY DEF InfoState, VMStates

LEMMA ListsType ==
  ASSUME NEW S \in SUBSET Names, NEW cap, faults \in Nat,
         NEW r \in Lists(S, cap)
  PROVE  r[1] \subseteq S /\ r[2] \in Nat
<1>1. CASE r \in {<<L, faults>> : L \in {T \in SUBSET S : link /\
                     \/ T = S /\ Cardinality(S) <= cap
                     \/ Cardinality(T) = cap /\ Cardinality(S) > cap}}
  <2>1. PICK L \in SUBSET S : r = <<L, faults>>
    BY <1>1
  <2>2. QED
    BY <2>1
<1>2. CASE r = <<{}, faults>>
  BY <1>2
<1>3. CASE r = <<{}, faults - 1>> /\ faults > 0
  BY <1>3
<1>4. QED
  BY <1>1, <1>2, <1>3 DEF Lists

LEMMA VMsType ==
  /\ ActiveVMs \subseteq Names /\ DefinedVMs \subseteq Names
  /\ HostVMs \subseteq Names
  /\ Cardinality(ActiveVMs) \in Nat /\ Cardinality(DefinedVMs) \in Nat
<1>1. ActiveVMs \subseteq Names /\ DefinedVMs \subseteq Names
  BY DEF ActiveVMs, DefinedVMs
<1>2. IsFiniteSet(ActiveVMs) /\ IsFiniteSet(DefinedVMs)
  BY <1>1, NamesAssumption, FS_Subset
<1>3. QED
  BY <1>1, <1>2, FS_CardinalityType DEF HostVMs

LEMMA StartPollType ==
  ASSUME NEW t \in Tasks, StartPoll(t), changes \in Nat, faults \in Nat
  PROVE  gui' \in GuiStates
  BY VMsType DEF StartPoll, GuiStates

LEMMA IdleType == Idle \in GuiStates
  BY DEF Idle, GuiStates, Tasks

-----------------------------------------------------------------------------
\* Every variable keeps its type: Connection's members, the worker's locals
\* and the host.
LEMMA TypeInit == Init => TypeOK
<1> SUFFICES ASSUME Init PROVE TypeOK
  OBVIOUS
<1>1. m_state \in States /\ m_conn \in BOOLEAN
  BY DEF Init, States
<1>2. gui \in GuiStates
  BY IdleType DEF Init
<1>3. changes \in Nat /\ faults \in Nat
  BY BoundsAssumption DEF Init
<1>4. /\ m_domains \subseteq Names /\ linked \subseteq Names
      /\ shown \in [Names -> VMStates] /\ results \in [Names -> VMStates]
      /\ heard \subseteq Names /\ cache \subseteq Names
      /\ host \in [Names -> HostStates]
  BY DEF Init, VMStates
<1>5. /\ leaked \in BOOLEAN /\ registered \in BOOLEAN /\ m_initialPoll \in BOOLEAN
      /\ m_pollingEnabled \in BOOLEAN /\ m_tickBusy \in BOOLEAN /\ link \in BOOLEAN
  BY DEF Init
<1>6. m_tickCounter \in 0..5 /\ opening \in OpenPhases /\ worker \in WorkerPhases
      /\ todo \subseteq Names
  BY DEF Init, OpenPhases, WorkerPhases
<1>7. QED
  BY <1>1, <1>2, <1>3, <1>4, <1>5, <1>6 DEF TypeOK

LEMMA TypeClient == TypeOK /\ Client => TypeOK'
<1> SUFFICES ASSUME TypeOK, Client PROVE TypeOK'
  OBVIOUS
<1> USE DEF TypeOK, openVars, tickVars, tableVars, workerVars, hostVars
<1>1. CASE openAsync
  BY <1>1 DEF openAsync, States, OpenPhases
<1>2. CASE OpenSucceeds
  BY <1>2 DEF OpenSucceeds, States, OpenPhases
<1>3. CASE OpenFails
  BY <1>3 DEF OpenFails, States, OpenPhases
<1>4. CASE LoadOffline
  BY <1>4 DEF LoadOffline, loadVMCache
<1>5. CASE Adopt
  <2>1. gui' \in GuiStates
    BY <1>5, StartPollType DEF Adopt, Tasks
  <2>2. QED
    BY <1>5, <2>1 DEF Adopt, loadVMCache
<1>6. CASE Register
  BY <1>6 DEF Register
<1>7. CASE setPollingEnabled
  BY <1>7 DEF setPollingEnabled
<1>8. CASE refresh
  <2>1. gui' \in GuiStates
    BY <1>8, StartPollType DEF refresh, Tasks
  <2>2. QED
    BY <1>8, <2>1 DEF refresh
<1>9. CASE ClientClose
  BY <1>9 DEF ClientClose, close, saveVMCache, DeleteAllSilently, States, VMStates
<1>10. ASSUME NEW n \in Names, defineDomain(n) PROVE TypeOK'
  <2>1. host' \in [Names -> HostStates] /\ changes' \in Nat
    BY <1>10 DEF defineDomain, HostStates
  <2>2. m_domains' \subseteq Names /\ linked' \subseteq Names
        /\ heard' \subseteq Names
        /\ shown' \in [Names -> VMStates]
    BY <1>10 DEF defineDomain, VMStates
  <2>3. QED
    BY <1>10, <2>1, <2>2 DEF defineDomain
<1>11. QED
  BY <1>1, <1>2, <1>3, <1>4, <1>5, <1>6, <1>7, <1>8, <1>9, <1>10 DEF Client

LEMMA TypeTick == TypeOK /\ tick => TypeOK'
<1> SUFFICES ASSUME TypeOK, tick PROVE TypeOK'
  OBVIOUS
<1>1. m_tickCounter' \in 0..5
  BY DEF TypeOK, tick, NextCount
<1>2. gui' \in GuiStates
  BY StartPollType DEF TypeOK, tick, Tasks, hostVars
<1>3. /\ m_state' \in States /\ m_conn' \in BOOLEAN
      /\ m_initialPoll' \in BOOLEAN /\ m_tickBusy' \in BOOLEAN
      /\ m_domains' \subseteq Names /\ linked' \subseteq Names
      /\ shown' \in [Names -> VMStates] /\ heard' \subseteq Names
      /\ cache' \subseteq Names
      /\ opening' = opening /\ leaked' = leaked /\ registered' = registered
  BY DEF TypeOK, tick, close, saveVMCache, DeleteAllSilently, States, VMStates,
         openVars, tableVars
<1>4. QED
  BY <1>1, <1>2, <1>3 DEF TypeOK, tick, hostVars

\* The table after the second list of a poll.
LEMMA ListInactiveType ==
  ASSUME TypeOK, NEW L \in SUBSET Names, ListInactive(L)
  PROVE  /\ m_domains' \subseteq Names /\ linked' \subseteq Names
         /\ heard' \subseteq Names
         /\ shown' \in [Names -> VMStates]
<1>1. \A n \in Names : InfoState(n, shown[n]) \in VMStates
  BY InfoStateType DEF TypeOK
<1>2. QED
  BY <1>1 DEF TypeOK, ListInactive, Gone, HeardRemovals, VMStates

LEMMA TypePoll == TypeOK /\ Poll => TypeOK'
<1> SUFFICES ASSUME TypeOK, Poll PROVE TypeOK'
  OBVIOUS
<1> USE DEF TypeOK
<1>1. CASE ListActive
  <2>1. PICK r \in Lists(ActiveVMs, gui.actives) :
          /\ AddLive(r[1] \ m_domains)
          /\ gui' = [gui EXCEPT !.next = "inactive", !.seen = r[1]]
          /\ faults' = r[2]
    BY <1>1 DEF ListActive
  <2>2. r[1] \subseteq Names /\ r[2] \in Nat
    BY ListsType, VMsType
  <2>3. gui' \in GuiStates
    BY <2>1, <2>2 DEF GuiStates
  <2>4. \A n \in Names : InfoState(n, "NoState") \in VMStates
    BY InfoStateType DEF VMStates
  <2>5. QED
    BY <1>1, <2>1, <2>2, <2>3, <2>4
       DEF ListActive, AddLive, openVars, tickVars, workerVars, hostVars
<1>2. CASE FinishTick
  <2>1. PICK r \in Lists(DefinedVMs, gui.defineds) :
          ListInactive(r[1]) /\ faults' = r[2]
    BY <1>2 DEF FinishTick
  <2>2. r[1] \subseteq Names /\ r[2] \in Nat
    BY ListsType, VMsType
  <2>3. /\ m_domains' \subseteq Names /\ linked' \subseteq Names
        /\ heard' \subseteq Names
        /\ shown' \in [Names -> VMStates]
    BY <2>1, <2>2, ListInactiveType
  <2>4. m_tickBusy' \in BOOLEAN /\ worker' \in WorkerPhases /\ todo' \subseteq Names
    BY <1>2, <2>3 DEF FinishTick, StartStats, WorkerPhases
  <2>5. QED
    BY <1>2, <2>1, <2>2, <2>3, <2>4, IdleType
       DEF FinishTick, openVars, tickVars, hostVars
<1>3. CASE FinishRefresh
  <2>1. PICK r \in Lists(DefinedVMs, gui.defineds) :
          ListInactive(r[1]) /\ faults' = r[2]
    BY <1>3 DEF FinishRefresh
  <2>2. r[1] \subseteq Names /\ r[2] \in Nat
    BY ListsType, VMsType
  <2>3. /\ m_domains' \subseteq Names /\ linked' \subseteq Names
        /\ heard' \subseteq Names
        /\ shown' \in [Names -> VMStates]
    BY <2>1, <2>2, ListInactiveType
  <2>4. QED
    BY <1>3, <2>1, <2>2, <2>3, IdleType
       DEF FinishRefresh, saveVMCache, openVars, tickVars, workerVars, hostVars
<1>4. CASE FinishInit
  <2>1. PICK r \in Lists(DefinedVMs, gui.defineds) :
          /\ m_domains' = m_domains \cup r[1] /\ linked' = linked \cup r[1]
          /\ heard' = heard \cup r[1]
          /\ shown' = [n \in Names |-> IF n \in r[1] THEN InfoState(n, "NoState")
                                       ELSE shown[n]]
          /\ faults' = r[2]
    BY <1>4 DEF FinishInit
  <2>2. r[1] \subseteq Names /\ r[2] \in Nat
    BY ListsType, VMsType
  <2>3. \A n \in Names : InfoState(n, "NoState") \in VMStates
    BY InfoStateType DEF VMStates
  <2>4. QED
    BY <1>4, <2>1, <2>2, <2>3, IdleType
       DEF FinishInit, saveVMCache, openVars, tickVars, hostVars
<1>5. QED
  BY <1>1, <1>2, <1>3, <1>4 DEF Poll

LEMMA TypeRest == TypeOK /\ (Worker \/ StatsFinished \/ Host) => TypeOK'
<1> SUFFICES ASSUME TypeOK, Worker \/ StatsFinished \/ Host PROVE TypeOK'
  OBVIOUS
<1> USE DEF TypeOK, openVars, tickVars, tableVars, workerVars, hostVars
<1>1. ASSUME NEW n \in Names, WorkerReads(n) PROVE TypeOK'
  <2>1. InfoState(n, "NoState") \in VMStates /\ "NoState" \in VMStates
    BY InfoStateType DEF VMStates
  <2>2. results' \in [Names -> VMStates]
    BY <1>1, <2>1 DEF WorkerReads
  <2>3. QED
    BY <1>1, <2>2 DEF WorkerReads
<1>2. CASE WorkerEnds
  BY <1>2 DEF WorkerEnds, WorkerPhases
<1>3. CASE StatsFinished
  BY <1>3 DEF StatsFinished, WorkerPhases, VMStates
<1>4. ASSUME NEW n \in Names, HostChanges(n) PROVE TypeOK'
  <2>1. gui' \in GuiStates
    BY <1>4 DEF HostChanges, GuiStates
  <2>2. host' \in [Names -> HostStates] /\ changes' \in Nat
    BY <1>4 DEF HostChanges
  <2>3. QED
    BY <1>4, <2>1, <2>2 DEF HostChanges
<1>5. CASE LinkDies
  <2>1. changes' \in Nat
    BY <1>5 DEF LinkDies
  <2>2. link' \in BOOLEAN
    BY <1>5 DEF LinkDies
  <2>3. QED
    BY <1>5, <2>1, <2>2 DEF LinkDies
<1>6. QED
  BY <1>1, <1>2, <1>3, <1>4, <1>5 DEF Worker, Host

\* Type correctness.
THEOREM TypeCorrect == Spec => []TypeOK
<1>1. TypeOK /\ [Next]_vars => TypeOK'
  <2>1. TypeOK /\ UNCHANGED vars => TypeOK'
    BY DEF TypeOK, vars, openVars, tickVars, tableVars, workerVars, hostVars
  <2>2. QED
    BY <2>1, TypeClient, TypeTick, TypePoll, TypeRest DEF Next
<1>2. QED
  BY <1>1, TypeInit, PTL DEF Spec

-----------------------------------------------------------------------------
(* The inductive invariant, in three parts. *)

\* Who is at work: the flag, the poll and the worker.
Work == /\ BusyMatchesWork /\ TickExclusive /\ PollsWhileOpen /\ RegisteredLife
        /\ (worker # "none" => registered)

\* The table, what the listeners know of it, and the handle.
Table == TableHeard /\ linked \subseteq m_domains /\ DomainsNeedHandle

\* What the stubs show, and what the worker is about to apply.
Stats == ShownOfLinked /\ ResultsOfLinked

LEMMA IInvParts == IInv <=> TypeOK /\ Work /\ Table /\ Stats
  BY DEF IInv, Work, Table, Stats, ResultsOfLinked

LEMMA InitIInv == Init => IInv
<1> SUFFICES ASSUME Init PROVE IInv
  OBVIOUS
<1>1. Work
  BY DEF Init, Work, BusyMatchesWork, TickExclusive, PollsWhileOpen,
         RegisteredLife, Idle
<1>2. Table /\ Stats
  BY DEF Init, Table, Stats, TableHeard, DomainsNeedHandle,
         ShownOfLinked, ResultsOfLinked
<1>3. QED
  BY <1>1, <1>2, TypeInit, IInvParts

\* The three ways a tick that does not return early can go.
LEMMA TickCases ==
  tick => \/ close /\ UNCHANGED <<gui, m_tickBusy>>
          \/ m_tickBusy' = TRUE /\ StartPoll("init") /\ UNCHANGED openVars
          \/ (StartPoll("tick") \/ UNCHANGED gui) /\ UNCHANGED <<openVars, m_tickBusy>>
  BY DEF tick

\* The part of a step that decides who is at work.
LEMMA WorkStep == TypeOK /\ Work /\ [Next]_vars => Work'
<1> SUFFICES ASSUME TypeOK, Work, [Next]_vars PROVE Work'
  OBVIOUS
<1> USE DEF Work, BusyMatchesWork, TickExclusive, PollsWhileOpen, RegisteredLife,
            isOpen, openVars, workerVars
<1>1. CASE openAsync
  BY <1>1 DEF openAsync
<1>2. CASE OpenSucceeds
  BY <1>2 DEF OpenSucceeds
<1>3. CASE OpenFails
  BY <1>3 DEF OpenFails
<1>4. CASE LoadOffline
  BY <1>4 DEF LoadOffline
<1>5. CASE Adopt \/ Register
  <2>1. CASE Adopt
    BY <2>1 DEF Adopt, StartPoll
  <2>2. CASE Register
    BY <2>2 DEF Register
  <2>3. QED
    BY <1>5, <2>1, <2>2
<1>6. CASE setPollingEnabled
  BY <1>6 DEF setPollingEnabled
<1>7. CASE refresh
  BY <1>7 DEF refresh, StartPoll
<1>8. CASE ClientClose
  BY <1>8 DEF ClientClose, close
<1>9. ASSUME NEW n \in Names, defineDomain(n) PROVE Work'
  BY <1>9 DEF defineDomain
<1>10. CASE tick
  <2>1. gui.task = "idle" /\ registered /\ isOpen /\ ~m_tickBusy /\ worker = "none"
    BY <1>10 DEF tick, TickReady
  <2>2. worker' = "none" /\ registered' = registered /\ opening' = opening
    BY <1>10, <2>1 DEF tick, close
  <2>3. CASE close /\ UNCHANGED <<gui, m_tickBusy>>
    BY <2>1, <2>2, <2>3 DEF close
  <2>4. CASE m_tickBusy' = TRUE /\ StartPoll("init") /\ UNCHANGED openVars
    <3>1. m_tickBusy' /\ gui'.task = "init" /\ isOpen'
      BY <2>1, <2>4 DEF StartPoll
    <3>2. QED
      BY <2>1, <2>2, <3>1
  <2>5. CASE (StartPoll("tick") \/ UNCHANGED gui) /\ UNCHANGED <<openVars, m_tickBusy>>
    <3>1. ~m_tickBusy' /\ gui'.task \in {"tick", "idle"} /\ isOpen'
      BY <2>1, <2>5 DEF StartPoll
    <3>2. QED
      BY <2>1, <2>2, <3>1
  <2>6. QED
    BY <1>10, <2>3, <2>4, <2>5, TickCases
<1>11. CASE ListActive
  <2>1. gui'.task = gui.task
    BY <1>11 DEF ListActive, TypeOK, GuiStates
  <2>2. QED
    BY <1>11, <2>1 DEF ListActive
<1>12. CASE FinishTick
  BY <1>12 DEF FinishTick, StartStats, Idle
<1>13. CASE FinishRefresh
  BY <1>13 DEF FinishRefresh, Idle
<1>14. CASE FinishInit
  BY <1>14 DEF FinishInit, Idle
<1>15. ASSUME NEW n \in Names, WorkerReads(n) PROVE Work'
  BY <1>15 DEF WorkerReads
<1>16. CASE WorkerEnds
  BY <1>16 DEF WorkerEnds
<1>17. CASE StatsFinished
  BY <1>17 DEF StatsFinished
<1>18. ASSUME NEW n \in Names, HostChanges(n) PROVE Work'
  <2>1. gui'.task = gui.task
    BY <1>18 DEF HostChanges, TypeOK, GuiStates
  <2>2. QED
    BY <1>18, <2>1 DEF HostChanges
<1>19. CASE LinkDies
  BY <1>19 DEF LinkDies
<1>20. CASE UNCHANGED vars
  BY <1>20 DEF vars
<1>21. QED
  BY <1>1, <1>2, <1>3, <1>4, <1>5, <1>6, <1>7, <1>8, <1>9, <1>10, <1>11, <1>12,
     <1>13, <1>14, <1>15, <1>16, <1>17, <1>18, <1>19, <1>20
     DEF Next, Client, Poll, Worker, Host

\* The part of a step that changes the table: what is entered is announced,
\* and only polls of an open connection enter live domains.
LEMMA TableStep == TypeOK /\ Work /\ Table /\ [Next]_vars => Table'
<1> SUFFICES ASSUME TypeOK, Work, Table, [Next]_vars PROVE Table'
  OBVIOUS
<1> USE DEF Table, TableHeard, DomainsNeedHandle, openVars, tableVars
<1>0. gui.task # "idle" => m_conn
  BY DEF Work, PollsWhileOpen, isOpen
<1>1. CASE openAsync \/ OpenSucceeds \/ OpenFails \/ Register
  BY <1>1 DEF openAsync, OpenSucceeds, OpenFails, Register
<1>2. CASE LoadOffline
  BY <1>2 DEF LoadOffline, loadVMCache
<1>3. CASE Adopt
  BY <1>3 DEF Adopt, loadVMCache, isOpen
<1>4. CASE setPollingEnabled \/ refresh
  BY <1>4 DEF setPollingEnabled, refresh
<1>5. CASE ClientClose
  BY <1>5 DEF ClientClose, close, DeleteAllSilently
<1>6. ASSUME NEW n \in Names, defineDomain(n) PROVE Table'
  BY <1>6 DEF defineDomain, isOpen
<1>7. CASE tick
  BY <1>7 DEF tick, close, DeleteAllSilently
<1>8. CASE ListActive
  BY <1>0, <1>8 DEF ListActive, AddLive
<1>9. CASE FinishTick \/ FinishRefresh
  <2>1. PICK L : ListInactive(L)
    BY <1>9 DEF FinishTick, FinishRefresh
  <2>2. TableHeard' /\ (linked \subseteq m_domains)'
    BY <2>1 DEF ListInactive, HeardRemovals, Gone
  <2>3. m_conn'
    BY <1>0, <1>9 DEF FinishTick, FinishRefresh
  <2>4. QED
    BY <2>2, <2>3
<1>10. CASE FinishInit
  BY <1>0, <1>10 DEF FinishInit
<1>11. ASSUME NEW n \in Names, WorkerReads(n) PROVE Table'
  BY <1>11 DEF WorkerReads
<1>12. CASE WorkerEnds \/ StatsFinished
  BY <1>12 DEF WorkerEnds, StatsFinished
<1>13. ASSUME NEW n \in Names, HostChanges(n) PROVE Table'
  BY <1>13 DEF HostChanges
<1>14. CASE LinkDies
  BY <1>14 DEF LinkDies
<1>15. CASE UNCHANGED vars
  BY <1>15 DEF vars
<1>16. QED
  BY <1>1, <1>2, <1>3, <1>4, <1>5, <1>6, <1>7, <1>8, <1>9, <1>10, <1>11, <1>12,
     <1>13, <1>14, <1>15 DEF Next, Client, Poll, Worker, Host

\* The part of a step that changes what is shown, or what is about to be: a
\* stub enters the table only when no worker can hold a result for its name.
LEMMA StatsStep == TypeOK /\ Work /\ Table /\ Stats /\ [Next]_vars => Stats'
<1> SUFFICES ASSUME TypeOK, Work, Table, Stats, [Next]_vars PROVE Stats'
  OBVIOUS
<1> USE DEF Stats, ShownOfLinked, ResultsOfLinked, openVars, tableVars, workerVars
<1>0. linked \subseteq m_domains /\ shown \in [Names -> VMStates]
      /\ results \in [Names -> VMStates]
  BY DEF Table, TypeOK
<1>1. CASE openAsync \/ OpenSucceeds \/ OpenFails \/ Register
  BY <1>1 DEF openAsync, OpenSucceeds, OpenFails, Register
<1>2. CASE LoadOffline
  <2>1. ~registered
    BY <1>2 DEF LoadOffline, Work, RegisteredLife
  <2>2. QED
    BY <1>2, <2>1 DEF LoadOffline, loadVMCache
<1>3. CASE Adopt
  BY <1>3 DEF Adopt, loadVMCache
<1>4. CASE setPollingEnabled \/ refresh
  BY <1>4 DEF setPollingEnabled, refresh
<1>5. CASE ClientClose
  BY <1>5 DEF ClientClose, close, DeleteAllSilently
<1>6. ASSUME NEW n \in Names, defineDomain(n) PROVE Stats'
  BY <1>0, <1>6 DEF defineDomain
<1>7. CASE tick
  BY <1>7 DEF tick, close, DeleteAllSilently
<1>8. CASE ListActive
  BY <1>0, <1>8 DEF ListActive, AddLive
<1>9. CASE FinishTick \/ FinishRefresh
  <2>1. PICK L : ListInactive(L)
    BY <1>9 DEF FinishTick, FinishRefresh
  <2>2. ShownOfLinked'
    BY <1>0, <2>1 DEF ListInactive, Gone
  <2>3. m_domains' \ linked' \subseteq m_domains \ linked
    BY <1>0, <2>1 DEF ListInactive, Gone
  <2>4. /\ results' = results /\ registered' = registered
        /\ \/ gui.task = "tick" /\ worker' \in {"running", worker}
           \/ worker' = worker
    BY <1>9 DEF FinishTick, FinishRefresh, StartStats
  <2>5. worker' # "none" => registered'
    BY <1>9, <2>4 DEF Work, PollsWhileOpen
  <2>6. worker # "none" => worker' # "none"
    BY <1>9, <2>4 DEF FinishTick, FinishRefresh, StartStats
  <2>7. QED
    BY <2>2, <2>3, <2>4, <2>5, <2>6
<1>10. CASE FinishInit
  BY <1>0, <1>10 DEF FinishInit
<1>11. ASSUME NEW n \in Names, WorkerReads(n) PROVE Stats'
  BY <1>0, <1>11 DEF WorkerReads
<1>12. CASE WorkerEnds
  BY <1>12 DEF WorkerEnds
<1>13. CASE StatsFinished
  BY <1>0, <1>13 DEF StatsFinished
<1>14. ASSUME NEW n \in Names, HostChanges(n) PROVE Stats'
  BY <1>14 DEF HostChanges
<1>15. CASE LinkDies
  BY <1>15 DEF LinkDies
<1>16. CASE UNCHANGED vars
  BY <1>16 DEF vars
<1>17. QED
  BY <1>1, <1>2, <1>3, <1>4, <1>5, <1>6, <1>7, <1>8, <1>9, <1>10, <1>11, <1>12,
     <1>13, <1>14, <1>15, <1>16 DEF Next, Client, Poll, Worker, Host

\* The inductive invariant holds in every reachable state.
THEOREM Inductive == Spec => []IInv
<1>1. IInv /\ [Next]_vars => IInv'
  <2>1. TypeOK /\ [Next]_vars => TypeOK'
    <3>1. TypeOK /\ UNCHANGED vars => TypeOK'
      BY DEF TypeOK, vars, openVars, tickVars, tableVars, workerVars, hostVars
    <3>2. QED
      BY <3>1, TypeClient, TypeTick, TypePoll, TypeRest DEF Next
  <2>2. IInv' <=> (TypeOK /\ Work /\ Table /\ Stats)'
    BY DEF IInv, Work, Table, Stats, ResultsOfLinked
  <2>3. QED
    BY <2>1, <2>2, IInvParts, WorkStep, TableStep, StatsStep
<1>2. QED
  BY <1>1, InitIInv, PTL DEF Spec

\* m_tickBusy says exactly whether work it announces is outstanding.
THEOREM BusyCorrect == Spec => []BusyMatchesWork
<1>1. IInv => BusyMatchesWork
  BY DEF IInv
<1>2. QED
  BY <1>1, Inductive, PTL

\* No tick changes the table while a stats worker reads it.
THEOREM TickAlone == Spec => []TickExclusive
<1>1. IInv => TickExclusive
  BY DEF IInv
<1>2. QED
  BY <1>1, Inductive, PTL

\* No live domain outlives the handle of its connection.
THEOREM HandleOutlives == Spec => []DomainsNeedHandle
<1>1. IInv => DomainsNeedHandle
  BY DEF IInv
<1>2. QED
  BY <1>1, Inductive, PTL

\* A VM known from the cache alone shows no state.
THEOREM StubsCorrect == Spec => []StubsShowNoState
<1>1. IInv => StubsShowNoState
  BY DEF IInv, ShownOfLinked, StubsShowNoState, TypeOK
<1>2. QED
  BY <1>1, Inductive, PTL

\* A step leaves listeners no more deleted domains than they had, or drops the
\* table, whose names are then the only new ones.
LEMMA StaleStep ==
  ASSUME Next
  PROVE  \/ Stale' \subseteq Stale
         \/ TableDropped /\ Stale' \subseteq Stale \cup m_domains
<1> USE DEF Stale, tableVars
<1>1. CASE openAsync \/ OpenSucceeds \/ OpenFails \/ Register
           \/ setPollingEnabled \/ refresh
  BY <1>1 DEF openAsync, OpenSucceeds, OpenFails, Register, setPollingEnabled,
     refresh
<1>2. CASE LoadOffline \/ Adopt
  <2>1. (m_domains \subseteq m_domains') /\ heard' \subseteq heard \cup m_domains'
    BY <1>2 DEF LoadOffline, Adopt, loadVMCache
  <2>2. QED
    BY <2>1
<1>3. ASSUME NEW n \in Names, defineDomain(n) PROVE Stale' \subseteq Stale
  BY <1>3 DEF defineDomain
<1>4. ASSUME close PROVE TableDropped /\ Stale' \subseteq Stale \cup m_domains
  BY <1>4 DEF close, DeleteAllSilently, TableDropped
<1>5. CASE tick
  <2>1. CASE StartPoll("init") /\ DeleteAllSilently
    <3>1. gui.task # "init" /\ gui'.task = "init"
      BY <1>5, <2>1 DEF tick, StartPoll
    <3>2. Stale' \subseteq Stale \cup m_domains
      BY <2>1 DEF DeleteAllSilently
    <3>3. QED
      BY <3>1, <3>2 DEF TableDropped
  <2>2. CASE UNCHANGED <<m_domains, heard>>
    BY <2>2
  <2>3. QED
    BY <1>4, <1>5, <2>1, <2>2 DEF tick
<1>6. CASE ListActive
  BY <1>6 DEF ListActive, AddLive
<1>7. CASE FinishTick \/ FinishRefresh
  <2>1. PICK L : ListInactive(L)
    BY <1>7 DEF FinishTick, FinishRefresh
  <2>2. QED
    BY <2>1 DEF ListInactive, HeardRemovals
<1>8. CASE FinishInit
  BY <1>8 DEF FinishInit
<1>9. CASE Worker \/ StatsFinished \/ Host
  BY <1>9 DEF Worker, WorkerReads, WorkerEnds, StatsFinished, Host, HostChanges,
     LinkDies
<1>10. CASE ClientClose
  BY <1>4, <1>10 DEF ClientClose
<1>11. QED
  BY <1>1, <1>2, <1>3, <1>5, <1>6, <1>7, <1>8, <1>9, <1>10 DEF Next, Client, Poll

\* Following the signals is enough to know the names in the table, and only
\* close() and initAllResources() delete a domain a listener still holds.
THEOREM ListenersCorrect == Spec => ListenersInStep
<1>1. IInv' /\ [Next]_vars =>
        [m_domains' \subseteq heard'
         /\ Stale' \subseteq Stale \cup (IF TableDropped THEN m_domains ELSE {})]_vars
  <2> SUFFICES ASSUME IInv', Next
               PROVE  m_domains' \subseteq heard'
                      /\ Stale' \subseteq Stale \cup (IF TableDropped THEN m_domains ELSE {})
    OBVIOUS
  <2>1. m_domains' \subseteq heard'
    BY DEF IInv, TableHeard
  <2>2. QED
    BY <2>1, StaleStep
<1>2. QED
  BY <1>1, Inductive, PTL DEF Spec, ListenersInStep

-----------------------------------------------------------------------------
(* Undisturbed polls.  While a poll runs no other handler does, so only the  *)
(* host, a failed call or the link can come between it and the inventory.    *)

\* A poll that nothing has disturbed so far.
Calm == gui.task # "idle" /\ link /\ gui.budget = changes + faults

\* What it has gathered when it is about to ask for its next list; a poll of
\* initAllResources, which deletes nothing at its end, began on an empty table.
Gathered ==
  /\ gui.defineds = Cardinality(DefinedVMs)
  /\ IF gui.next = "active"
     THEN /\ gui.actives = Cardinality(ActiveVMs)
          /\ gui.task = "init" => m_domains = {}
     ELSE /\ gui.seen = ActiveVMs /\ gui.seen \subseteq m_domains
          /\ gui.task = "init" => m_domains \subseteq gui.seen

CalmInv == /\ gui.task # "idle" => gui.budget >= changes + faults
           /\ Calm => Gathered

\* A list call into a buffer that fits, and that used up no failure, is whole.
LEMMA WholeList ==
  ASSUME faults \in Nat, NEW S, Cardinality(S) \in Nat, link,
         NEW r \in Lists(S, Cardinality(S))
  PROVE  r[2] = faults => r[1] = S
  BY DEF Lists

LEMMA FewerFaults ==
  ASSUME faults \in Nat, NEW S, NEW cap, NEW r \in Lists(S, cap)
  PROVE  r[2] \in Nat /\ r[2] <= faults
  BY DEF Lists

LEMMA StartCalm ==
  ASSUME TypeOK, NEW task, StartPoll(task), UNCHANGED <<link, host, changes, faults>>,
         task = "init" => m_domains' = {}
  PROVE  CalmInv'
<1>1. changes \in Nat /\ faults \in Nat
  BY DEF TypeOK
<1>2. ActiveVMs' = ActiveVMs /\ DefinedVMs' = DefinedVMs
  BY DEF ActiveVMs, DefinedVMs
<1>3. QED
  BY <1>1, <1>2 DEF StartPoll, CalmInv, Calm, Gathered

\* A step that leaves the poll, the host and the table alone.
LEMMA SameCalm ==
  ASSUME CalmInv, UNCHANGED <<gui, link, host, changes, faults, m_domains>>
  PROVE  CalmInv'
  BY DEF CalmInv, Calm, Gathered, ActiveVMs, DefinedVMs

\* A step on the idle GUI thread that starts no poll.
LEMMA IdleCalm == ASSUME gui.task = "idle", UNCHANGED gui PROVE CalmInv'
  BY DEF CalmInv, Calm

LEMMA CalmStep == TypeOK /\ CalmInv /\ [Next]_vars => CalmInv'
<1> SUFFICES ASSUME TypeOK, CalmInv, [Next]_vars PROVE CalmInv'
  OBVIOUS
<1> USE DEF tableVars, hostVars
<1>0. changes \in Nat /\ faults \in Nat /\ gui.budget \in Nat
  BY DEF TypeOK, GuiStates
<1>1. CASE openAsync \/ OpenSucceeds \/ OpenFails \/ LoadOffline \/ Register
           \/ setPollingEnabled \/ ClientClose \/ StatsFinished
  BY <1>1, IdleCalm DEF openAsync, OpenSucceeds, OpenFails, LoadOffline, Register,
     setPollingEnabled, ClientClose, StatsFinished
<1>2. CASE Adopt \/ refresh
  BY <1>2, StartCalm DEF Adopt, refresh
<1>3. ASSUME NEW n \in Names, defineDomain(n) PROVE CalmInv'
  BY <1>3, IdleCalm DEF defineDomain
<1>4. CASE tick
  <2>1. gui.task = "idle" /\ UNCHANGED <<link, host, changes, faults>>
    BY <1>4 DEF tick
  <2>2. \/ UNCHANGED gui
        \/ StartPoll("init") /\ m_domains' = {}
        \/ StartPoll("tick")
    BY <1>4 DEF tick, DeleteAllSilently
  <2>3. QED
    BY <2>1, <2>2, IdleCalm, StartCalm
<1>5. CASE ListActive
  <2>1. PICK r \in Lists(ActiveVMs, gui.actives) :
          /\ AddLive(r[1] \ m_domains)
          /\ gui' = [gui EXCEPT !.next = "inactive", !.seen = r[1]]
          /\ faults' = r[2]
    BY <1>5 DEF ListActive
  <2>2. /\ gui.next = "active" /\ UNCHANGED <<host, link, changes>>
        /\ gui'.task = gui.task /\ gui'.budget = gui.budget
        /\ gui'.next = "inactive" /\ gui'.seen = r[1]
        /\ gui'.defineds = gui.defineds
    BY <1>5, <2>1 DEF ListActive, TypeOK, GuiStates
  <2>3. r[2] \in Nat /\ r[2] <= faults
    BY <1>0, FewerFaults
  <2>4. gui'.task # "idle" => gui'.budget >= changes' + faults'
    BY <1>0, <2>1, <2>2, <2>3 DEF CalmInv
  <2>5. ASSUME Calm' PROVE Gathered'
    <3>1. Calm /\ r[2] = faults
      BY <1>0, <2>1, <2>2, <2>3, <2>5 DEF Calm, CalmInv
    <3>2. /\ gui.actives = Cardinality(ActiveVMs)
          /\ gui.defineds = Cardinality(DefinedVMs)
          /\ gui.task = "init" => m_domains = {}
      BY <2>2, <3>1 DEF CalmInv, Gathered
    <3>3. r[1] = ActiveVMs
      <4>1. link /\ r \in Lists(ActiveVMs, Cardinality(ActiveVMs))
        BY <2>1, <3>1, <3>2 DEF Calm
      <4>2. QED
        BY <1>0, <3>1, <4>1, VMsType, WholeList
    <3>4. ActiveVMs' = ActiveVMs /\ DefinedVMs' = DefinedVMs
      BY <2>2 DEF ActiveVMs, DefinedVMs
    <3>5. m_domains' = m_domains \cup r[1]
      BY <2>1 DEF AddLive
    <3>6. QED
      BY <2>2, <3>2, <3>3, <3>4, <3>5 DEF Gathered
  <2>6. QED
    BY <2>4, <2>5 DEF CalmInv
<1>6. CASE FinishTick \/ FinishRefresh \/ FinishInit
  BY <1>6 DEF FinishTick, FinishRefresh, FinishInit, Idle, CalmInv, Calm
<1>7. ASSUME NEW n \in Names, WorkerReads(n) PROVE CalmInv'
  BY <1>7, SameCalm DEF WorkerReads
<1>8. CASE WorkerEnds
  BY <1>8, SameCalm DEF WorkerEnds
<1>9. ASSUME NEW n \in Names, HostChanges(n) PROVE CalmInv'
  <2>1. gui'.task = gui.task /\ gui'.budget = gui.budget
    BY <1>9 DEF HostChanges, TypeOK, GuiStates
  <2>2. changes' = changes - 1 /\ faults' = faults
    BY <1>9 DEF HostChanges
  <2>3. gui.task # "idle" => gui'.budget > changes' + faults'
    BY <1>0, <2>1, <2>2 DEF CalmInv
  <2>4. changes' + faults' \in Int
    BY <1>0, <2>2
  <2>5. QED
    BY <1>0, <2>1, <2>3, <2>4 DEF CalmInv, Calm
<1>10. CASE LinkDies
  <2>1. UNCHANGED <<gui, faults>> /\ changes' = changes - 1 /\ ~link'
    BY <1>10 DEF LinkDies
  <2>2. gui.task # "idle" => gui.budget >= changes + faults
    BY DEF CalmInv
  <2>3. gui'.task # "idle" => gui'.budget >= changes' + faults'
    BY <1>0, <2>1, <2>2
  <2>4. QED
    BY <2>1, <2>3 DEF CalmInv, Calm
<1>11. CASE UNCHANGED vars
  BY <1>11, SameCalm DEF vars
<1>12. QED
  BY <1>1, <1>2, <1>3, <1>4, <1>5, <1>6, <1>7, <1>8, <1>9, <1>10, <1>11
     DEF Next, Client, Poll, Worker, Host

\* The last step of a poll that nothing disturbed, this step included.
LEMMA CalmEnd ==
  ASSUME TypeOK, CalmInv, [Next]_vars, gui.task # "idle", gui'.task = "idle",
         link', gui.budget = changes' + faults'
  PROVE  m_domains' = HostVMs
<1>0. changes \in Nat /\ faults \in Nat /\ gui.budget \in Nat
      /\ gui.budget >= changes + faults
  BY DEF TypeOK, GuiStates, CalmInv
<1>1. CASE FinishTick \/ FinishRefresh \/ FinishInit
  <2>1. /\ gui.next = "inactive" /\ UNCHANGED <<host, link, changes>>
        /\ gui.task = "init" <=> FinishInit
    BY <1>1 DEF FinishTick, FinishRefresh, FinishInit, hostVars
  <2>2. PICK r \in Lists(DefinedVMs, gui.defineds) :
          /\ faults' = r[2]
          /\ \/ gui.task # "init" /\ ListInactive(r[1])
             \/ gui.task = "init" /\ m_domains' = m_domains \cup r[1]
    BY <1>1 DEF FinishTick, FinishRefresh, FinishInit
  <2>3. r[2] \in Nat /\ r[2] <= faults
    BY <1>0, FewerFaults
  <2>4. Calm /\ r[2] = faults
    BY <1>0, <2>1, <2>2, <2>3 DEF Calm
  <2>5. /\ gui.defineds = Cardinality(DefinedVMs)
        /\ gui.seen = ActiveVMs /\ ActiveVMs \subseteq m_domains
        /\ gui.task = "init" => m_domains \subseteq ActiveVMs
    BY <2>1, <2>4 DEF CalmInv, Gathered
  <2>6. r[1] = DefinedVMs
    <3>1. link /\ r \in Lists(DefinedVMs, Cardinality(DefinedVMs))
      BY <2>2, <2>4, <2>5 DEF Calm
    <3>2. QED
      BY <1>0, <2>4, <3>1, VMsType, WholeList
  <2>7. HostVMs = ActiveVMs \cup DefinedVMs
    BY DEF HostVMs
  <2>8. CASE gui.task # "init"
    BY <2>2, <2>5, <2>6, <2>7, <2>8 DEF ListInactive, Gone
  <2>9. CASE gui.task = "init"
    BY <2>2, <2>5, <2>6, <2>7, <2>9
  <2>10. QED
    BY <2>8, <2>9
<1>2. ASSUME NEW n \in Names, HostChanges(n) PROVE FALSE
  BY <1>2 DEF HostChanges, TypeOK, GuiStates
<1>3. ~ListActive
  BY DEF ListActive, TypeOK, GuiStates
<1>4. CASE Client \/ tick \/ StatsFinished
  BY <1>4 DEF Client, openAsync, OpenSucceeds, OpenFails, LoadOffline, Adopt,
     Register, setPollingEnabled, refresh, ClientClose, defineDomain, tick,
     StatsFinished
<1>5. CASE Worker \/ LinkDies \/ UNCHANGED vars
  BY <1>5 DEF Worker, WorkerReads, WorkerEnds, LinkDies, vars
<1>6. QED
  BY <1>1, <1>2, <1>3, <1>4, <1>5 DEF Next, Poll, Host

\* A poll during which the host kept still and answered leaves exactly the
\* host's VMs in the table: refreshDomains, initAllResources and tick's own.
THEOREM QuietPolls == Spec => QuietPollExact
<1>1. Init => CalmInv
  BY DEF Init, CalmInv, Calm, Idle
<1>2. TypeOK /\ CalmInv /\ [Next]_vars =>
        (gui.task # "idle" /\ gui'.task = "idle" /\ link'
           /\ gui.budget = changes' + faults' => m_domains' = HostVMs)
  BY CalmEnd
<1>3. QED
  BY <1>1, <1>2, CalmStep, TypeCorrect, PTL DEF Spec, QuietPollExact
=============================================================================
