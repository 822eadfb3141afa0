----------------------------- MODULE Connection -----------------------------
(***************************************************************************)
(* One QVirt::Connection object (src/src/libvirt/Connection.cpp): its       *)
(* state, its table of Domain objects, the 1 s tick that polls the host,    *)
(* the stats worker that runs on the thread pool, and the host itself,      *)
(* which changes on its own and whose link may die.                         *)
(*                                                                          *)
(* The GUI thread runs one handler at a time, but a handler that polls      *)
(* makes several calls to libvirt, and the host changes between them: a     *)
(* poll is three steps (counts, active list, inactive list).  While gui is  *)
(* busy no other handler starts; the host and the worker go on.             *)
(*                                                                          *)
(* Every Domain object is owned by the table.  A listener that follows      *)
(* domainAdded and domainRemoved holds, for each name of heard, the object  *)
(* last announced: the one in the table if the name is in m_domains, a      *)
(* deleted one otherwise.  No object identities are needed.                 *)
(*                                                                          *)
(* A list call and the lookups of the names it returned are one step.  The  *)
(* tables of networks, pools and node devices are left out: no step on the  *)
(* domains reads them.                                                      *)
(*                                                                          *)
(* A definition marked "Slip:" is not the code: it is the form an easy      *)
(* mistake would give to the definition after it, kept to show that the     *)
(* properties tell the two apart.                                           *)
(***************************************************************************)
EXTENDS Integers, FiniteSets

CONSTANTS Names,        \* names of the virtual machines
          MaxChanges,   \* bound: changes the host makes on its own
          MaxFaults     \* bound: libvirt list or count calls that fail

ASSUME NamesAssumption == IsFiniteSet(Names)
ASSUME BoundsAssumption == MaxChanges \in Nat /\ MaxFaults \in Nat

VARIABLES m_state,          \* Connection::State
          m_conn,           \* m_conn # nullptr
          opening,          \* the one openAsync request: see OpenPhases
          leaked,           \* a libvirt handle was overwritten unclosed
          registered,       \* in Engine::m_connections, so tick() is called
          m_tickCounter,
          m_initialPoll,
          m_pollingEnabled,
          m_tickBusy,
          m_domains,        \* keys of the table of Domain objects
          linked,           \* those whose object wraps a virDomainPtr
          shown,            \* Domain::m_state of the objects in the table
          heard,            \* names announced and not announced as removed
          cache,            \* names in the VM cache of this URI on disk
          gui,              \* what the GUI thread is in the middle of
          worker,           \* the stats worker: see WorkerPhases
          todo,             \* names it has still to look up
          results,          \* states it has read
          host,             \* the host's own inventory
          link,             \* virConnectIsAlive
          changes, faults   \* budgets left

openVars == <<m_state, m_conn, opening, leaked, registered>>
tickVars == <<m_tickCounter, m_initialPoll, m_pollingEnabled>>
tableVars == <<m_domains, linked, shown, heard>>
workerVars == <<m_tickBusy, worker, todo, results>>
hostVars == <<host, link, changes>>
vars == <<openVars, tickVars, tableVars, cache, gui, workerVars, hostVars,
          faults>>

States == {"Disconnected", "Connecting", "Active", "ConnectionFailed"}
OpenPhases == {"unopened", "inflight", "done"}
WorkerPhases == {"none", "running", "finished"}
HostStates == {"absent", "active", "inactive"}
VMStates == {"NoState", "Running", "ShutOff"}
Tasks == {"idle", "tick", "refresh", "init"}

\* What the GUI thread is doing between two libvirt calls of a poll: the list
\* it asks for next, the sizes of its two buffers, the names it has seen.  Two
\* more fields only serve the properties: the budgets left when the poll began
\* (the host kept still if they still are), and the VMs there ever since.
Idle == [task |-> "idle", next |-> "active", actives |-> 0, defineds |-> 0,
         seen |-> {}, budget |-> 0, stayed |-> {}]
GuiStates == [task : Tasks, next : {"active", "inactive"}, actives : Nat,
              defineds : Nat, seen : SUBSET Names, budget : Nat,
              stayed : SUBSET Names]

-----------------------------------------------------------------------------
(* The host, as libvirt calls see it. *)

ActiveVMs == {n \in Names : host[n] = "active"}
DefinedVMs == {n \in Names : host[n] = "inactive"}
HostVMs == ActiveVMs \cup DefinedVMs

\* virDomainInfo.state of a domain, or what the object keeps when it is gone.
InfoState(n, kept) == CASE host[n] = "active" /\ link -> "Running"
                        [] host[n] = "inactive" /\ link -> "ShutOff"
                        [] OTHER -> kept

\* The ways a list call into a buffer of cap entries can end: as many of S as
\* fit, or an error, on which the caller goes on with an empty list (as it does
\* when the count before it fails), with the faults left after it.
Lists(S, cap) ==
  {<<L, faults>> : L \in {T \in SUBSET S : link /\
                           \/ T = S /\ Cardinality(S) <= cap
                           \/ Cardinality(T) = cap /\ Cardinality(S) > cap}}
  \cup (IF ~link THEN {<<{}, faults>>} ELSE {})
  \cup (IF link /\ cap > 0 /\ faults > 0 THEN {<<{}, faults - 1>>} ELSE {})

-----------------------------------------------------------------------------
isOpen == m_conn /\ m_state = "Active"

TypeOK ==
  /\ m_state \in States /\ m_conn \in BOOLEAN /\ opening \in OpenPhases
  /\ leaked \in BOOLEAN /\ registered \in BOOLEAN
  /\ m_tickCounter \in 0..5
  /\ m_initialPoll \in BOOLEAN /\ m_pollingEnabled \in BOOLEAN
  /\ m_tickBusy \in BOOLEAN
  /\ m_domains \subseteq Names /\ linked \subseteq Names
  /\ shown \in [Names -> VMStates]
  /\ heard \subseteq Names /\ cache \subseteq Names
  /\ gui \in GuiStates
  /\ worker \in WorkerPhases /\ todo \subseteq Names
  /\ results \in [Names -> VMStates]
  /\ host \in [Names -> HostStates] /\ link \in BOOLEAN
  /\ changes \in Nat /\ faults \in Nat

\* create() runs the constructor that opens a handle at once; the handle is
\* there if the host answered.  createDisconnected() opens nothing.
Init ==
  /\ \/ m_conn = TRUE /\ m_state = "Active"
     \/ m_conn = FALSE /\ m_state = "Disconnected"
  /\ opening = "unopened" /\ leaked = FALSE /\ registered = FALSE
  /\ m_tickCounter = 0 /\ m_initialPoll = TRUE /\ m_pollingEnabled = TRUE
  /\ m_domains = {} /\ linked = {} /\ shown = [n \in Names |-> "NoState"]
  /\ heard = {} /\ cache \in SUBSET Names
  /\ gui = Idle
  /\ m_tickBusy = FALSE /\ worker = "none" /\ todo = {}
  /\ results = [n \in Names |-> "NoState"]
  /\ host \in [Names -> HostStates] /\ link = TRUE
  /\ changes = MaxChanges /\ faults = MaxFaults

-----------------------------------------------------------------------------
(* Changes of the table, shared by the handlers. *)

\* new Domain(this, ptr) for every name of A, entered and announced.  The
\* constructor's updateInfoMinimal() reads the state at once.
AddLive(A) ==
  /\ m_domains' = m_domains \cup A
  /\ linked' = linked \cup A
  /\ heard' = heard \cup A
  /\ shown' = [n \in Names |-> IF n \in A THEN InfoState(n, "NoState") ELSE shown[n]]

\* Slip: the table survives the handle it was filled from.
DeleteNothing == UNCHANGED tableVars

\* delete every object of the table without a word to the listeners.
DeleteAllSilently ==
  /\ m_domains' = {} /\ linked' = {} /\ shown' = [n \in Names |-> "NoState"]
  /\ UNCHANGED heard

\* saveVMCache() writes every entry; it never takes one out.
saveVMCache(D) == cache' = cache \cup D

\* Slip: stubs shown in the state they were saved in.
loadVMCacheWithState ==
  /\ m_domains' = m_domains \cup cache
  /\ heard' = heard \cup cache
  /\ shown' = [n \in Names |-> IF n \in cache \ m_domains THEN "Running" ELSE shown[n]]
  /\ UNCHANGED <<linked, cache>>

\* loadVMCache(): a stub for every cached VM the table does not have.
loadVMCache ==
  /\ m_domains' = m_domains \cup cache
  /\ heard' = heard \cup cache
  /\ UNCHANGED <<linked, shown, cache>>

close ==
  /\ m_conn
  /\ saveVMCache(m_domains)
  /\ DeleteAllSilently
  /\ m_conn' = FALSE /\ m_state' = "Disconnected"
  /\ UNCHANGED <<opening, leaked, registered>>

\* The two counts a poll sizes its buffers with.
StartPoll(task) ==
  gui' = [task |-> task, next |-> "active",
          actives |-> IF link THEN Cardinality(ActiveVMs) ELSE 0,
          defineds |-> IF link THEN Cardinality(DefinedVMs) ELSE 0,
          seen |-> {}, budget |-> changes + faults, stayed |-> HostVMs]

-----------------------------------------------------------------------------
(* What clients of the class do, on the GUI thread. *)

openAsync ==
  /\ gui.task = "idle" /\ opening = "unopened" /\ ~registered
  /\ opening' = "inflight" /\ m_state' = "Connecting"
  /\ UNCHANGED <<m_conn, leaked, registered, tickVars, tableVars, cache, gui,
                 workerVars, hostVars, faults>>

\* The finished handler of openAsync: the handle replaces whatever m_conn held.
OpenSucceeds ==
  /\ gui.task = "idle" /\ opening = "inflight" /\ link
  /\ opening' = "done" /\ m_conn' = TRUE /\ m_state' = "Active"
  /\ leaked' = (leaked \/ m_conn)
  /\ UNCHANGED <<registered, tickVars, tableVars, cache, gui, workerVars,
                 hostVars, faults>>

OpenFails ==
  /\ gui.task = "idle" /\ opening = "inflight"
  /\ opening' = "done" /\ m_state' = "ConnectionFailed"
  /\ UNCHANGED <<m_conn, leaked, registered, tickVars, tableVars, cache, gui,
                 workerVars, hostVars, faults>>

\* Shown offline: createDisconnected(), or a failed attempt.
LoadOffline ==
  /\ gui.task = "idle" /\ ~isOpen
  /\ \/ opening = "unopened" /\ ~registered
     \/ m_state = "ConnectionFailed"
  /\ loadVMCache
  /\ UNCHANGED <<openVars, tickVars, gui, workerVars, hostVars, faults>>

\* ManagerWindow::addConnection on Active: no initial poll, Engine ticks, and
\* the tree loads the cache first when its item has no rows, then refreshes.
Adopt ==
  /\ gui.task = "idle" /\ isOpen /\ ~registered
  /\ registered' = TRUE /\ m_initialPoll' = FALSE
  /\ loadVMCache \/ UNCHANGED <<tableVars, cache>>
  /\ StartPoll("refresh")
  /\ UNCHANGED <<m_state, m_conn, opening, leaked, m_tickCounter,
                 m_pollingEnabled, workerVars, hostVars, faults>>

\* A client that hands the connection to the Engine as constructed, with the
\* initial poll on.
Register ==
  /\ gui.task = "idle" /\ isOpen /\ ~registered
  /\ registered' = TRUE
  /\ UNCHANGED <<m_state, m_conn, opening, leaked, tickVars, tableVars, cache,
                 gui, workerVars, hostVars, faults>>

setPollingEnabled ==
  /\ gui.task = "idle" /\ registered
  /\ m_pollingEnabled' = ~m_pollingEnabled
  /\ UNCHANGED <<openVars, m_tickCounter, m_initialPoll, tableVars, cache, gui,
                 workerVars, hostVars, faults>>

refresh ==
  /\ gui.task = "idle" /\ registered /\ isOpen
  /\ StartPoll("refresh")
  /\ UNCHANGED <<openVars, tickVars, tableVars, cache, workerVars, hostVars,
                 faults>>

ClientClose ==
  /\ gui.task = "idle"
  /\ close
  /\ UNCHANGED <<tickVars, gui, workerVars, hostVars, faults>>

\* defineDomain(): libvirt defines the VM first (a VM of that name is only
\* redefined); the name is then refused if the table has it.
defineDomain(n) ==
  /\ gui.task = "idle" /\ registered /\ isOpen /\ link /\ changes > 0
  /\ changes' = changes - 1
  /\ host' = [host EXCEPT ![n] = IF @ = "absent" THEN "inactive" ELSE @]
  /\ IF n \in m_domains
     THEN UNCHANGED tableVars
     ELSE /\ m_domains' = m_domains \cup {n} /\ linked' = linked \cup {n}
          /\ heard' = heard \cup {n}
          /\ shown' = [shown EXCEPT ![n] = IF host[n] = "active" THEN "Running"
                                           ELSE "ShutOff"]
  /\ UNCHANGED <<openVars, tickVars, cache, gui, workerVars, link, faults>>

-----------------------------------------------------------------------------
(* The tick of the Engine's 1 s timer. *)

\* The counter is tested for > 1, % 2 and % 4 only (% 5 starts the polls of
\* the other tables), so 2..5 stand for every later value.
NextCount(c) == IF c = 5 THEN 2 ELSE c + 1

\* Slip: the early return on m_tickBusy forgotten.
TickReadyWhileBusy == registered /\ isOpen /\ m_pollingEnabled

\* The early returns of tick().
TickReady == registered /\ isOpen /\ m_pollingEnabled /\ ~m_tickBusy

tick ==
  /\ gui.task = "idle" /\ TickReady
  /\ m_tickCounter' = NextCount(m_tickCounter)
  /\ \/ /\ ~link
        /\ close
        /\ UNCHANGED <<m_initialPoll, gui, m_tickBusy>>
     \/ /\ link /\ m_initialPoll /\ m_tickCounter' > 1
        /\ m_initialPoll' = FALSE /\ m_tickBusy' = TRUE
        /\ DeleteAllSilently
        /\ StartPoll("init")
        /\ UNCHANGED <<openVars, cache>>
     \/ /\ link /\ ~(m_initialPoll /\ m_tickCounter' > 1)
        /\ IF m_tickCounter' % 2 = 0 THEN StartPoll("tick") ELSE UNCHANGED gui
        /\ UNCHANGED <<openVars, tableVars, cache, m_initialPoll, m_tickBusy>>
  /\ UNCHANGED <<m_pollingEnabled, worker, todo, results, hostVars, faults>>

\* First list of a poll: what is not in the table is added.
ListActive ==
  /\ gui.task # "idle" /\ gui.next = "active"
  /\ \E r \in Lists(ActiveVMs, gui.actives) :
       /\ AddLive(r[1] \ m_domains)
       /\ gui' = [gui EXCEPT !.next = "inactive", !.seen = r[1]]
       /\ faults' = r[2]
  /\ UNCHANGED <<openVars, tickVars, cache, workerVars, hostVars>>

\* Slip: a poll that only adds.
GoneNone(seen) == {}

\* The objects a poll removes: those neither of its lists had.
Gone(seen) == m_domains \ seen

\* Slip: the objects deleted, the signal forgotten.
HeardRemovalsNone(gone) == heard

\* domainRemoved is emitted for each of them before it is deleted.
HeardRemovals(gone) == heard \ gone

\* Second list: add what is new, announce and delete what neither list had.
ListInactive(L) ==
  LET gone == Gone(gui.seen \cup L)
      new == L \ m_domains IN
  /\ m_domains' = (m_domains \ gone) \cup new
  /\ linked' = (linked \ gone) \cup new
  /\ heard' = HeardRemovals(gone) \cup new
  /\ shown' = [n \in Names |->
       IF n \in new \/ (gui.task = "refresh" /\ n \in linked')
       THEN InfoState(n, shown[n])
       ELSE IF n \in gone THEN "NoState" ELSE shown[n]]

\* Slip: the flag set before the table is found empty.
StartStatsBusyFirst(D) ==
  /\ m_tickBusy' = (m_tickCounter % 4 = 0)
  /\ IF m_tickCounter % 4 = 0 /\ D # {}
     THEN worker' = "running" /\ todo' = D
     ELSE UNCHANGED <<worker, todo>>

\* At every fourth tick the stats worker is started on the names in the table.
StartStats(D) ==
  IF m_tickCounter % 4 = 0 /\ D # {}
  THEN m_tickBusy' = TRUE /\ worker' = "running" /\ todo' = D
  ELSE UNCHANGED <<m_tickBusy, worker, todo>>

FinishTick ==
  /\ gui.task = "tick" /\ gui.next = "inactive"
  /\ \E r \in Lists(DefinedVMs, gui.defineds) : ListInactive(r[1]) /\ faults' = r[2]
  /\ StartStats(m_domains')
  /\ gui' = Idle
  /\ UNCHANGED <<openVars, tickVars, cache, results, hostVars>>

\* A refresh then reads every live domain again and saves the cache.
FinishRefresh ==
  /\ gui.task = "refresh" /\ gui.next = "inactive"
  /\ \E r \in Lists(DefinedVMs, gui.defineds) : ListInactive(r[1]) /\ faults' = r[2]
  /\ saveVMCache(m_domains')
  /\ gui' = Idle
  /\ UNCHANGED <<openVars, tickVars, workerVars, hostVars>>

\* initAllResources(): an object entered from the first list is deleted without
\* domainRemoved if the second has its name too, and its successor announced.
FinishInit ==
  /\ gui.task = "init" /\ gui.next = "inactive"
  /\ \E r \in Lists(DefinedVMs, gui.defineds) :
       /\ m_domains' = m_domains \cup r[1] /\ linked' = linked \cup r[1]
       /\ heard' = heard \cup r[1]
       /\ shown' = [n \in Names |-> IF n \in r[1] THEN InfoState(n, "NoState")
                                    ELSE shown[n]]
       /\ faults' = r[2]
  /\ saveVMCache(m_domains')
  /\ gui' = Idle /\ m_tickBusy' = FALSE
  /\ UNCHANGED <<openVars, tickVars, worker, todo, results, hostVars>>

-----------------------------------------------------------------------------
(* The stats worker, on the thread pool. *)

\* One turn of its loop: a stub, or a name no longer there, is skipped.
WorkerReads(n) ==
  /\ worker = "running" /\ n \in todo
  /\ todo' = todo \ {n}
  /\ results' = [results EXCEPT ![n] = IF n \in linked THEN InfoState(n, "NoState")
                                      ELSE "NoState"]
  /\ UNCHANGED <<openVars, tickVars, tableVars, cache, gui, m_tickBusy, worker,
                 hostVars, faults>>

WorkerEnds ==
  /\ worker = "running" /\ todo = {}
  /\ worker' = "finished"
  /\ UNCHANGED <<openVars, tickVars, tableVars, cache, gui, m_tickBusy, todo,
                 results, hostVars, faults>>

\* The watcher's finished handler, on the GUI thread: results are applied by
\* name to whatever the table holds now.
StatsFinished ==
  /\ gui.task = "idle" /\ worker = "finished"
  /\ worker' = "none" /\ m_tickBusy' = FALSE
  /\ shown' = [n \in Names |-> IF n \in m_domains /\ results[n] # "NoState"
                               THEN results[n] ELSE shown[n]]
  /\ results' = [n \in Names |-> "NoState"]
  /\ UNCHANGED <<openVars, tickVars, m_domains, linked, heard, cache,
                 gui, todo, hostVars, faults>>

-----------------------------------------------------------------------------
(* The host. *)

HostChanges(n) ==
  /\ link /\ changes > 0
  /\ changes' = changes - 1
  /\ \E s \in HostStates \ {host[n]} : host' = [host EXCEPT ![n] = s]
  /\ gui' = IF host'[n] = "absent" THEN [gui EXCEPT !.stayed = @ \ {n}] ELSE gui
  /\ UNCHANGED <<openVars, tickVars, tableVars, cache, workerVars, link, faults>>

LinkDies ==
  /\ link /\ changes > 0
  /\ link' = FALSE /\ changes' = changes - 1
  /\ UNCHANGED <<openVars, tickVars, tableVars, cache, gui, workerVars, host,
                 faults>>

-----------------------------------------------------------------------------
Client ==
  \/ openAsync \/ OpenSucceeds \/ OpenFails \/ LoadOffline \/ Adopt \/ Register
  \/ setPollingEnabled \/ refresh \/ ClientClose
  \/ \E n \in Names : defineDomain(n)

Poll == ListActive \/ FinishTick \/ FinishRefresh \/ FinishInit
Worker == WorkerEnds \/ \E n \in Names : WorkerReads(n)
Host == LinkDies \/ \E n \in Names : HostChanges(n)

Next == Client \/ tick \/ Poll \/ Worker \/ StatsFinished \/ Host

Spec == Init /\ [][Next]_vars

\* A handler and a running task of the pool go on to their end; an event that
\* keeps coming up for a free event loop is dispatched in the end.
Fairness == WF_vars(Poll) /\ WF_vars(Worker) /\ SF_vars(StatsFinished)
            /\ SF_vars(tick)

FairSpec == Spec /\ Fairness

-----------------------------------------------------------------------------
(* Properties. *)

\* m_tickBusy is set exactly while the work it announces is outstanding: were
\* it left set, tick() would return early for ever (Connection.cpp:764).
BusyMatchesWork == m_tickBusy <=> worker # "none" \/ gui.task = "init"

\* While a tick changes the table no stats worker reads it: m_tickBusy is the
\* only thing that keeps the two apart, the worker holds m_connMutex and the
\* polls do not.  Only ticks look at it: a refresh, close() and defineDomain()
\* change the table whether a worker reads it or not.
TickExclusive == gui.task \in {"tick", "init"} => worker = "none"

\* The steps that empty the table without domainRemoved: close(), and the start
\* of initAllResources().
TableDropped == (m_conn /\ ~m_conn') \/ (gui.task # "init" /\ gui'.task = "init")

\* The names a listener holds a deleted object of.
Stale == heard \ m_domains

\* Someone who follows domainAdded and domainRemoved (loadVMCache, the polls,
\* initAllResources and defineDomain) knows every name in the table, and comes
\* to hold a deleted domain only when close() or initAllResources() drops the
\* table: never because a poll deleted it.
ListenersInStep ==
  [][m_domains' \subseteq heard'
     /\ Stale' \subseteq Stale \cup (IF TableDropped THEN m_domains ELSE {})]_vars

\* No domain that wraps a virDomainPtr outlives the handle it came from.
DomainsNeedHandle == linked # {} => m_conn

\* A VM known from the cache alone is never shown in a state it may have had:
\* stats that were under way when it was loaded do not reach it.
StubsShowNoState == \A n \in m_domains \ linked : shown[n] = "NoState"

\* A poll during which the host kept still and answered leaves exactly the
\* host's VMs in the table, whatever the table held before.
QuietPollExact ==
  [][gui.task # "idle" /\ gui'.task = "idle" /\ link'
       /\ gui.budget = changes' + faults' => m_domains' = HostVMs]_vars

\* What keeps the invariants above inductive: what is in the table was announced,
\* polls run on an adopted, open connection, and what the worker has read
\* belongs to no stub.
TableHeard == m_domains \subseteq heard
PollsWhileOpen == gui.task # "idle" => isOpen /\ registered
RegisteredLife ==
  /\ registered => opening # "inflight" /\ m_state # "ConnectionFailed"
  /\ opening = "inflight" => m_state # "Active"
ResultsOfLinked ==
  /\ worker # "none" => registered
  /\ \A n \in Names : results[n] # "NoState" =>
       worker # "none" /\ n \notin m_domains \ linked

ShownOfLinked == \A n \in Names \ linked : shown[n] = "NoState"

IInv ==
  /\ TypeOK
  /\ BusyMatchesWork /\ TickExclusive /\ TableHeard /\ DomainsNeedHandle
  /\ linked \subseteq m_domains /\ ShownOfLinked
  /\ PollsWhileOpen /\ RegisteredLife /\ ResultsOfLinked

\* The busy flag is always taken down again.
BusyClears == m_tickBusy ~> ~m_tickBusy

\* The ticks of an open connection bring the table to the host's inventory
\* once the host keeps still, faults and lost races included.
Settled == m_domains = HostVMs /\ \A n \in linked : shown[n] = InfoState(n, "NoState")
Converges ==
  <>[](registered /\ isOpen) /\ []<>m_pollingEnabled => <>[]Settled

-----------------------------------------------------------------------------
(* What the repository says of the program, and the code does not do. *)

\* Connection.h:74 "Create a connection object without opening (for async
\* connection)": then the handle of openAsync would be the only one.
OneHandle == ~leaked

\* Connection.cpp:352 a refresh will "only emit signals for actual
\* additions/removals": on a live link it announces no VM as removed that was
\* there all along.
OnlyActualRemovals ==
  [][gui.task = "refresh" /\ link => (heard \ heard') \cap gui.stayed = {}]_vars

\* Domain.cpp:625 a cached domain serves "until the connection is refreshed
\* and the domain is reloaded from libvirt".
RefreshReloads ==
  [][gui.task = "refresh" /\ gui'.task = "idle" => m_domains' \subseteq linked']_vars

=============================================================================
