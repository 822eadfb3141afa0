----------------------------- MODULE Resources -----------------------------
(***************************************************************************)
(* One of the three tables a QVirt::Connection keeps beside its domains     *)
(* (src/src/libvirt/Connection.cpp): m_networks, m_storagePools or          *)
(* m_nodeDevices, filled by initAllResources() and kept up by               *)
(* pollNetworks(), pollStoragePools() and pollNodeDevices().  The three     *)
(* share no state, so a behaviour follows one of them, its kind.            *)
(*                                                                          *)
(* Networks and pools are listed by four calls, two counts and two lists;   *)
(* the host changes between them, and a failed call counts as an empty      *)
(* list.  Node devices are listed by one call whose failure ends the poll.  *)
(* Each name of a list is then looked up by a call of its own.  The handler *)
(* has the GUI thread for itself from its first call to its last.           *)
(*                                                                          *)
(* A definition marked "Slip:" is not the code: it is the form an easy      *)
(* mistake would give to the definition after it, kept to show that the     *)
(* properties tell the two apart.                                           *)
(***************************************************************************)
EXTENDS Integers, FiniteSets

CONSTANTS Names,        \* names of the networks, pools or devices
          MaxChanges,   \* bound: changes the host makes on its own
          MaxFaults,    \* bound: libvirt calls that fail
          MaxLoads      \* bound: times the table is loaded anew or closed

ASSUME NamesAssumption == IsFiniteSet(Names)
ASSUME BoundsAssumption == MaxChanges \in Nat /\ MaxFaults \in Nat /\ MaxLoads \in Nat

VARIABLES kind,         \* which of the three tables
          isOpen,       \* Connection::isOpen()
          table,        \* the object of each name, 0 if it has none
          made,         \* objects made so far; the next is numbered made + 1
          dead,         \* objects deleted
          gui,          \* what the GUI thread is in the middle of
          host,         \* the host's own inventory
          changes, faults, loads    \* budgets left

tableVars == <<table, made, dead>>
budgets == <<changes, faults, loads>>
vars == <<kind, isOpen, tableVars, gui, host, budgets>>

Kinds == {"network", "pool", "device"}
HostStates == {"absent", "inactive", "active"}
Tasks == {"idle", "poll", "init"}
Phases == {"active", "inactive", "sweep"}

\* The libvirt calls done so far by the handler that runs: what it asks next,
\* the sizes of its two buffers, the names of the last list it has still to
\* look up and those either list had.  Two more fields only serve the
\* properties: the budgets when it began (the host kept still if they still
\* are) and the names that were there all along.
Idle == [task |-> "idle", phase |-> "active", actives |-> 0, inactives |-> 0,
         todo |-> {}, seen |-> {}, budget |-> 0, stayed |-> {}]
GuiStates == [task : Tasks, phase : Phases, actives : Nat, inactives : Nat,
              todo : SUBSET Names, seen : SUBSET Names, budget : Nat,
              stayed : SUBSET Names]

Active == {n \in Names : host[n] = "active"}
Inactive == {n \in Names : host[n] = "inactive"}
Present == Active \cup Inactive
Entered == {n \in Names : table[n] # 0}
Objects(G) == {table[n] : n \in G \cap Entered}

TypeOK ==
  /\ kind \in Kinds /\ isOpen \in BOOLEAN
  /\ table \in [Names -> Nat]
  /\ made \in Nat /\ dead \subseteq Nat
  /\ gui \in GuiStates
  /\ host \in [Names -> HostStates]
  /\ changes \in Nat /\ faults \in Nat /\ loads \in Nat

Init ==
  /\ kind \in Kinds /\ isOpen = TRUE
  /\ table = [n \in Names |-> 0]
  /\ made = 0 /\ dead = {}
  /\ gui = Idle
  /\ host \in [Names -> HostStates]
  /\ changes = MaxChanges /\ faults = MaxFaults /\ loads = MaxLoads

-----------------------------------------------------------------------------
(* Changes of the table, shared by the handlers. *)

\* delete every object of the table without a word to the listeners.
DeleteAllSilently ==
  /\ table' = [n \in Names |-> 0]
  /\ dead' = dead \cup Objects(Names)
  /\ UNCHANGED made

\* new Network / StoragePool / NodeDevice, entered under n and announced.
AddObject(n) ==
  /\ made' = made + 1
  /\ table' = [table EXCEPT ![n] = made + 1]
  /\ UNCHANGED dead

\* Slip: a name that is listed again gets a new object.
TakesEvery(n) == TRUE

\* A poll makes objects for the names it does not have; a load for every name
\* of every list, so one that moved from the first list to the second twice.
Takes(n) == gui.task = "init" \/ n \notin Entered

\* Slip: a poll that only adds.
GoneNone(seen) == {}

\* The entries a poll removes: those none of its lists had.
Gone(seen) == Entered \ seen

\* take() the entries no list had, announce them removed and delete them.
RemoveObjects(G) ==
  /\ table' = [n \in Names |-> IF n \in G THEN 0 ELSE table[n]]
  /\ dead' = dead \cup Objects(G)
  /\ UNCHANGED made

-----------------------------------------------------------------------------
(* Polls and loads. *)

\* Slip: the test for more than none forgotten, so that the -1 of a failed count
\* sizes a buffer.
CountsRaw(S) == {<<Cardinality(S), 0>>} \cup (IF faults > 0 THEN {<<-1, 1>>} ELSE {})

\* A count that sizes a buffer, and the failures it used up: one that fails
\* counts as none.  (Devices are not counted.)
Counts(S) == {<<Cardinality(S), 0>>}
             \cup (IF faults > 0 /\ kind # "device" THEN {<<0, 1>>} ELSE {})

StartLists(task) ==
  \E a \in Counts(Active), i \in Counts(Inactive) :
    /\ a[2] + i[2] <= faults
    /\ faults' = faults - a[2] - i[2]
    /\ gui' = [task |-> task, phase |-> "active", actives |-> a[1],
               inactives |-> i[1], todo |-> {}, seen |-> {},
               budget |-> changes + faults, stayed |-> Present]

\* Slip: the table is polled until it has entries, like a first load.
PollBeginsUntilFilled ==
  /\ gui.task = "idle" /\ isOpen
  /\ IF Entered = {} THEN StartLists("poll") ELSE UNCHANGED <<gui, faults>>
  /\ UNCHANGED <<kind, isOpen, tableVars, host, changes, loads>>

\* tick(), on every fifth tick, and refresh() at once: a poll begins.
PollBegins ==
  /\ gui.task = "idle" /\ isOpen
  /\ StartLists("poll")
  /\ UNCHANGED <<kind, isOpen, tableVars, host, changes, loads>>

\* initAllResources(), on the first ticks: the table is emptied first.
LoadBegins ==
  /\ gui.task = "idle" /\ isOpen /\ loads > 0
  /\ loads' = loads - 1
  /\ DeleteAllSilently
  /\ StartLists("init")
  /\ UNCHANGED <<kind, isOpen, host, changes>>

\* A list call into a buffer of cap entries: as many of S as fit, or an error,
\* on which the caller goes on as after an empty list.
Lists(S, cap) ==
  {<<L, faults>> : L \in {T \in SUBSET S : \/ T = S /\ Cardinality(S) <= cap
                                           \/ /\ Cardinality(T) = cap
                                              /\ Cardinality(S) > cap}}
  \cup (IF cap > 0 /\ faults > 0 THEN {<<{}, faults - 1>>} ELSE {})

ListNames(S, cap, next) ==
  \E r \in Lists(S, cap) :
    /\ gui' = [gui EXCEPT !.phase = next, !.todo = r[1], !.seen = @ \cup r[1]]
    /\ faults' = r[2]

ListActive ==
  /\ gui.task # "idle" /\ gui.phase = "active" /\ kind # "device"
  /\ ListNames(Active, gui.actives, "inactive")
  /\ UNCHANGED <<kind, isOpen, tableVars, host, changes, loads>>

ListInactive ==
  /\ gui.task # "idle" /\ gui.phase = "inactive" /\ gui.todo = {}
  /\ ListNames(Inactive, gui.inactives, "sweep")
  /\ UNCHANGED <<kind, isOpen, tableVars, host, changes, loads>>

\* virConnectListAllNodeDevices: all devices, whatever their number.
ListDevices ==
  /\ gui.task # "idle" /\ gui.phase = "active" /\ kind = "device"
  /\ gui' = [gui EXCEPT !.phase = "sweep", !.todo = Present, !.seen = Present]
  /\ UNCHANGED <<kind, isOpen, tableVars, host, budgets>>

\* Slip: a failed list of devices taken for an empty one, as for the others.
ListDevicesEmpty ==
  /\ gui.task # "idle" /\ gui.phase = "active" /\ kind = "device" /\ faults > 0
  /\ faults' = faults - 1
  /\ gui' = [gui EXCEPT !.phase = "sweep"]
  /\ UNCHANGED <<kind, isOpen, tableVars, host, changes, loads>>

\* The call failed: pollNodeDevices() returns, initAllResources() ends.
ListDevicesFails ==
  /\ gui.task # "idle" /\ gui.phase = "active" /\ kind = "device" /\ faults > 0
  /\ faults' = faults - 1
  /\ gui' = Idle
  /\ UNCHANGED <<kind, isOpen, tableVars, host, changes, loads>>

\* The loop over a list: the next name that needs an object is looked up.  A
\* name that is gone by now, or whose lookup fails, gets none.  (The handle of
\* a device came with the list.)
LookUp(n) ==
  /\ n \in gui.todo
  /\ gui' = [gui EXCEPT !.todo = @ \ {n}]
  /\ \/ Takes(n) /\ (n \in Present \/ kind = "device") /\ AddObject(n) /\ UNCHANGED faults
     \/ Takes(n) /\ n \notin Present /\ kind # "device" /\ UNCHANGED <<tableVars, faults>>
     \/ /\ Takes(n) /\ kind # "device" /\ faults > 0
        /\ faults' = faults - 1 /\ UNCHANGED tableVars
     \/ ~Takes(n) /\ UNCHANGED <<tableVars, faults>>
  /\ UNCHANGED <<kind, isOpen, host, changes, loads>>

\* The end of a poll or a load: what is gone is removed, in a poll only.
Sweep ==
  /\ gui.phase = "sweep" /\ gui.todo = {}
  /\ IF gui.task = "poll" THEN RemoveObjects(Gone(gui.seen)) ELSE UNCHANGED tableVars
  /\ gui' = Idle
  /\ UNCHANGED <<kind, isOpen, host, budgets>>

close ==
  /\ gui.task = "idle" /\ isOpen /\ loads > 0
  /\ loads' = loads - 1
  /\ isOpen' = FALSE
  /\ DeleteAllSilently
  /\ UNCHANGED <<kind, gui, host, changes, faults>>

\* The connection is opened again; its tables are still empty.
reopen ==
  /\ ~isOpen
  /\ isOpen' = TRUE
  /\ UNCHANGED <<kind, tableVars, gui, host, budgets>>

\* The host defines, starts, stops or deletes an entry at any time.
HostChanges(n) ==
  /\ changes > 0
  /\ changes' = changes - 1
  /\ \E s \in HostStates \ {host[n]} : host' = [host EXCEPT ![n] = s]
  /\ gui' = IF host'[n] = "absent" THEN [gui EXCEPT !.stayed = @ \ {n}] ELSE gui
  /\ UNCHANGED <<kind, isOpen, tableVars, faults, loads>>

-----------------------------------------------------------------------------
Handler == \/ ListActive \/ ListInactive \/ ListDevices \/ ListDevicesFails
           \/ \E n \in Names : LookUp(n)
           \/ Sweep

Next == \/ PollBegins \/ LoadBegins
        \/ Handler
        \/ close \/ reopen
        \/ \E n \in Names : HostChanges(n)

Spec == Init /\ [][Next]_vars

\* The Engine's timer fires again and again, and a handler that began runs to
\* its end.
FairSpec == Spec /\ WF_vars(Handler) /\ WF_vars(PollBegins)

-----------------------------------------------------------------------------
(* Properties. *)

\* The tables keep the promises of the Roster: a name in the table has a live
\* object of its own and keeps it until it leaves; an object is deleted with
\* its name only.  Entering over an object happens in a load alone.
Promise == INSTANCE Roster WITH known <- table, loading <- gui.task = "init"
RosterSpec == Promise!Spec

\* A poll that met no failure and no change leaves exactly the host's entries.
QuietPollExact ==
  [][gui.task = "poll" /\ gui'.task = "idle" /\ gui.budget = changes' + faults'
       => Entered' = Present']_vars

\* A device that was there from the first call of a poll to its last is never
\* removed by it, not even when its list call fails.
SteadyDeviceKept ==
  [][kind = "device" /\ gui.task = "poll" =>
       \A n \in gui.stayed : table[n] # 0 => table'[n] = table[n]]_vars

\* Once the host keeps still and libvirt answers, an open connection comes to
\* have exactly the host's entries and keeps them.
Converges == <>[](isOpen => Entered = Present)
=============================================================================
