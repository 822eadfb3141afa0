------------------------------- MODULE Domain -------------------------------
(***************************************************************************)
(* One live QVirt::Domain (src/src/libvirt/Domain.cpp) and the window that  *)
(* shows it (ui/vmwindow/VMWindow.cpp, DetailsPage.cpp).                    *)
(*                                                                          *)
(* An asynchronous request (startAsync, updateInfoAsync, ...) is a job: its *)
(* worker calls libvirt at one moment, its watcher's finished handler runs  *)
(* on the GUI thread at a later one.  Jobs are independent, so handlers run *)
(* in any order.  The stats worker of the Connection is one more job that   *)
(* comes up again and again, never twice at once.                           *)
(*                                                                          *)
(* Left out: memory and CPU figures, description and title (m_xmlFetched    *)
(* tells only whether these were read: m_cachedXmlDesc is empty as long as  *)
(* getXMLDesc has not filled it), the Reboot button, and the deletion of    *)
(* the object, which belongs to the Connection.                             *)
(*                                                                          *)
(* "Slip:" marks a form that an easy mistake would give to the definition   *)
(* after it.                                                                *)
(***************************************************************************)
EXTENDS Integers

CONSTANTS Devices,      \* devices a configuration may have
          Jobs,         \* bound: requests of the user under way at once
          Poll,         \* the job of the Connection's stats worker
          MaxChanges,   \* bound: changes the host makes on its own
          MaxFaults     \* bound: libvirt calls that fail without a reason

ASSUME PollAssumption == Poll \notin Jobs
ASSUME BoundsAssumption == MaxChanges \in Nat /\ MaxFaults \in Nat

VARIABLES m_state,          \* Domain::State shown
          m_cachedXmlDesc,  \* what getXMLDesc keeps, see XML
          jobs,             \* one record for each job, see JobRecs
          seen,             \* for each job, the states the VM had until its call
          startEnabled, shutdownEnabled, forceOffEnabled,   \* VMWindow
          ui,               \* a modal question open, or the program crashed
          promised,         \* devices the user was told the VM will have
          host,             \* the VM's state on the host
          config, live,     \* its devices: persistent, and while it is active
          changes, faults   \* budgets left

buttons == <<startEnabled, shutdownEnabled, forceOffEnabled>>
hostVars == <<host, config, live>>
vars == <<m_state, m_cachedXmlDesc, jobs, seen, buttons, ui, promised, hostVars,
          changes, faults>>

HostStates == {"ShutOff", "Running", "Paused"}
States == HostStates \cup {"NoState"}
Slots == Jobs \cup {Poll}
\* saveAsync makes another call than destroyAsync, with the same consequences
\* here: "destroy" stands for both.
UserKinds == {"start", "shutdown", "destroy", "update"}
JobRecs == [kind : UserKinds \cup {"stats"}, phase : {"free", "issued", "called"},
            ok : BOOLEAN, state : States]
Free == [kind |-> "update", phase |-> "free", ok |-> FALSE, state |-> "NoState"]

\* XML text is the devices it names; empty text is what no call has filled.
XML == [fetched : BOOLEAN, devices : SUBSET Devices]
NoXML == [fetched |-> FALSE, devices |-> {}]

Active == host \in {"Running", "Paused"}

TypeOK ==
  /\ m_state \in States /\ m_cachedXmlDesc \in XML
  /\ jobs \in [Slots -> JobRecs] /\ seen \in [Slots -> SUBSET HostStates]
  /\ startEnabled \in BOOLEAN /\ shutdownEnabled \in BOOLEAN
  /\ forceOffEnabled \in BOOLEAN
  /\ ui \in {"ready", "asking", "crashed"}
  /\ promised \subseteq Devices
  /\ host \in HostStates /\ config \subseteq Devices /\ live \subseteq Devices
  /\ changes \in Nat /\ faults \in Nat

-----------------------------------------------------------------------------
(* Shared by the handlers. *)

\* A call to libvirt succeeds where it can, unless a fault of the budget hits it.
Attempt(able, ok) == \/ ok = able /\ UNCHANGED faults
                     \/ able /\ ~ok /\ faults > 0 /\ faults' = faults - 1

\* VMWindow::updateControlButtons.
updateControlButtons(s) ==
  /\ startEnabled' = (s = "ShutOff")
  /\ shutdownEnabled' = (s = "Running")
  /\ forceOffEnabled' = (s \in {"Running", "Paused"})

\* Slip: the state stored without stateChanged.
setStateQuiet(s) == m_state' = s /\ UNCHANGED buttons

\* Domain::setState: the window hears of a change only.
setState(s) ==
  /\ m_state' = s
  /\ IF s = m_state THEN UNCHANGED buttons ELSE updateControlButtons(s)

\* A request starts a worker; a slot that is not free bounds how many there are.
Issue(j, kind) ==
  /\ jobs[j].phase = "free"
  /\ jobs' = [jobs EXCEPT ![j] = [Free EXCEPT !.kind = kind, !.phase = "issued"]]
  /\ seen' = [seen EXCEPT ![j] = {host}]

\* The VM is in state s from now on: what a call still to be made may find.
HostBecomes(s) ==
  /\ host' = s
  /\ seen' = [j \in Slots |->
                IF jobs[j].phase = "issued" THEN seen[j] \cup {s} ELSE seen[j]]

\* The object is built from a handle, and the window and its pages on it: the
\* constructor reads the state (or fails to), the pages fill the XML cache.
Init ==
  /\ host \in HostStates /\ config \in SUBSET Devices
  /\ live = IF Active THEN config ELSE {}
  /\ m_state \in {host, "NoState"}
  /\ m_cachedXmlDesc \in {NoXML, [fetched |-> TRUE, devices |-> config]}
  /\ jobs = [j \in Slots |-> Free] /\ seen = [j \in Slots |-> {}]
  /\ startEnabled = (m_state = "ShutOff") /\ shutdownEnabled = (m_state = "Running")
  /\ forceOffEnabled = (m_state \in {"Running", "Paused"})
  /\ ui = "ready" /\ promised = {}
  /\ changes = MaxChanges /\ faults = MaxFaults

-----------------------------------------------------------------------------
(* The workers. *)

\* What the libvirt call of a job needs, and the state it leaves the VM in.
Able(kind) == CASE kind = "start" -> host = "ShutOff"
                [] kind \in {"shutdown", "destroy"} -> Active
                [] OTHER -> TRUE
After(kind) == CASE kind = "start" -> "Running"
                 [] kind = "destroy" -> "ShutOff"
                 [] OTHER -> host

Call(j) ==
  /\ ui # "crashed" /\ jobs[j].phase = "issued"
  /\ \E ok \in BOOLEAN :
       /\ Attempt(Able(jobs[j].kind), ok)
       /\ jobs' = [jobs EXCEPT ![j].phase = "called", ![j].ok = ok, ![j].state = host]
       /\ IF ok THEN /\ HostBecomes(After(jobs[j].kind))
                     /\ live' = CASE jobs[j].kind = "start" -> config
                                  [] jobs[j].kind = "destroy" -> {}
                                  [] OTHER -> live
                ELSE UNCHANGED <<host, seen, live>>
  /\ UNCHANGED <<m_state, m_cachedXmlDesc, buttons, ui, promised, config, changes>>

\* Slip: a request to shut down taken for a state of its own.
OutcomeShutdown(job) ==
  CASE job.kind = "start" /\ job.ok -> "Running"
    [] job.kind = "shutdown" /\ job.ok -> "Shutdown"
    [] job.kind = "destroy" /\ job.ok -> "ShutOff"
    [] job.kind \in {"update", "stats"} /\ job.ok -> job.state
    [] OTHER -> m_state

\* Slip: the stats worker's state left out of applyStats.
OutcomeNoStats(job) ==
  CASE job.kind = "start" /\ job.ok -> "Running"
    [] job.kind = "destroy" /\ job.ok -> "ShutOff"
    [] job.kind = "update" /\ job.ok -> job.state
    [] OTHER -> m_state

\* Slip: the outcome of the request is not looked at.
OutcomeAnyway(job) ==
  CASE job.kind = "start" -> "Running"
    [] job.kind = "destroy" -> "ShutOff"
    [] job.kind \in {"update", "stats"} /\ job.ok -> job.state
    [] OTHER -> m_state

\* The state a finished handler sets: shutdownAsync sets none.
Outcome(job) ==
  CASE job.kind = "start" /\ job.ok -> "Running"
    [] job.kind = "destroy" /\ job.ok -> "ShutOff"
    [] job.kind \in {"update", "stats"} /\ job.ok -> job.state
    [] OTHER -> m_state

\* A watcher's finished handler; a nested event loop of a question runs it too.
Finished(j) ==
  /\ ui # "crashed" /\ jobs[j].phase = "called"
  /\ setState(Outcome(jobs[j]))
  /\ jobs' = [jobs EXCEPT ![j] = Free]
  /\ seen' = [seen EXCEPT ![j] = {}]
  /\ UNCHANGED <<m_cachedXmlDesc, ui, promised, hostVars, changes, faults>>

\* Every fourth tick of the Connection starts the stats worker.
StatsTick ==
  /\ ui # "crashed" /\ Issue(Poll, "stats")
  /\ UNCHANGED <<m_state, m_cachedXmlDesc, buttons, ui, promised, hostVars, changes,
                 faults>>

-----------------------------------------------------------------------------
(* VMWindow and the toolbar of ManagerWindow. *)

onStartClicked(j) ==
  /\ ui = "ready" /\ startEnabled
  /\ startEnabled' = FALSE
  /\ Issue(j, "start")
  /\ UNCHANGED <<m_state, m_cachedXmlDesc, shutdownEnabled, forceOffEnabled, ui,
                 promised, hostVars, changes, faults>>

\* onStopClicked disables m_actionStop, which nothing ever sets: using it ends
\* the program, unless what it happens to hold does no harm.
onStopClicked(j) ==
  /\ ui = "ready" /\ shutdownEnabled
  /\ \/ ui' = "crashed" /\ UNCHANGED <<jobs, seen>>
     \/ Issue(j, "shutdown") /\ UNCHANGED ui
  /\ UNCHANGED <<m_state, m_cachedXmlDesc, buttons, promised, hostVars, changes,
                 faults>>

\* Force Off asks first; events go on being handled behind the question.
onForceOffClicked ==
  /\ ui = "ready" /\ forceOffEnabled
  /\ ui' = "asking"
  /\ UNCHANGED <<m_state, m_cachedXmlDesc, jobs, seen, buttons, promised, hostVars,
                 changes, faults>>

AnswerForceOff(j) ==
  /\ ui = "asking" /\ ui' = "ready"
  /\ \/ forceOffEnabled' = FALSE /\ Issue(j, "destroy")
     \/ UNCHANGED <<forceOffEnabled, jobs, seen>>
  /\ UNCHANGED <<m_state, m_cachedXmlDesc, startEnabled, shutdownEnabled, promised,
                 hostVars, changes, faults>>

\* ManagerWindow::onVMStarted, onVMStopped and other callers of the methods:
\* their own buttons follow the selection, not the state of this domain.
Request(j) ==
  /\ ui = "ready"
  /\ \E kind \in UserKinds : Issue(j, kind)
  /\ UNCHANGED <<m_state, m_cachedXmlDesc, buttons, ui, promised, hostVars, changes,
                 faults>>

refresh(j) ==
  /\ ui = "ready"
  /\ Issue(j, "update")
  /\ updateControlButtons(m_state)
  /\ UNCHANGED <<m_state, m_cachedXmlDesc, ui, promised, hostVars, changes, faults>>

\* updateInfo() from Connection::refresh, at once.
updateInfo ==
  /\ ui # "crashed"
  /\ \E ok \in BOOLEAN : Attempt(TRUE, ok) /\ setState(IF ok THEN host ELSE m_state)
  /\ UNCHANGED <<m_cachedXmlDesc, jobs, seen, ui, promised, hostVars, changes>>

-----------------------------------------------------------------------------
(* DetailsPage: devices. *)

\* getXMLDesc: the text kept, or else the one libvirt gives (for an active VM of
\* its live devices l, whatever flags are asked for later), kept from then on.
getXMLDesc(l, c) ==
  IF m_cachedXmlDesc.fetched THEN m_cachedXmlDesc
  ELSE [fetched |-> TRUE, devices |-> IF Active THEN l ELSE c]

\* The readers of the text: the pages, the dialogs, Connection::saveVMCache.
ReadXML ==
  /\ ui # "crashed" /\ ~m_cachedXmlDesc.fetched
  /\ m_cachedXmlDesc' = getXMLDesc(live, config)
  /\ UNCHANGED <<m_state, jobs, seen, buttons, ui, promised, hostVars, changes,
                 faults>>

\* Into a VM shown as running the device is attached live, and nothing more is
\* done if that fails.  Otherwise the text plus the device is defined as the new
\* persistent configuration.  In the end the device tree reads the text again.
onAddHardware(d) ==
  /\ ui = "ready" /\ d \notin config \cup live
  /\ \E ok \in BOOLEAN :
       \/ /\ m_state = "Running"
          /\ Attempt(Active, ok)
          /\ live' = IF ok THEN live \cup {d} ELSE live
          /\ m_cachedXmlDesc' = getXMLDesc(live', config)
          /\ UNCHANGED <<config, promised>>
       \/ /\ m_state # "Running"
          /\ Attempt(TRUE, ok)
          /\ m_cachedXmlDesc' = getXMLDesc(live, config)
          /\ config' = IF ok THEN m_cachedXmlDesc'.devices \cup {d} ELSE config
          /\ promised' = IF ok THEN promised \cup {d} ELSE promised
          /\ UNCHANGED live
  /\ UNCHANGED <<m_state, jobs, seen, buttons, ui, host, changes>>

\* d is what the user picked in the tree, e the first element findDeviceNode
\* thinks is it: it also takes one of the same type.  From a running VM the text
\* of d's whole category is detached, which libvirt refuses unless it is d's own.
onRemoveHardware(d) ==
  /\ ui = "ready" /\ m_cachedXmlDesc.fetched /\ d \in m_cachedXmlDesc.devices
  /\ \/ /\ m_state = "Running"
        /\ live' \in {live, live \ {d}}
        /\ UNCHANGED <<config, faults, promised>>
     \/ /\ m_state # "Running"
        /\ \E e \in m_cachedXmlDesc.devices, ok \in BOOLEAN :
             /\ Attempt(TRUE, ok)
             /\ config' = IF ok THEN m_cachedXmlDesc.devices \ {e} ELSE config
             /\ promised' = IF ok THEN promised \ {d, e} ELSE promised
        /\ UNCHANGED live
  /\ UNCHANGED <<m_state, m_cachedXmlDesc, jobs, seen, buttons, ui, host, changes>>

-----------------------------------------------------------------------------
(* The host: the guest powers off, someone else starts or stops the VM. *)

HostChanges ==
  /\ changes > 0 /\ changes' = changes - 1
  /\ \E s \in HostStates \ {host} :
       /\ s = "Paused" => Active
       /\ HostBecomes(s)
       /\ live' = IF s = "ShutOff" THEN {} ELSE IF Active THEN live ELSE config
  /\ UNCHANGED <<m_state, m_cachedXmlDesc, jobs, buttons, ui, promised, config,
                 faults>>

-----------------------------------------------------------------------------
Window(j) == onStartClicked(j) \/ onStopClicked(j) \/ AnswerForceOff(j)
             \/ Request(j) \/ refresh(j)
Details == \E d \in Devices : onAddHardware(d) \/ onRemoveHardware(d)

Next == \/ \E j \in Jobs : Window(j)
        \/ onForceOffClicked \/ Details \/ ReadXML \/ StatsTick \/ updateInfo
        \/ \E j \in Slots : Call(j) \/ Finished(j)
        \/ HostChanges

Spec == Init /\ [][Next]_vars

\* The pool runs every task, the event loop delivers every finished watcher,
\* and the tick comes again as long as the connection is open.
Fairness == /\ \A j \in Slots : WF_vars(Call(j)) /\ WF_vars(Finished(j))
            /\ WF_vars(StatsTick)
FairSpec == Spec /\ Fairness

-----------------------------------------------------------------------------
(* Properties. *)

\* A handler never shows a state the VM was not in between the request and its
\* call to libvirt, whatever order the answers come in (startAsync, updateInfoAsync).
NoInventedState ==
  [][\A j \in Slots : Finished(j) => m_state' \in seen[j] \cup {m_state}]_vars

\* The window offers Start, Shutdown and Force Off only for the state shown.
ButtonsFitState ==
  /\ startEnabled => m_state = "ShutOff"
  /\ shutdownEnabled => m_state = "Running"
  /\ forceOffEnabled => m_state \in {"Running", "Paused"}

\* What makes NoInventedState inductive: a request still to be called has seen
\* the VM's present state, and an answer to come is one the request has seen.
AnswersSeen ==
  \A j \in Slots :
    /\ jobs[j].phase = "issued" => host \in seen[j]
    /\ jobs[j].phase = "called" /\ jobs[j].ok /\ jobs[j].kind # "shutdown"
         => Outcome(jobs[j]) \in seen[j]

\* However late and in whatever order answers arrive, once the VM stays in a
\* state the window comes to show it and stays with it: the stats polls repair
\* what a late answer turned back.
ShownConverges ==
  \A s \in HostStates : <>[](host = s /\ ui # "crashed") => <>[](m_state = s)

-----------------------------------------------------------------------------
(* What the window tells the user, and the code does not do. *)

\* DetailsPage.cpp:549 the device "has been added to the VM configuration. The device will
\* be available when the VM is started": it is still there after the next edit.
DevicesKept == promised \subseteq config

=============================================================================
