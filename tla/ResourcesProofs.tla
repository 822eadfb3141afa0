-------------------------- MODULE ResourcesProofs --------------------------
(***************************************************************************)
(* That the tables of a Connection implement the Roster, for any set of     *)
(* names and any number of changes, failures and loads, and that a Roster   *)
(* keeps names and live objects one to one.                                 *)
(***************************************************************************)
EXTENDS Resources, FiniteSetTheorems, TLAPS

-----------------------------------------------------------------------------
(* Types. *)

LEMMA Cards ==
  ASSUME NEW S, S \subseteq Names
  PROVE  Cardinality(S) \in Nat
  BY NamesAssumption, FS_Subset, FS_CardinalityType

LEMMA IdleType == Idle \in GuiStates
  BY DEF Idle, GuiStates, Tasks, Phases

LEMMA StartType ==
  ASSUME TypeOK, NEW task \in {"poll", "init"}, StartLists(task)
  PROVE  gui' \in GuiStates /\ faults' \in Nat
<1>1. Active \subseteq Names /\ Inactive \subseteq Names /\ Present \subseteq Names
  BY DEF Active, Inactive, Present
<1>2. Cardinality(Active) \in Nat /\ Cardinality(Inactive) \in Nat
  BY <1>1, Cards
<1>3. PICK a \in Counts(Active), i \in Counts(Inactive) :
        /\ a[2] + i[2] <= faults
        /\ faults' = faults - a[2] - i[2]
        /\ gui' = [task |-> task, phase |-> "active", actives |-> a[1],
                   inactives |-> i[1], todo |-> {}, seen |-> {},
                   budget |-> changes + faults, stayed |-> Present]
  BY DEF StartLists
<1>4. a[1] \in Nat /\ i[1] \in Nat /\ a[2] \in Nat /\ i[2] \in Nat
  BY <1>2 DEF Counts
<1>5. faults \in Nat /\ changes \in Nat
  BY DEF TypeOK
<1>6. faults' \in Nat
  BY <1>3, <1>4, <1>5
<1>7. gui' \in GuiStates
  BY <1>1, <1>3, <1>4, <1>5 DEF GuiStates, Tasks, Phases
<1>8. QED
  BY <1>6, <1>7

LEMMA ListType ==
  ASSUME TypeOK, NEW S, S \subseteq Names, NEW cap, NEW next \in Phases,
         ListNames(S, cap, next)
  PROVE  gui' \in GuiStates /\ faults' \in Nat
<1>1. PICK r \in Lists(S, cap) :
        /\ gui' = [gui EXCEPT !.phase = next, !.todo = r[1], !.seen = @ \cup r[1]]
        /\ faults' = r[2]
  BY DEF ListNames
<1>2. r[1] \subseteq Names /\ r[2] \in Nat
  BY DEF Lists, TypeOK
<1>3. QED
  BY <1>1, <1>2 DEF TypeOK, GuiStates

LEMMA DeleteAllType ==
  ASSUME TypeOK, DeleteAllSilently
  PROVE  table' \in [Names -> Nat] /\ dead' \subseteq Nat /\ made' \in Nat
  BY DEF DeleteAllSilently, TypeOK, Objects, Entered

LEMMA RemoveType ==
  ASSUME TypeOK, NEW G, RemoveObjects(G)
  PROVE  table' \in [Names -> Nat] /\ dead' \subseteq Nat /\ made' \in Nat
  BY DEF RemoveObjects, TypeOK, Objects, Entered

LEMMA AddType ==
  ASSUME TypeOK, NEW n \in Names, AddObject(n)
  PROVE  table' \in [Names -> Nat] /\ dead' \subseteq Nat /\ made' \in Nat
  BY DEF AddObject, TypeOK

LEMMA LookUpTable ==
  ASSUME TypeOK, NEW n \in Names, LookUp(n)
  PROVE  (Takes(n) /\ AddObject(n)) \/ UNCHANGED tableVars
  BY DEF LookUp, tableVars

LEMMA TypeNext ==
  ASSUME TypeOK, [Next]_vars
  PROVE  TypeOK'
<1>1. CASE PollBegins
  BY <1>1, StartType DEF PollBegins, TypeOK, tableVars
<1>2. CASE LoadBegins
  <2>1. loads' \in Nat
    BY <1>2 DEF LoadBegins, TypeOK
  <2>2. QED
    BY <1>2, <2>1, StartType, DeleteAllType DEF LoadBegins, TypeOK
<1>3. CASE ListActive
  <2>1. Active \subseteq Names
    BY DEF Active
  <2>2. gui' \in GuiStates /\ faults' \in Nat
    BY <1>3, <2>1, ListType DEF ListActive, Phases
  <2>3. QED
    BY <1>3, <2>2 DEF ListActive, TypeOK, tableVars
<1>4. CASE ListInactive
  <2>1. Inactive \subseteq Names
    BY DEF Inactive
  <2>2. gui' \in GuiStates /\ faults' \in Nat
    BY <1>4, <2>1, ListType DEF ListInactive, Phases
  <2>3. QED
    BY <1>4, <2>2 DEF ListInactive, TypeOK, tableVars
<1>5. CASE ListDevices
  <2>1. Present \subseteq Names
    BY DEF Present, Active, Inactive
  <2>2. gui' \in GuiStates
    BY <1>5, <2>1 DEF ListDevices, TypeOK, GuiStates, Phases
  <2>3. QED
    BY <1>5, <2>2 DEF ListDevices, TypeOK, tableVars, budgets
<1>6. CASE ListDevicesFails
  <2>1. faults' \in Nat
    BY <1>6 DEF ListDevicesFails, TypeOK
  <2>2. QED
    BY <1>6, <2>1, IdleType DEF ListDevicesFails, TypeOK, tableVars
<1>7. ASSUME NEW n \in Names, LookUp(n) PROVE TypeOK'
  <2>1. gui' \in GuiStates
    BY <1>7 DEF LookUp, TypeOK, GuiStates
  <2>2. faults' \in Nat
    BY <1>7 DEF LookUp, TypeOK
  <2>3. table' \in [Names -> Nat] /\ dead' \subseteq Nat /\ made' \in Nat
    <3>1. CASE AddObject(n)
      BY <3>1, AddType
    <3>2. CASE UNCHANGED tableVars
      BY <3>2 DEF tableVars, TypeOK
    <3>3. QED
      BY <1>7, <3>1, <3>2, LookUpTable
  <2>4. UNCHANGED <<kind, isOpen, host, changes, loads>>
    BY <1>7 DEF LookUp
  <2>5. QED
    BY <2>1, <2>2, <2>3, <2>4 DEF TypeOK
<1>8. CASE Sweep
  <2>1. table' \in [Names -> Nat] /\ dead' \subseteq Nat /\ made' \in Nat
    <3>1. CASE gui.task = "poll"
      BY <1>8, <3>1, RemoveType DEF Sweep
    <3>2. CASE gui.task # "poll"
      BY <1>8, <3>2 DEF Sweep, tableVars, TypeOK
    <3>3. QED
      BY <3>1, <3>2
  <2>2. QED
    BY <1>8, <2>1, IdleType DEF Sweep, TypeOK, budgets
<1>9. CASE close
  <2>1. loads' \in Nat
    BY <1>9 DEF close, TypeOK
  <2>2. QED
    BY <1>9, <2>1, DeleteAllType DEF close, TypeOK
<1>10. CASE reopen
  BY <1>10 DEF reopen, TypeOK, tableVars, budgets
<1>11. ASSUME NEW n \in Names, HostChanges(n) PROVE TypeOK'
  <2>1. changes' \in Nat
    BY <1>11 DEF HostChanges, TypeOK
  <2>2. host' \in [Names -> HostStates]
    BY <1>11 DEF HostChanges, TypeOK
  <2>3. gui' \in GuiStates
    BY <1>11 DEF HostChanges, TypeOK, GuiStates
  <2>4. QED
    BY <1>11, <2>1, <2>2, <2>3 DEF HostChanges, TypeOK, tableVars
<1>12. CASE UNCHANGED vars
  BY <1>12 DEF vars, tableVars, budgets, TypeOK
<1>13. QED
  BY <1>1, <1>2, <1>3, <1>4, <1>5, <1>6, <1>7, <1>8, <1>9, <1>10, <1>11, <1>12
     DEF Next, Handler

\* The variables keep their types, for all values of the constants.
THEOREM TypeCorrect == Spec => []TypeOK
<1>1. Init => TypeOK
  BY BoundsAssumption, IdleType DEF Init, TypeOK, HostStates
<1>2. QED
  BY <1>1, TypeNext, PTL DEF Spec

-----------------------------------------------------------------------------
(* The tables of a Connection implement the Roster. *)

LEMMA ClearRefines ==
  ASSUME TypeOK, DeleteAllSilently, (gui.task = "init")' \in BOOLEAN
  PROVE  Promise!Clear
  BY DEF DeleteAllSilently, Promise!Clear, Objects, Entered

LEMMA RemoveRefines ==
  ASSUME TypeOK, NEW G, G \subseteq Entered, RemoveObjects(G),
         gui.task # "init", gui'.task # "init"
  PROVE  Promise!Leave(G)
  BY DEF RemoveObjects, Promise!Leave, Objects, Entered

LEMMA AddRefines ==
  ASSUME TypeOK, NEW n \in Names, Takes(n), AddObject(n), gui'.task = gui.task
  PROVE  Promise!Enter(n)
  BY DEF AddObject, Takes, Promise!Enter, Entered

LEMMA SameRefines ==
  ASSUME UNCHANGED tableVars, (gui.task = "init")' = (gui.task = "init")
  PROVE  UNCHANGED Promise!vars
  BY DEF tableVars, Promise!vars

LEMMA StartTask ==
  ASSUME NEW task, StartLists(task)
  PROVE  gui'.task = task
  BY DEF StartLists

LEMMA ListTask ==
  ASSUME TypeOK, NEW S, NEW cap, NEW next, ListNames(S, cap, next)
  PROVE  gui'.task = gui.task
  BY DEF ListNames, TypeOK, GuiStates

LEMMA StepRefines ==
  ASSUME TypeOK, [Next]_vars
  PROVE  [Promise!Next]_(Promise!vars)
<1>1. CASE PollBegins
  <2>1. gui.task = "idle" /\ gui'.task = "poll"
    BY <1>1, StartTask DEF PollBegins
  <2>2. QED
    BY <1>1, <2>1, SameRefines DEF PollBegins
<1>2. CASE LoadBegins
  BY <1>2, ClearRefines DEF LoadBegins, Promise!Next
<1>3. CASE ListActive
  BY <1>3, ListTask, SameRefines DEF ListActive
<1>4. CASE ListInactive
  BY <1>4, ListTask, SameRefines DEF ListInactive
<1>5. CASE ListDevices
  <2>1. gui'.task = gui.task
    BY <1>5 DEF ListDevices, TypeOK, GuiStates
  <2>2. QED
    BY <1>5, <2>1, SameRefines DEF ListDevices
<1>6. CASE ListDevicesFails
  <2>1. gui'.task = "idle" /\ UNCHANGED tableVars
    BY <1>6 DEF ListDevicesFails, Idle
  <2>2. CASE gui.task = "init"
    BY <2>1, <2>2 DEF Promise!Next, Promise!Loaded, tableVars
  <2>3. CASE gui.task # "init"
    BY <2>1, <2>3, SameRefines
  <2>4. QED
    BY <2>2, <2>3
<1>7. ASSUME NEW n \in Names, LookUp(n) PROVE [Promise!Next]_(Promise!vars)
  <2>1. gui'.task = gui.task
    BY <1>7 DEF LookUp, TypeOK, GuiStates
  <2>2. CASE Takes(n) /\ AddObject(n)
    BY <2>1, <2>2, AddRefines DEF Promise!Next
  <2>3. CASE UNCHANGED tableVars
    BY <2>1, <2>3, SameRefines
  <2>4. QED
    BY <1>7, <2>2, <2>3, LookUpTable
<1>8. CASE Sweep
  <2>1. gui'.task = "idle"
    BY <1>8 DEF Sweep, Idle
  <2>2. CASE gui.task = "poll"
    <3>1. Gone(gui.seen) \subseteq Entered /\ Gone(gui.seen) \in SUBSET Names
      BY DEF Gone, Entered
    <3>2. Promise!Leave(Gone(gui.seen))
      BY <1>8, <2>1, <2>2, <3>1, RemoveRefines DEF Sweep
    <3>3. QED
      BY <3>1, <3>2 DEF Promise!Next
  <2>3. CASE gui.task = "init"
    BY <1>8, <2>1, <2>3 DEF Sweep, tableVars, Promise!Next, Promise!Loaded
  <2>4. CASE gui.task = "idle"
    BY <1>8, <2>1, <2>4, SameRefines DEF Sweep
  <2>5. QED
    BY <2>2, <2>3, <2>4 DEF TypeOK, GuiStates, Tasks
<1>9. CASE close
  BY <1>9, ClearRefines DEF close, Promise!Next
<1>10. CASE reopen
  BY <1>10, SameRefines DEF reopen
<1>11. ASSUME NEW n \in Names, HostChanges(n) PROVE [Promise!Next]_(Promise!vars)
  <2>1. gui'.task = gui.task
    BY <1>11 DEF HostChanges, TypeOK, GuiStates
  <2>2. QED
    BY <1>11, <2>1, SameRefines DEF HostChanges
<1>12. CASE UNCHANGED vars
  BY <1>12, SameRefines DEF vars
<1>13. QED
  BY <1>1, <1>2, <1>3, <1>4, <1>5, <1>6, <1>7, <1>8, <1>9, <1>10, <1>11, <1>12
     DEF Next, Handler

\* The tables of networks, pools and devices keep the promises of the Roster:
\* every behaviour of Resources is one of Roster, whatever the constants.
THEOREM ImplementsRoster == Spec => RosterSpec
<1>1. Init => Promise!Init
  BY DEF Init, Promise!Init, Idle
<1>2. QED
  BY <1>1, TypeCorrect, StepRefines, PTL DEF Spec, RosterSpec, Promise!Spec

-----------------------------------------------------------------------------
(* Devices that stay are kept. *)

\* What a poll has noted of the names that stayed, when it comes to its end.
SteadyInv ==
  /\ gui.task # "idle" => gui.stayed \subseteq Present
  /\ kind = "device" =>
       /\ gui.phase # "inactive"
       /\ gui.phase = "sweep" => gui.stayed \subseteq gui.seen

LEMMA StartSteady ==
  ASSUME NEW task, StartLists(task), UNCHANGED <<kind, host>>
  PROVE  SteadyInv'
  BY DEF StartLists, SteadyInv, Present, Active, Inactive

LEMMA SteadyNext ==
  ASSUME TypeOK, SteadyInv, [Next]_vars
  PROVE  SteadyInv'
<1> USE DEF Present, Active, Inactive
<1>1. CASE PollBegins
  BY <1>1, StartSteady DEF PollBegins
<1>2. CASE LoadBegins
  BY <1>2, StartSteady DEF LoadBegins
<1>3. CASE ListActive
  BY <1>3 DEF ListActive, ListNames, SteadyInv, TypeOK, GuiStates
<1>4. CASE ListInactive
  BY <1>4 DEF ListInactive, ListNames, SteadyInv, TypeOK, GuiStates
<1>5. CASE ListDevices
  BY <1>5 DEF ListDevices, SteadyInv, TypeOK, GuiStates
<1>6. CASE ListDevicesFails
  BY <1>6 DEF ListDevicesFails, SteadyInv, Idle
<1>7. ASSUME NEW n \in Names, LookUp(n) PROVE SteadyInv'
  BY <1>7 DEF LookUp, SteadyInv, TypeOK, GuiStates
<1>8. CASE Sweep
  BY <1>8 DEF Sweep, SteadyInv, Idle
<1>9. CASE close
  BY <1>9 DEF close, SteadyInv
<1>10. CASE reopen
  BY <1>10 DEF reopen, SteadyInv
<1>11. ASSUME NEW n \in Names, HostChanges(n) PROVE SteadyInv'
  <2>1. /\ gui'.task = gui.task /\ gui'.phase = gui.phase /\ gui'.seen = gui.seen
        /\ gui'.stayed \subseteq gui.stayed
        /\ host'[n] = "absent" => n \notin gui'.stayed
    BY <1>11 DEF HostChanges, TypeOK, GuiStates
  <2>2. kind' = kind /\ \E s \in HostStates \ {host[n]} : host' = [host EXCEPT ![n] = s]
    BY <1>11 DEF HostChanges
  <2>3. \A m \in Present : m \in Present' \/ (m = n /\ host'[n] = "absent")
    BY <2>2 DEF TypeOK, HostStates
  <2>4. QED
    BY <2>1, <2>2, <2>3 DEF SteadyInv
<1>12. CASE UNCHANGED vars
  BY <1>12 DEF vars, SteadyInv
<1>13. QED
  BY <1>1, <1>2, <1>3, <1>4, <1>5, <1>6, <1>7, <1>8, <1>9, <1>10, <1>11, <1>12
     DEF Next, Handler

LEMMA SteadyStep ==
  ASSUME TypeOK, SteadyInv, [Next]_vars, kind = "device", gui.task = "poll",
         NEW n \in gui.stayed, table[n] # 0
  PROVE  table'[n] = table[n]
<1>1. n \in Names
  BY DEF TypeOK, GuiStates
<1>2. CASE Sweep
  <2>1. n \in gui.seen
    BY <1>2 DEF Sweep, SteadyInv
  <2>2. QED
    BY <1>1, <1>2, <2>1 DEF Sweep, RemoveObjects, Gone
<1>3. ASSUME NEW m \in Names, LookUp(m) PROVE table'[n] = table[n]
  <2>1. CASE Takes(m) /\ AddObject(m)
    <3>1. m # n
      BY <1>1, <2>1 DEF Takes, Entered
    <3>2. QED
      BY <1>1, <2>1, <3>1 DEF AddObject, TypeOK
  <2>2. CASE UNCHANGED tableVars
    BY <2>2 DEF tableVars
  <2>3. QED
    BY <1>3, <2>1, <2>2, LookUpTable
<1>4. ~(PollBegins \/ LoadBegins \/ close)
  BY DEF PollBegins, LoadBegins, close
<1>5. ASSUME ~Sweep, ~ \E m \in Names : LookUp(m) PROVE table' = table
  BY <1>4, <1>5 DEF Next, Handler, ListActive, ListInactive, ListDevices,
     ListDevicesFails, reopen, HostChanges, vars, tableVars
<1>6. QED
  BY <1>2, <1>3, <1>5

\* A device that is there from the first call of a poll to its last keeps its
\* object, whatever else changes or fails.
THEOREM SteadyDevices == Spec => SteadyDeviceKept
<1>1. Init => SteadyInv
  BY DEF Init, SteadyInv, Idle
<1>2. TypeOK /\ SteadyInv /\ [Next]_vars =>
        (kind = "device" /\ gui.task = "poll" =>
           \A n \in gui.stayed : table[n] # 0 => table'[n] = table[n])
  BY SteadyStep
<1>3. QED
  BY <1>1, <1>2, SteadyNext, TypeCorrect, PTL DEF Spec, SteadyDeviceKept

-----------------------------------------------------------------------------
(* An undisturbed poll is exact. *)

\* Nothing changed and no call failed since the poll began.
Quiet == gui.task = "poll" /\ gui.budget = changes + faults

\* What an undisturbed poll has gathered when it is about to make its next call.
Gathered ==
  /\ gui.todo \subseteq gui.seen /\ gui.seen \ gui.todo \subseteq Entered
  /\ CASE gui.phase = "active" -> /\ gui.seen = {}
                                  /\ kind # "device" =>
                                       /\ gui.actives = Cardinality(Active)
                                       /\ gui.inactives = Cardinality(Inactive)
       [] gui.phase = "inactive" -> /\ gui.seen = Active
                                    /\ gui.inactives = Cardinality(Inactive)
       [] OTHER -> gui.seen = Present

QuietInv == /\ gui.task = "poll" => gui.budget >= changes + faults
            /\ Quiet => Gathered

\* A list call into a buffer that fits, and that used up no failure, is whole.
LEMMA WholeList ==
  ASSUME TypeOK, NEW S, S \subseteq Names, NEW r \in Lists(S, Cardinality(S))
  PROVE  r[2] <= faults /\ (r[2] = faults => r[1] = S)
<1>1. Cardinality(S) \in Nat
  BY Cards
<1>2. faults \in Nat
  BY DEF TypeOK
<1>3. QED
  BY <1>1, <1>2 DEF Lists

LEMMA FewerFaults ==
  ASSUME TypeOK, NEW S, NEW cap, NEW r \in Lists(S, cap)
  PROVE  r[2] \in Nat /\ r[2] <= faults
  BY DEF Lists, TypeOK

LEMMA StartQuiet ==
  ASSUME TypeOK, NEW task, StartLists(task), UNCHANGED <<kind, table, host, changes>>
  PROVE  QuietInv'
<1>1. PICK a \in Counts(Active), i \in Counts(Inactive) :
        /\ a[2] + i[2] <= faults
        /\ faults' = faults - a[2] - i[2]
        /\ gui' = [task |-> task, phase |-> "active", actives |-> a[1],
                   inactives |-> i[1], todo |-> {}, seen |-> {},
                   budget |-> changes + faults, stayed |-> Present]
  BY DEF StartLists
<1>2. /\ a[2] \in 0..1 /\ (a[2] = 0 => a[1] = Cardinality(Active))
      /\ i[2] \in 0..1 /\ (i[2] = 0 => i[1] = Cardinality(Inactive))
  BY DEF Counts
<1>3. changes \in Nat /\ faults \in Nat
  BY DEF TypeOK
<1>4. gui'.budget >= changes' + faults'
  BY <1>1, <1>2, <1>3
<1>5. Active' = Active /\ Inactive' = Inactive
  BY DEF Active, Inactive
<1>6. ASSUME Quiet' PROVE Gathered'
  <2>1. a[2] = 0 /\ i[2] = 0
    BY <1>1, <1>2, <1>3, <1>6 DEF Quiet
  <2>2. QED
    BY <1>1, <1>2, <1>5, <2>1 DEF Gathered
<1>7. QED
  BY <1>4, <1>6 DEF QuietInv

LEMMA QuietNext ==
  ASSUME TypeOK, SteadyInv, QuietInv, [Next]_vars
  PROVE  QuietInv'
<1> USE DEF Present
<1>a. changes \in Nat /\ faults \in Nat /\ gui.budget \in Nat /\ Active \subseteq Names
      /\ Inactive \subseteq Names
  BY DEF TypeOK, GuiStates, Active, Inactive
<1>1. CASE PollBegins
  BY <1>1, StartQuiet DEF PollBegins, tableVars
<1>2. CASE LoadBegins
  BY <1>2, StartTask DEF LoadBegins, QuietInv, Quiet
<1>3. CASE ListActive
  <2>1. PICK r \in Lists(Active, gui.actives) :
          /\ gui' = [gui EXCEPT !.phase = "inactive", !.todo = r[1], !.seen = @ \cup r[1]]
          /\ faults' = r[2]
    BY <1>3 DEF ListActive, ListNames
  <2>2. /\ gui'.task = gui.task /\ gui'.budget = gui.budget /\ gui'.phase = "inactive"
        /\ gui'.todo = r[1] /\ gui'.seen = gui.seen \cup r[1]
        /\ gui'.inactives = gui.inactives
    BY <2>1 DEF TypeOK, GuiStates
  <2>3. r[2] \in Nat /\ r[2] <= faults /\ changes' = changes
    BY <1>3, FewerFaults DEF ListActive
  <2>4. gui'.task = "poll" => gui'.budget >= changes' + faults'
    BY <1>a, <2>1, <2>2, <2>3 DEF QuietInv
  <2>5. ASSUME Quiet' PROVE Gathered'
    <3>1. Quiet /\ r[2] = faults
      BY <1>a, <2>1, <2>2, <2>3, <2>5 DEF Quiet, QuietInv
    <3>2. gui.seen = {} /\ gui.actives = Cardinality(Active)
          /\ gui.inactives = Cardinality(Inactive)
      BY <1>3, <3>1 DEF QuietInv, Gathered, ListActive
    <3>3. r[1] = Active
      BY <1>a, <2>1, <3>1, <3>2, WholeList
    <3>4. Active' = Active /\ Inactive' = Inactive
      BY <1>3 DEF ListActive, Active, Inactive
    <3>5. QED
      BY <2>2, <3>2, <3>3, <3>4 DEF Gathered
  <2>6. QED
    BY <2>4, <2>5 DEF QuietInv
<1>4. CASE ListInactive
  <2>1. PICK r \in Lists(Inactive, gui.inactives) :
          /\ gui' = [gui EXCEPT !.phase = "sweep", !.todo = r[1], !.seen = @ \cup r[1]]
          /\ faults' = r[2]
    BY <1>4 DEF ListInactive, ListNames
  <2>2. /\ gui'.task = gui.task /\ gui'.budget = gui.budget /\ gui'.phase = "sweep"
        /\ gui'.todo = r[1] /\ gui'.seen = gui.seen \cup r[1]
    BY <2>1 DEF TypeOK, GuiStates
  <2>3. r[2] \in Nat /\ r[2] <= faults /\ changes' = changes
    BY <1>4, FewerFaults DEF ListInactive
  <2>4. gui'.task = "poll" => gui'.budget >= changes' + faults'
    BY <1>a, <2>1, <2>2, <2>3 DEF QuietInv
  <2>5. ASSUME Quiet' PROVE Gathered'
    <3>1. Quiet /\ r[2] = faults
      BY <1>a, <2>1, <2>2, <2>3, <2>5 DEF Quiet, QuietInv
    <3>2. gui.seen = Active /\ gui.inactives = Cardinality(Inactive)
          /\ gui.todo = {} /\ gui.seen \subseteq Entered
      BY <1>4, <3>1 DEF QuietInv, Gathered, ListInactive
    <3>3. r[1] = Inactive
      BY <1>a, <2>1, <3>1, <3>2, WholeList
    <3>4. Active' = Active /\ Inactive' = Inactive /\ Entered' = Entered
      BY <1>4 DEF ListInactive, Active, Inactive, Entered, tableVars
    <3>5. QED
      BY <2>2, <3>2, <3>3, <3>4 DEF Gathered
  <2>6. QED
    BY <2>4, <2>5 DEF QuietInv
<1>5. CASE ListDevices
  BY <1>5 DEF ListDevices, QuietInv, Quiet, Gathered, TypeOK, GuiStates, Active,
     Inactive, Entered, budgets, tableVars
<1>6. CASE ListDevicesFails
  BY <1>6 DEF ListDevicesFails, QuietInv, Quiet, Idle
<1>7. ASSUME NEW n \in Names, LookUp(n) PROVE QuietInv'
  <2>1. /\ gui'.task = gui.task /\ gui'.budget = gui.budget /\ gui'.phase = gui.phase
        /\ gui'.todo = gui.todo \ {n} /\ gui'.seen = gui.seen
        /\ gui'.inactives = gui.inactives /\ gui'.actives = gui.actives
    BY <1>7 DEF LookUp, TypeOK, GuiStates
  <2>2. UNCHANGED <<kind, host, changes>> /\ faults' \in {faults, faults - 1}
    BY <1>7 DEF LookUp
  <2>3. gui'.task = "poll" => gui'.budget >= changes' + faults'
    BY <1>a, <2>1, <2>2 DEF QuietInv
  <2>4. ASSUME Quiet' PROVE Gathered'
    <3>1. Quiet /\ faults' = faults
      <4>1. gui.task = "poll" /\ gui.budget = changes + faults'
        BY <2>1, <2>2, <2>4 DEF Quiet
      <4>2. gui.budget >= changes + faults
        BY <4>1 DEF QuietInv
      <4>3. faults' = faults \/ faults' = faults - 1
        BY <2>2
      <4>4. ~(faults' = faults - 1)
        BY <1>a, <4>1, <4>2
      <4>5. QED
        BY <4>1, <4>3, <4>4 DEF Quiet
    <3>2. Gathered
      BY <3>1 DEF QuietInv
    <3>3. n \in Present
      BY <1>7, <3>2 DEF LookUp, Gathered
    <3>4. \/ Takes(n) /\ AddObject(n)
          \/ ~Takes(n) /\ UNCHANGED tableVars
      BY <1>7, <1>a, <3>1, <3>3 DEF LookUp
    <3>5. Entered \cup {n} \subseteq Entered'
      BY <3>1, <3>4, <1>7 DEF AddObject, Takes, Entered, TypeOK, tableVars, Quiet
    <3>6. Active' = Active /\ Inactive' = Inactive
      BY <2>2 DEF Active, Inactive
    <3>7. QED
      BY <2>1, <2>2, <3>2, <3>5, <3>6 DEF Gathered
  <2>5. QED
    BY <2>3, <2>4 DEF QuietInv
<1>8. CASE Sweep
  BY <1>8 DEF Sweep, QuietInv, Quiet, Idle
<1>9. CASE close
  BY <1>9 DEF close, QuietInv, Quiet
<1>10. CASE reopen
  BY <1>10 DEF reopen, QuietInv, Quiet, Gathered, Active, Inactive, Entered,
     tableVars, budgets
<1>11. ASSUME NEW n \in Names, HostChanges(n) PROVE QuietInv'
  <2>1. gui'.task = gui.task /\ gui'.budget = gui.budget
    BY <1>11 DEF HostChanges, TypeOK, GuiStates
  <2>2. changes' = changes - 1 /\ faults' = faults
    BY <1>11 DEF HostChanges
  <2>3. gui.task = "poll" => gui'.budget > changes' + faults'
    BY <1>a, <2>1, <2>2 DEF QuietInv
  <2>4. changes' + faults' \in Int
    BY <1>a, <2>2
  <2>5. QED
    BY <1>a, <2>1, <2>3, <2>4 DEF QuietInv, Quiet
<1>12. CASE UNCHANGED vars
  BY <1>12 DEF vars, QuietInv, Quiet, Gathered, Active, Inactive, Entered,
     tableVars, budgets
<1>13. QED
  BY <1>1, <1>2, <1>3, <1>4, <1>5, <1>6, <1>7, <1>8, <1>9, <1>10, <1>11, <1>12
     DEF Next, Handler

LEMMA QuietStep ==
  ASSUME TypeOK, QuietInv, [Next]_vars, gui.task = "poll", gui'.task = "idle",
         gui.budget = changes' + faults'
  PROVE  Entered' = Present'
<1>1. changes \in Nat /\ faults \in Nat /\ gui.budget \in Nat
  BY DEF TypeOK, GuiStates
<1>2. CASE Sweep
  <2>1. Quiet
    BY <1>2 DEF Sweep, Quiet, budgets
  <2>2. gui.seen = Present /\ gui.seen \subseteq Entered
    BY <1>2, <2>1 DEF QuietInv, Gathered, Sweep
  <2>3. Entered' = Entered \cap gui.seen
    BY <1>2 DEF Sweep, RemoveObjects, Gone, Entered, TypeOK
  <2>4. Present' = Present
    BY <1>2 DEF Sweep, Present, Active, Inactive
  <2>5. QED
    BY <2>2, <2>3, <2>4
<1>3. CASE ListDevicesFails
  BY <1>1, <1>3 DEF ListDevicesFails, QuietInv
<1>4. ASSUME NEW S, NEW cap, NEW next, ListNames(S, cap, next) PROVE FALSE
  BY <1>4, ListTask
<1>5. ASSUME NEW n \in Names, LookUp(n) \/ HostChanges(n) PROVE FALSE
  BY <1>5 DEF LookUp, HostChanges, TypeOK, GuiStates
<1>6. ~ListDevices
  BY DEF ListDevices, TypeOK, GuiStates
<1>7. QED
  BY <1>2, <1>3, <1>4, <1>5, <1>6 DEF Next, Handler, PollBegins, LoadBegins,
     ListActive, ListInactive, close, reopen, vars

\* A poll that met no failure and no change leaves exactly the host's entries
\* in the table.
THEOREM QuietPolls == Spec => QuietPollExact
<1>1. Init => SteadyInv /\ QuietInv
  BY DEF Init, SteadyInv, QuietInv, Quiet, Idle
<1>2. TypeOK /\ QuietInv /\ [Next]_vars =>
        (gui.task = "poll" /\ gui'.task = "idle" /\ gui.budget = changes' + faults'
           => Entered' = Present')
  BY QuietStep
<1>3. QED
  BY <1>1, <1>2, SteadyNext, QuietNext, TypeCorrect, PTL DEF Spec, QuietPollExact

-----------------------------------------------------------------------------
(* What the promises of the Roster amount to. *)

RosterTypes == /\ table \in [Names -> Nat] /\ made \in Nat
               /\ \A d \in dead : d \in 1..made

\* Every name in a table has an object of its own that lives: no poll, load or
\* close leaves a deleted object in a table, or one object under two names.
THEOREM TablesSound == Spec => []Promise!Sound
<1> DEFINE Inv == RosterTypes /\ Promise!Sound
<1>1. Promise!Init => Inv
  BY DEF Promise!Init, RosterTypes, Promise!Sound
<1>2. ASSUME Inv, [Promise!Next]_(Promise!vars) PROVE Inv'
  <2>1. ASSUME NEW n \in Names, Promise!Enter(n) PROVE Inv'
    BY <1>2, <2>1 DEF Promise!Enter, RosterTypes, Promise!Sound
  <2>2. ASSUME NEW G \in SUBSET Names, Promise!Leave(G) PROVE Inv'
    BY <1>2, <2>2 DEF Promise!Leave, RosterTypes, Promise!Sound
  <2>3. CASE Promise!Clear
    BY <1>2, <2>3 DEF Promise!Clear, RosterTypes, Promise!Sound
  <2>4. CASE Promise!Loaded
    BY <1>2, <2>4 DEF Promise!Loaded, RosterTypes, Promise!Sound
  <2>5. CASE UNCHANGED Promise!vars
    BY <1>2, <2>5 DEF Promise!vars, RosterTypes, Promise!Sound
  <2>6. QED
    BY <1>2, <2>1, <2>2, <2>3, <2>4, <2>5 DEF Promise!Next
<1>3. Inv => Promise!Sound
  OBVIOUS
<1>4. QED
  BY <1>1, <1>2, <1>3, ImplementsRoster, PTL DEF RosterSpec, Promise!Spec
=============================================================================
