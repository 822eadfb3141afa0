--------------------------- MODULE ResourceDialog ---------------------------
(***************************************************************************)
(* The dialogs that show a connection's storage pools and their volumes     *)
(* (src/src/ui/dialogs/StoragePoolDialog.cpp) and its virtual networks      *)
(* (NetworkDialog.cpp), with the StoragePool, StorageVolume and Network     *)
(* objects they call.  The two are built alike; kind says which one is open.*)
(*                                                                          *)
(* A dialog keeps plain pointers into tables it does not own.  It asks      *)
(* before it destroys anything, and while a question, a menu or a box is up *)
(* the event loop runs on: a poll may delete the object that is asked       *)
(* about.  The polls are here as Resources shows them to be: an entry       *)
(* leaves the table with its object, and comes back with another.           *)
(*                                                                          *)
(* A pointer is the name of its object and whether that object lives (and,  *)
(* for a property only, whether the entry was defined when it was selected: *)
(* a list goes on showing a deleted entry until the next poll).  A volume   *)
(* object is a child of the pool object it was listed from.                 *)
(*                                                                          *)
(* A definition marked "Slip:" is not the code: it is the form an easy      *)
(* mistake would give to the definition after it, kept to show that the     *)
(* properties tell the two apart.                                           *)
(***************************************************************************)
EXTENDS Naturals, FiniteSets

CONSTANTS Names,        \* names of the pools or networks
          Vols,         \* names of volumes
          None,         \* no pointer, no object, no question
          MaxVols,      \* bound: volumes on the host
          MaxTroubles   \* bound: changes made by other clients, failed calls

ASSUME BoundsAssumption == MaxVols \in Nat /\ MaxTroubles \in Nat

VARIABLES kind,         \* "pool" or "network"
          isOpen,       \* the connection is open
          wrap,         \* the object of each name in the connection's table
          cur,          \* m_currentPool, m_currentNetwork
          vol,          \* m_currentVolume
          rows, vrows,  \* names in the list of pools or networks, of volumes
          offers,       \* what the buttons offer: see Offers
          canCreate,    \* m_btnVolumeCreate is enabled
          volButtons,   \* the other buttons of a volume are
          ask,          \* the menu, question or box that is up
          crashed,      \* a deleted object was used: the program is undefined
          host,         \* the pools or networks of the host
          vols, data,   \* the volumes of the host, those that hold data
          troubles      \* budget left

objVars == <<kind, isOpen, wrap>>
buttons == <<offers, canCreate, volButtons>>
viewVars == <<rows, vrows, buttons>>
hostVars == <<host, vols, data>>
vars == <<objVars, cur, vol, viewVars, ask, crashed, hostVars, troubles>>

HostStates == {"absent", "inactive", "active", "transient"}
Objects == [valid : BOOLEAN,        \* the entry it was made for is still there
            m_active : BOOLEAN,
            m_state : {"Inactive", "Running", "Degraded"}]

\* Start and Delete, or Stop and Refresh; at first nothing.
Offers == {"nothing", "start", "stop"}
Up == {"menu", "stop", "delete", "create", "upload", "remove", "wipe", "wiped",
       "clone", "cloned", "download"}

Pairs == Names \X Vols

Pointers == [n : Names, alive : BOOLEAN, defined : BOOLEAN]
VolPointers == [n : Names, v : Vols, alive : BOOLEAN]
Prompts == [what : Up, n : Names, v : Vols \cup {None}, offers : Offers, alive : BOOLEAN]
ASSUME NoneAssumption == None \notin Objects \cup Pointers \cup VolPointers \cup Prompts

Running(n) == host[n] \in {"active", "transient"}

TypeOK ==
  /\ kind \in {"pool", "network"} /\ isOpen \in BOOLEAN
  /\ wrap \in [Names -> Objects \cup {None}]
  /\ cur \in Pointers \cup {None} /\ vol \in VolPointers \cup {None}
  /\ rows \subseteq Names /\ vrows \subseteq Vols
  /\ offers \in Offers /\ canCreate \in BOOLEAN /\ volButtons \in BOOLEAN
  /\ ask \in Prompts \cup {None}
  /\ crashed \in BOOLEAN
  /\ host \in [Names -> HostStates] /\ vols \subseteq Pairs /\ data \subseteq vols
  /\ troubles \in Nat

-----------------------------------------------------------------------------
(* The objects. *)

\* StoragePool: virStoragePoolInfo.state cast to PoolState.  libvirt numbers a
\* running pool 2, which is StateDegraded here.
InfoState(s) == IF s \in {"active", "transient"} THEN "Degraded" ELSE "Inactive"

\* What isActive() alone says.
ActiveState(s) == IF s \in {"active", "transient"} THEN "Running" ELSE "Inactive"

\* A new object, or one brought up to date by updateInfo().  A pool asks twice,
\* and the second answer, if it comes, overrides the first.
ObjectOf(n, infoFails) ==
  [valid |-> TRUE, m_active |-> Running(n),
   m_state |-> IF kind = "pool" /\ ~infoFails THEN InfoState(host[n])
                                              ELSE ActiveState(host[n])]

Reads(n) == \E infoFails \in BOOLEAN :
              /\ infoFails => kind = "pool" /\ troubles > 0
              /\ wrap' = [wrap EXCEPT ![n] = ObjectOf(n, infoFails)]
              /\ troubles' = IF infoFails THEN troubles - 1 ELSE troubles

\* libvirt knows an object by the entry it was made for: one that was undefined
\* and defined again is another.
Reaches(n) == wrap[n].valid /\ host[n] # "absent"

\* What becomes of the objects when the host has h.
Outdated(h) == [n \in Names |-> IF wrap[n] # None /\ h[n] = "absent"
                                THEN [wrap[n] EXCEPT !.valid = FALSE] ELSE wrap[n]]

\* StoragePool::volumes(): an object that takes its pool for stopped asks nothing.
VolumesOf(n) == {v \in Vols : /\ wrap[n] # None /\ wrap[n].m_active /\ Reaches(n)
                              /\ Running(n) /\ <<n, v>> \in vols}

-----------------------------------------------------------------------------
(* What the dialog shows. *)

OpenDialog ==
  /\ cur' = None /\ vol' = None /\ ask' = None
  /\ rows' = {n \in Names : wrap[n] # None} /\ vrows' = {}
  /\ offers' = "nothing" /\ canCreate' = FALSE /\ volButtons' = FALSE

Init ==
  /\ kind \in {"pool", "network"} /\ isOpen = TRUE
  /\ host \in [Names -> {"inactive", "active"}]
  /\ vols \in {{p} : p \in Pairs} \cup {{}} /\ (kind = "network" => vols = {})
  /\ data = vols
  /\ wrap = [n \in Names |-> ObjectOf(n, FALSE)]
  /\ cur = None /\ vol = None /\ ask = None
  /\ rows = Names /\ vrows = {}
  /\ offers = "nothing" /\ canCreate = FALSE /\ volButtons = FALSE
  /\ crashed = FALSE
  /\ troubles = MaxTroubles

\* updatePoolInfo(), updateNetworkInfo(): the buttons follow m_state.
OffersOf(w) == IF w.m_state = "Running" THEN "stop" ELSE "start"

Question(what) == [what |-> what, n |-> cur.n, v |-> None, offers |-> "nothing",
                   alive |-> TRUE]
VolumeQuestion(what) == [what |-> what, n |-> vol.n, v |-> vol.v,
                         offers |-> "nothing", alive |-> TRUE]

PointerTo(n) == [n |-> n, alive |-> TRUE,
                 defined |-> wrap[n].valid /\ host[n] \in {"inactive", "active"}]
Alive(p) == p # None /\ p.alive
Dead(p) == p # None /\ ~p.alive
Quiet == ask = None /\ ~crashed

-----------------------------------------------------------------------------
(* Selecting. *)

\* onPoolSelected(), onNetworkSelected(): the row's name is looked for among the
\* objects of now.  The volume stays what it was.
Select(n) ==
  /\ Quiet /\ n \in rows /\ wrap[n] # None
  /\ cur' = PointerTo(n)
  /\ offers' = OffersOf(wrap[n])
  /\ IF kind = "pool" THEN /\ canCreate' = (wrap[n].m_state = "Running")
                           /\ vrows' = VolumesOf(n)
                      ELSE UNCHANGED <<canCreate, vrows>>
  /\ UNCHANGED <<objVars, vol, rows, volButtons, ask, crashed, hostVars, troubles>>

\* onVolumeSelected(): the row's name is looked for in the current pool, which
\* need not be the one the rows were listed from.
SelectVolume(v) ==
  /\ Quiet /\ kind = "pool" /\ v \in vrows /\ Alive(cur)
  /\ v \in VolumesOf(cur.n)
  /\ vol' = [n |-> cur.n, v |-> v, alive |-> TRUE]
  /\ volButtons' = TRUE
  /\ UNCHANGED <<objVars, cur, rows, vrows, offers, canCreate, ask, crashed, hostVars,
                 troubles>>

\* onContextMenuRequested(): the pools' menu makes the row's pool the current
\* one and leaves the buttons; the networks' menu leaves the current network.
Menu(n) ==
  /\ Quiet /\ n \in rows
  /\ IF kind = "pool"
     THEN /\ cur' = IF wrap[n] = None THEN None ELSE PointerTo(n)
          /\ ask' = IF wrap[n] = None THEN None
                    ELSE [what |-> "menu", n |-> n, v |-> None,
                          offers |-> OffersOf(wrap[n]), alive |-> TRUE]
     ELSE /\ cur' = cur
          /\ ask' = [what |-> "menu", n |-> n, v |-> None, offers |-> "nothing",
                     alive |-> TRUE]
  /\ UNCHANGED <<objVars, vol, viewVars, crashed, hostVars, troubles>>

\* A menu or question is dismissed, or answered with No or Cancel.
Dismiss ==
  /\ ~crashed /\ ask # None /\ ask.what \notin {"wiped", "cloned"}
  /\ ask' = None
  /\ UNCHANGED <<objVars, cur, vol, viewVars, crashed, hostVars, troubles>>

\* A button, or an entry of the menu; the networks' menu enables all of its own.
Triggered(offer) ==
  /\ ~crashed /\ cur # None
  /\ \/ ask = None /\ offers = offer
     \/ ask # None /\ ask.what = "menu" /\ (kind = "network" \/ ask.offers = offer)

-----------------------------------------------------------------------------
(* Pools and networks. *)

\* onPoolStart(), onNetworkStart(): m_state stays what it was, and the buttons
\* with it.
Start ==
  /\ Triggered("start") /\ Alive(cur)
  /\ ask' = None
  /\ IF Reaches(cur.n) /\ host[cur.n] = "inactive"
     THEN /\ host' = [host EXCEPT ![cur.n] = "active"]
          /\ wrap' = [wrap EXCEPT ![cur.n].m_active = TRUE]
          /\ offers' = OffersOf(wrap[cur.n])
          /\ vrows' = {v \in Vols : kind = "pool" /\ <<cur.n, v>> \in vols}
     ELSE UNCHANGED <<host, wrap, offers, vrows>>
  /\ UNCHANGED <<kind, isOpen, cur, vol, rows, canCreate, volButtons,
                 crashed, vols, data, troubles>>

\* onPoolRefresh() makes libvirt scan the pool again; onNetworkRefresh() reads
\* the network's state.
Refresh ==
  /\ Triggered("stop") /\ Alive(cur)
  /\ ask' = None
  /\ IF kind = "network"
     THEN /\ wrap' = [wrap EXCEPT ![cur.n] =
                        [valid |-> wrap[cur.n].valid,
                         m_active |-> Reaches(cur.n) /\ Running(cur.n),
                         m_state |-> IF Reaches(cur.n) THEN ActiveState(host[cur.n])
                                                       ELSE "Inactive"]]
          /\ offers' = OffersOf(wrap'[cur.n]) /\ UNCHANGED vrows
     ELSE /\ UNCHANGED wrap
          /\ IF Reaches(cur.n) /\ Running(cur.n)
             THEN offers' = OffersOf(wrap[cur.n]) /\ vrows' = VolumesOf(cur.n)
             ELSE UNCHANGED <<offers, vrows>>
  /\ UNCHANGED <<kind, isOpen, cur, vol, rows, canCreate, volButtons,
                 crashed, hostVars, troubles>>

\* onPoolStop(), onPoolDelete() and their like ask first.
Asks(what) ==
  /\ Triggered(IF what = "stop" THEN "stop" ELSE "start") /\ Alive(cur)
  /\ ask' = Question(what)
  /\ UNCHANGED <<objVars, cur, vol, viewVars, crashed, hostVars, troubles>>

Yes(what) == ~crashed /\ ask # None /\ ask.what = what

Stop ==
  /\ Yes("stop") /\ Alive(cur)
  /\ ask' = None
  /\ IF Reaches(cur.n) /\ Running(cur.n)
     THEN /\ host' = [host EXCEPT ![cur.n] =
                        IF @ = "transient" THEN "absent" ELSE "inactive"]
          /\ wrap' = [Outdated(host') EXCEPT ![cur.n].m_active = FALSE]
          /\ offers' = OffersOf(wrap[cur.n])
     ELSE UNCHANGED <<host, wrap, offers>>
  /\ UNCHANGED <<kind, isOpen, cur, vol, rows, vrows, canCreate, volButtons, crashed,
                 vols, data, troubles>>

\* Slip: the pointer to the deleted pool is kept.
KeepCurrent == cur' = cur

DropCurrent == cur' = None

\* virStoragePoolUndefine refuses a running pool; virNetworkUndefine leaves a
\* running network transient.
Undefined(s) == IF s = "inactive" THEN "absent" ELSE "transient"

\* onPoolDelete(), onNetworkDelete(): the pointer is dropped with the entry.
Delete ==
  /\ Yes("delete") /\ Alive(cur)
  /\ ask' = None
  /\ IF Reaches(cur.n) /\ host[cur.n] \in {"inactive"}
                            \cup (IF kind = "network" THEN {"active"} ELSE {})
     THEN /\ host' = [host EXCEPT ![cur.n] = Undefined(@)]
          /\ wrap' = Outdated(host')
          /\ DropCurrent
          /\ rows' = {n \in Names : wrap[n] # None}
     ELSE UNCHANGED <<host, wrap, cur, rows>>
  /\ UNCHANGED <<kind, isOpen, vol, vrows, buttons, crashed, vols, data,
                 troubles>>

\* onRefresh(): both lists and both labels, from the objects of now.
RefreshList ==
  /\ Quiet /\ ~Dead(cur) /\ ~Dead(vol)
  /\ rows' = {n \in Names : wrap[n] # None}
  /\ IF cur = None THEN UNCHANGED <<vrows, offers>>
     ELSE /\ offers' = OffersOf(wrap[cur.n])
          /\ vrows' = IF kind = "pool" THEN VolumesOf(cur.n) ELSE vrows
  /\ UNCHANGED <<objVars, cur, vol, canCreate, volButtons, ask, crashed, hostVars,
                 troubles>>

-----------------------------------------------------------------------------
(* Volumes.  Every handler starts with a box or a question, and many end in
   updateVolumeList(), which goes through the current pool. *)

\* The volume buttons are enabled with the first selection and stay so.
AsksVolume(what) ==
  /\ Quiet /\ Alive(vol)
  /\ ask' = VolumeQuestion(what)
  /\ UNCHANGED <<objVars, cur, vol, viewVars, crashed, hostVars, troubles>>

\* CreateVolumeDialog, or the file and the name to upload.
AsksNewVolume(what) ==
  /\ Quiet /\ kind = "pool" /\ Alive(cur)
  /\ IF what = "create" THEN canCreate ELSE volButtons
  /\ ask' = Question(what)
  /\ UNCHANGED <<objVars, cur, vol, viewVars, crashed, hostVars, troubles>>

MayAdd == Cardinality(vols) < MaxVols

\* onVolumeUpload(): virStorageVolCreateXML, then virStorageVolDownload into the
\* file that is to be uploaded, which was opened for reading: the volume is made
\* and stays empty, and the handler says it failed (a file of some length is
\* meant) without listing the volumes again.
Uploaded(v) == vols' = vols \cup {<<cur.n, v>>} /\ UNCHANGED vrows

\* onVolumeCreate()
Created(v) == /\ vols' = vols \cup {<<cur.n, v>>}
              /\ vrows' = {w \in Vols : wrap[cur.n].m_active /\ <<cur.n, w>> \in vols'}

NewVolume(v) ==
  /\ Yes("create") \/ Yes("upload")
  /\ Alive(cur)
  /\ ask' = None
  /\ IF Reaches(cur.n) /\ Running(cur.n) /\ <<cur.n, v>> \notin vols /\ MayAdd
     THEN IF ask.what = "upload" THEN Uploaded(v) ELSE Created(v)
     ELSE UNCHANGED <<vols, vrows>>
  /\ UNCHANGED <<objVars, cur, vol, rows, buttons, crashed, host, data, troubles>>

\* updateVolumeList() with the volumes there now.
ListsAfter(V) ==
  vrows' = IF cur = None THEN vrows
           ELSE {v \in Vols : /\ wrap[cur.n].m_active /\ Reaches(cur.n)
                              /\ Running(cur.n) /\ <<cur.n, v>> \in V}

\* Slip: the volume of that name in the current pool.
TargetInCurrent == IF cur # None THEN <<cur.n, vol.v>> ELSE <<vol.n, vol.v>>

\* The volume an operation acts upon.
Target == <<vol.n, vol.v>>

\* libvirt finds the volume by its key, as long as its pool runs.
VolumeThere(p) == p \in vols /\ Running(p[1])

\* onVolumeDelete()
RemoveVolume ==
  /\ Yes("remove") /\ Alive(vol)
  /\ ask' = None
  /\ IF VolumeThere(Target)
     THEN /\ vols' = vols \ {Target} /\ data' = data \ {Target}
          /\ vol' = None
          /\ IF Dead(cur) THEN crashed' = TRUE /\ UNCHANGED vrows
                          ELSE ListsAfter(vols') /\ UNCHANGED crashed
     ELSE UNCHANGED <<vols, data, vol, crashed, vrows>>
  /\ UNCHANGED <<objVars, cur, rows, buttons, host, troubles>>

\* onVolumeWipe() up to the box that says so.
WipeVolume ==
  /\ Yes("wipe") /\ Alive(vol)
  /\ IF VolumeThere(Target) THEN data' = data \ {Target} /\ ask' = VolumeQuestion("wiped")
                            ELSE UNCHANGED data /\ ask' = None
  /\ UNCHANGED <<objVars, cur, vol, viewVars, crashed, host, vols, troubles>>

\* onVolumeClone() up to the box that says so.  The object of the clone is a
\* child of the pool object, like that of the volume it was cloned from.
CloneVolume(v) ==
  /\ Yes("clone") /\ Alive(vol)
  /\ IF VolumeThere(Target) /\ wrap[vol.n].valid /\ <<vol.n, v>> \notin vols
        /\ MayAdd
     THEN /\ vols' = vols \cup {<<vol.n, v>>}
          /\ data' = data \cup (IF Target \in data THEN {<<vol.n, v>>} ELSE {})
          /\ ask' = VolumeQuestion("cloned")
     ELSE UNCHANGED <<vols, data>> /\ ask' = None
  /\ UNCHANGED <<objVars, cur, vol, viewVars, crashed, host, troubles>>

\* The box is closed: the clone's object is deleted, and the volumes listed.
CloseBox ==
  /\ Yes("wiped") \/ Yes("cloned")
  /\ ask' = None
  /\ IF Dead(cur) \/ (ask.what = "cloned" /\ ~ask.alive)
     THEN crashed' = TRUE /\ UNCHANGED vrows
     ELSE ListsAfter(vols) /\ UNCHANGED crashed
  /\ UNCHANGED <<objVars, cur, vol, rows, buttons, hostVars, troubles>>

\* onVolumeDownload() writes to a file of the user's.
Download ==
  /\ Yes("download") /\ Alive(vol)
  /\ ask' = None
  /\ UNCHANGED <<objVars, cur, vol, viewVars, crashed, hostVars, troubles>>

-----------------------------------------------------------------------------
(* Deleted objects. *)

\* Any button, the lists' Refresh at least, goes through a pointer that dangles.
ClickOnDeleted ==
  /\ Quiet /\ (Dead(cur) \/ Dead(vol))
  /\ crashed' = TRUE
  /\ UNCHANGED <<objVars, cur, vol, viewVars, ask, hostVars, troubles>>

\* The object was deleted while the question about it, or the menu, was up.
AnswerOnDeleted ==
  /\ ~crashed /\ ask # None
  /\ \/ ask.what \in {"menu", "stop", "delete", "create", "upload"} /\ Dead(cur)
     \/ ask.what \in {"remove", "wipe", "clone", "download"} /\ Dead(vol)
  /\ crashed' = TRUE /\ ask' = None
  /\ UNCHANGED <<objVars, cur, vol, viewVars, hostVars, troubles>>

CloseDialog ==
  /\ Quiet
  /\ OpenDialog
  /\ UNCHANGED <<objVars, crashed, hostVars, troubles>>

-----------------------------------------------------------------------------
(* The connection and the host. *)

\* The pointers that dangle once the objects of N are deleted.
Dangle(N) ==
  /\ cur' = IF cur # None /\ cur.n \in N THEN [cur EXCEPT !.alive = FALSE] ELSE cur
  /\ vol' = IF vol # None /\ vol.n \in N THEN [vol EXCEPT !.alive = FALSE] ELSE vol
  /\ ask' = IF ask # None /\ ask.n \in N THEN [ask EXCEPT !.alive = FALSE] ELSE ask

\* A poll deletes the object of a name that is gone, that a failed list call did
\* not return, or that moved from one list to the other between the two calls.
PollDrops(n) ==
  /\ ~crashed /\ isOpen /\ wrap[n] # None
  /\ wrap' = [wrap EXCEPT ![n] = None]
  /\ Dangle({n})
  /\ \/ host[n] = "absent" /\ UNCHANGED <<host, troubles>>
     \/ troubles > 0 /\ troubles' = troubles - 1 /\ UNCHANGED host
     \/ /\ troubles > 0 /\ troubles' = troubles - 1 /\ host[n] = "active"
        /\ host' = [host EXCEPT ![n] = "inactive"]
  /\ UNCHANGED <<kind, isOpen, viewVars, crashed, vols, data>>

PollAdds(n) ==
  /\ ~crashed /\ isOpen /\ wrap[n] = None /\ host[n] # "absent"
  /\ Reads(n)
  /\ UNCHANGED <<kind, isOpen, cur, vol, viewVars, ask, crashed, hostVars>>

\* Connection::refresh() has every object read its state again.
UpdateInfo(n) ==
  /\ ~crashed /\ isOpen /\ wrap[n] # None /\ Reaches(n)
  /\ Reads(n)
  /\ UNCHANGED <<kind, isOpen, cur, vol, viewVars, ask, crashed, hostVars>>

\* Connection::close(): every object of the tables is deleted.
CloseConnection ==
  /\ ~crashed /\ isOpen
  /\ isOpen' = FALSE
  /\ wrap' = [n \in Names |-> None]
  /\ Dangle(Names)
  /\ UNCHANGED <<kind, viewVars, crashed, hostVars, troubles>>

\* Another client defines, starts, stops or undefines an entry.
HostChanges(n) ==
  /\ ~crashed /\ troubles > 0
  /\ troubles' = troubles - 1
  /\ \E s \in HostStates \ {host[n]} : host' = [host EXCEPT ![n] = s]
  /\ wrap' = Outdated(host')
  /\ UNCHANGED <<kind, isOpen, cur, vol, viewVars, ask, crashed, vols, data>>

-----------------------------------------------------------------------------
Pool == \/ \E n \in Names : Select(n) \/ Menu(n)
        \/ Dismiss \/ Start \/ Refresh \/ Stop \/ Delete \/ RefreshList
        \/ Asks("stop") \/ Asks("delete")

Volume == \/ \E v \in Vols : SelectVolume(v) \/ NewVolume(v) \/ CloneVolume(v)
          \/ \E w \in {"remove", "wipe", "clone", "download"} : AsksVolume(w)
          \/ \E w \in {"create", "upload"} : AsksNewVolume(w)
          \/ RemoveVolume \/ WipeVolume \/ CloseBox \/ Download

Around == \/ ClickOnDeleted \/ AnswerOnDeleted \/ CloseDialog \/ CloseConnection
          \/ \E n \in Names : PollDrops(n) \/ PollAdds(n) \/ UpdateInfo(n)
                                \/ HostChanges(n)

Next == Pool \/ Volume \/ Around

Spec == Init /\ [][Next]_vars

-----------------------------------------------------------------------------
(* Properties. *)

\* The program stops or deletes a pool or a network, removes a volume or wipes
\* it, only on a Yes to a question that named that very thing, whatever was
\* selected, polled or redefined since.
Destroyed(n) == host[n] # "absent" /\ host'[n] # host[n] /\ ~(host'[n] = "active")
Asked(what, n) == ask # None /\ ask.what \in what /\ ask.n = n
OnlyAsked ==
  [][/\ \A n \in Names : troubles' = troubles /\ Destroyed(n) =>
                           Asked({"stop", "delete"}, n)
     /\ \A p \in Pairs : p \in data /\ p \notin data' =>
                           Asked({"remove", "wipe"}, p[1]) /\ ask.v = p[2]]_vars

\* With no other client at work, no failed call and the connection open, an
\* object selected while its entry was defined is not deleted under the dialog:
\* what the dialog itself takes from the host it lets go of at once, before the
\* next poll deletes the object.
AloneSafe ==
  isOpen /\ troubles = MaxTroubles =>
    ~Dead(vol) /\ (Dead(cur) => ~cur.defined)
=============================================================================
