------------------------------ MODULE Manager ------------------------------
(***************************************************************************)
(* The manager window and its sidebar: ManagerWindow, ConnectionTreeModel   *)
(* and the registry of Engine, over any number of Connection objects.       *)
(*                                                                          *)
(* A Connection is seen here as the window sees it: its state, its table of *)
(* Domain objects, the signals it sends.  A poll or a refresh is one step   *)
(* (Connection.tla has its inside).  A Domain object lives exactly while    *)
(* its VM is in the table of its connection, or for ever when the sidebar   *)
(* made it itself, for no connection.                                       *)
(*                                                                          *)
(* A sidebar row points to a Domain object.  rows[u][v] are the owners of   *)
(* the objects that the rows of VM v point to, the first row first; None    *)
(* for those of the sidebar.  findVMItem finds the first one.               *)
(*                                                                          *)
(* Menus, questions and dialogs run nested event loops: results and ticks   *)
(* come in meanwhile, further clicks do not.  updateStatus runs one too,    *)
(* between the success of an attempt and its handling: for the window it is *)
(* as if the success came after it.                                         *)
(*                                                                          *)
(* Reading a deleted Domain or TreeItem may crash the program; the model    *)
(* goes on with the other outcome, and the properties tell when that was.   *)
(*                                                                          *)
(* "Slip:" marks a form that an easy mistake would give to the definition   *)
(* after it.                                                                *)
(***************************************************************************)
EXTENDS Naturals, Sequences, FiniteSets

CONSTANTS URIs,         \* hosts
          VMs,          \* virtual machines, by name and UUID
          Conns,        \* bound: the Connection objects the program may create
          None,
          MaxChanges,   \* bound: VMs that come and go on a host by themselves
          MaxLosses,    \* bound: links that die
          MaxFaults     \* bound: polls in which a list call fails

ASSUME NoneAssumption == None \notin Conns
ASSUME BoundsAssumption == MaxChanges \in Nat /\ MaxLosses \in Nat /\ MaxFaults \in Nat

VARIABLES uri, m_state, m_domains,    \* of each Connection object
          m_connections,              \* Engine's registry: ticked, by URI
          m_connectionItems,          \* URIs with an item in the sidebar
          connection,                 \* TreeItem::m_connection of the items
          rows,                       \* the VM rows of the items
          m_connectionToItem,         \* connections mapped to a present item
          stale,                      \* connections mapped to a deleted item
          dialogs,                    \* attempts whose progress dialog is visible
          m_progressDialog,           \* the attempt whose dialog this points to
          startup,                    \* saved URIs the constructor has yet to load
          modal,                      \* the open menu or question
          cache,                      \* VMs in the cache, by URI
          host,                       \* VMs on the host
          lost,                       \* connections whose link has died
          changes, faults             \* budgets left

objectVars == <<uri, m_state, m_domains>>
treeVars == <<m_connectionItems, connection, rows, m_connectionToItem, stale>>
dialogVars == <<dialogs, m_progressDialog>>
hostVars == <<host, lost, changes, faults>>
vars == <<objectVars, m_connections, treeVars, dialogVars, startup, modal, cache, hostVars>>

Owners == Conns \cup {None}
States == {"new", "Connecting", "Active", "ConnectionFailed", "Disconnected", "deleted"}
Modals == [kind : {"closed"}] \cup [kind : {"connect", "disconnect", "edit", "delete"}, uri : URIs]
Closed == [kind |-> "closed"]

NoRows == [v \in VMs |-> << >>]

\* A URI without an item has no connection and no rows to show.
TypeOK ==
  /\ uri \in [Conns -> URIs \cup {None}] /\ m_state \in [Conns -> States]
  /\ m_domains \in [Conns -> SUBSET VMs]
  /\ m_connections \in [URIs -> Owners]
  /\ m_connectionItems \subseteq URIs
  /\ connection \in [URIs -> Owners]
  /\ rows \in [URIs -> [VMs -> Seq(Owners)]]
  /\ \A u \in URIs \ m_connectionItems : connection[u] = None /\ rows[u] = NoRows
  /\ m_connectionToItem \subseteq Conns /\ stale \subseteq Conns
  /\ dialogs \subseteq Conns /\ m_progressDialog \in Owners
  /\ startup \subseteq URIs /\ modal \in Modals
  /\ cache \in [URIs -> SUBSET VMs]
  /\ host \in [URIs -> SUBSET VMs] /\ lost \subseteq Conns
  /\ changes \in Nat /\ faults \in Nat

\* What the program finds at its start: saved URIs, and any cache.
Init ==
  /\ uri = [c \in Conns |-> None] /\ m_state = [c \in Conns |-> "new"]
  /\ m_domains = [c \in Conns |-> {}]
  /\ m_connections = [u \in URIs |-> None]
  /\ m_connectionItems = {} /\ connection = [u \in URIs |-> None]
  /\ rows = [u \in URIs |-> NoRows]
  /\ m_connectionToItem = {} /\ stale = {}
  /\ dialogs = {} /\ m_progressDialog = None
  /\ startup \in SUBSET URIs /\ modal = Closed
  /\ cache \in [URIs -> SUBSET VMs] /\ host \in [URIs -> SUBSET VMs]
  /\ lost = {} /\ changes = MaxChanges /\ faults = MaxFaults

-----------------------------------------------------------------------------
(* The sidebar's answers to the signals of a connection. *)

\* Slip: a row for every announced domain.
onDomainAddedTwice(R, A, c) == [v \in VMs |-> IF v \in A THEN Append(R[v], c) ELSE R[v]]

\* onDomainAdded, for the domains A of c: a VM that has a row keeps it.
onDomainAdded(R, A, c) ==
  [v \in VMs |-> IF v \in A /\ R[v] = << >> THEN <<c>> ELSE R[v]]

\* onDomainRemoved: the first row of the VM goes.
onDomainRemoved(R, D) ==
  [v \in VMs |-> IF v \in D /\ R[v] # << >> THEN Tail(R[v]) ELSE R[v]]

\* The rows after a poll of c that found the VMs H where the table had T.
Polled(R, c, T, H) == onDomainRemoved(onDomainAdded(R, H \ T, c), T \ H)

\* A row more for every domain of c.
RowsAppended(R, T, c) == [v \in VMs |-> IF v \in T THEN Append(R[v], c) ELSE R[v]]

Childless(R) == \A v \in VMs : R[v] = << >>

\* Slip: the rows are left as they are.
RowsConvertedNone(R) == R

\* Slip: the rows go.
RowsDropped(R) == NoRows

\* removeConnection: each row points to a new domain of no connection.
RowsConverted(R) == [v \in VMs |-> [i \in DOMAIN R[v] |-> None]]

-----------------------------------------------------------------------------
(* Attempts to connect. *)

Fresh(c) == m_state[c] = "new"

\* A new connection object with its progress dialog; openAsync is under way.
Attempt(u, c) ==
  /\ Fresh(c) /\ uri' = [uri EXCEPT ![c] = u]
  /\ m_state' = [m_state EXCEPT ![c] = "Connecting"]
  /\ dialogs' = dialogs \cup {c} /\ m_progressDialog' = c

CloseDialog ==
  /\ dialogs' = dialogs \ {m_progressDialog}
  /\ m_progressDialog' = None

\* Slip: the new item is not entered under its URI.
ItemTakesUnlisted(u, c) ==
  /\ connection' = [connection EXCEPT ![u] = c]
  /\ m_connectionToItem' = m_connectionToItem \cup {c}
  /\ UNCHANGED <<m_connectionItems, stale>>

\* The item of u, present or new, shows c.
ItemTakes(u, c) ==
  /\ m_connectionItems' = m_connectionItems \cup {u}
  /\ connection' = [connection EXCEPT ![u] = c]
  /\ m_connectionToItem' = m_connectionToItem \cup {c}
  /\ UNCHANGED stale

\* Slip: a URI that is registered already is left alone.
registerConnectionOnce(u, c) ==
  m_connections' = [m_connections EXCEPT ![u] = IF @ = None THEN c ELSE @]

registerConnection(u, c) == m_connections' = [m_connections EXCEPT ![u] = c]

\* The ways a poll of u can end, with the VMs H it found: the host's, or, with a
\* list call that fails (its list is then taken for an empty one), some of them.
Finds(u, H) ==
  \/ H = host[u] /\ UNCHANGED faults
  \/ faults > 0 /\ faults' = faults - 1 /\ H \subseteq host[u]

\* Slip: the refresh comes before the signals are connected.
RefreshUnheard(u, c) ==
  \E H \in SUBSET VMs :
    /\ Finds(u, H)
    /\ m_domains' = [m_domains EXCEPT ![c] = H]
    /\ cache' = [cache EXCEPT ![u] = @ \cup H]
    /\ UNCHANGED rows

\* ConnectionTreeModel::addConnection for an open connection and a present item:
\* an item without rows gets the cached ones, then the connection is refreshed.
RefreshItem(u, c) ==
  LET first == IF Childless(rows[u]) THEN cache[u] ELSE {} IN
  \E H \in SUBSET VMs :
    /\ Finds(u, H)
    /\ rows' = [rows EXCEPT ![u] = Polled(RowsAppended(@, first, c), c, first, H)]
    /\ m_domains' = [m_domains EXCEPT ![c] = H]
    /\ cache' = [cache EXCEPT ![u] = @ \cup H]

\* openAsync's result: ManagerWindow::addConnection.
OpenSucceeds(c) ==
  LET u == uri[c] IN
  /\ startup = {} /\ m_state[c] = "Connecting"
  /\ m_state' = [m_state EXCEPT ![c] = "Active"]
  /\ registerConnection(u, c)
  /\ ItemTakes(u, c)
  /\ \/ u \in m_connectionItems /\ RefreshItem(u, c)
     \/ u \notin m_connectionItems /\ UNCHANGED <<rows, m_domains, cache, faults>>
  /\ CloseDialog
  /\ UNCHANGED <<uri, startup, modal, host, lost, changes>>

\* loadVMCache of a connection that is not open, and ConnectionTreeModel::addConnection.
ShowOffline(u, c) ==
  /\ ItemTakes(u, c)
  /\ m_domains' = [m_domains EXCEPT ![c] = cache[u]]
  /\ rows' = [rows EXCEPT ![u] = RowsAppended(@, cache[u], c)]

\* openAsync's result; the message box takes the place of a menu.
OpenFails(c) ==
  /\ startup = {} /\ m_state[c] = "Connecting"
  /\ m_state' = [m_state EXCEPT ![c] = "ConnectionFailed"]
  /\ CloseDialog
  /\ ShowOffline(uri[c], c)
  /\ modal' = IF modal.kind \in {"connect", "disconnect"} THEN Closed ELSE modal
  /\ UNCHANGED <<uri, m_connections, startup, cache, hostVars>>

-----------------------------------------------------------------------------
(* The constructor of ManagerWindow. *)

StartConnecting(u, c) ==
  /\ u \in startup /\ startup' = startup \ {u}
  /\ m_connectionItems' = m_connectionItems \cup {u}
  /\ Attempt(u, c)
  /\ UNCHANGED <<m_domains, m_connections, connection, rows, m_connectionToItem, stale,
                 modal, cache, hostVars>>

StartOffline(u, c) ==
  /\ u \in startup /\ startup' = startup \ {u}
  /\ Fresh(c) /\ uri' = [uri EXCEPT ![c] = u]
  /\ m_state' = [m_state EXCEPT ![c] = "Disconnected"]
  /\ ShowOffline(u, c)
  /\ UNCHANGED <<m_connections, dialogVars, modal, cache, hostVars>>

-----------------------------------------------------------------------------
(* The user. *)

\* A visible progress dialog is modal; Escape hides it.
UserFree == startup = {} /\ dialogs = {} /\ modal = Closed

HideDialog(c) ==
  /\ startup = {} /\ c \in dialogs /\ dialogs' = dialogs \ {c}
  /\ UNCHANGED <<objectVars, m_connections, treeVars, m_progressDialog, startup, modal, cache,
                 hostVars>>

\* openConnectionDialog.
AddConnection(u, c) ==
  /\ UserFree /\ Attempt(u, c)
  /\ UNCHANGED <<m_domains, m_connections, treeVars, startup, modal, cache, hostVars>>

Connected(u) == connection[u] # None /\ m_state[connection[u]] = "Active"

\* onTreeContextMenu: what is offered fits the state when the menu opens.
OpenMenu(u, kind) ==
  /\ UserFree /\ u \in m_connectionItems
  /\ kind = "connect" => ~Connected(u)
  /\ kind = "disconnect" => Connected(u)
  /\ modal' = [kind |-> kind, uri |-> u]
  /\ UNCHANGED <<objectVars, m_connections, treeVars, dialogVars, startup, cache, hostVars>>

Chosen(kind, u) == modal = [kind |-> kind, uri |-> u]

CloseMenu ==
  /\ modal # Closed /\ modal' = Closed
  /\ UNCHANGED <<objectVars, m_connections, treeVars, dialogVars, startup, cache, hostVars>>

onConnectToConnection(u, c) ==
  /\ Chosen("connect", u) /\ modal' = Closed
  /\ Attempt(u, c)
  /\ UNCHANGED <<m_domains, m_connections, treeVars, startup, cache, hostVars>>

\* Slip: the connection stays registered.
unregisterNothing(u) == UNCHANGED m_connections

\* unregisterConnection goes by the URI, whichever connection is registered.
unregisterConnection(u) == m_connections' = [m_connections EXCEPT ![u] = None]

\* ConnectionTreeModel::removeConnection: the item stays, as a disconnected one.
ItemReleases(u) ==
  /\ connection' = [connection EXCEPT ![u] = None]
  /\ rows' = [rows EXCEPT ![u] = RowsConverted(@)]
  /\ m_connectionToItem' = m_connectionToItem \ {connection[u]}

\* The connection is neither closed nor deleted.
onDisconnectFromConnection(u) ==
  /\ Chosen("disconnect", u) /\ modal' = Closed
  /\ connection[u] # None
  /\ unregisterConnection(u) /\ ItemReleases(u)
  /\ UNCHANGED <<objectVars, m_connectionItems, stale, dialogVars, startup, cache, hostVars>>

\* Accepted; an item with a connection gets a new one, and the old one is deleted.
onEditConnection(u, c) ==
  LET old == connection[u] IN
  /\ Chosen("edit", u) /\ modal' = Closed
  /\ old # None /\ Fresh(c) /\ uri' = [uri EXCEPT ![c] = u]
  /\ unregisterConnection(u) /\ ItemReleases(u)
  /\ m_state' = [m_state EXCEPT ![old] = "deleted", ![c] = "Connecting"]
  /\ m_domains' = [m_domains EXCEPT ![old] = {}]
  /\ cache' = [cache EXCEPT ![u] = @ \cup m_domains[old]]
  /\ dialogs' = dialogs \cup {c} /\ m_progressDialog' = c
  /\ UNCHANGED <<m_connectionItems, stale, startup, hostVars>>

\* Answered with yes: removeConnection, then removeDisconnectedConnection.
onDeleteConnection(u) ==
  LET left == {c \in m_connectionToItem : uri[c] = u} IN
  /\ Chosen("delete", u) /\ modal' = Closed
  /\ IF connection[u] = None THEN UNCHANGED m_connections ELSE unregisterConnection(u)
  /\ connection' = [connection EXCEPT ![u] = None]
  /\ rows' = [rows EXCEPT ![u] = NoRows]
  /\ m_connectionItems' = m_connectionItems \ {u}
  /\ m_connectionToItem' = m_connectionToItem \ left
  /\ stale' = stale \cup (left \ {connection[u]})
  /\ UNCHANGED <<objectVars, dialogVars, startup, cache, hostVars>>

\* The wizard, for the connection of the selected item or VM row.
onNewVM(c, v) ==
  LET u == uri[c] IN
  /\ UserFree /\ m_state[c] = "Active"
  /\ \/ c = connection[u]
     \/ \E w \in VMs : \E i \in DOMAIN rows[u][w] : rows[u][w][i] = c
  /\ v \notin host[u] \cup m_domains[c]
  /\ host' = [host EXCEPT ![u] = @ \cup {v}]
  /\ m_domains' = [m_domains EXCEPT ![c] = @ \cup {v}]
  /\ rows' = [rows EXCEPT ![u] = IF c \in m_connectionToItem THEN onDomainAdded(@, {v}, c) ELSE @]
  /\ UNCHANGED <<uri, m_state, m_connections, m_connectionItems, connection, m_connectionToItem,
                 stale, dialogVars, startup, modal, cache, lost, changes, faults>>

-----------------------------------------------------------------------------
(* The timer, and the hosts. *)

Ticked(u, c) == startup = {} /\ m_connections[u] = c /\ c # None /\ m_state[c] = "Active"

\* Engine::onTick: a poll.
onTick(u) ==
  \E c \in Conns, H \in SUBSET VMs :
    /\ Ticked(u, c) /\ Finds(u, H)
    /\ m_domains' = [m_domains EXCEPT ![c] = H]
    /\ rows' = [rows EXCEPT ![u] =
                  IF c \in m_connectionToItem THEN Polled(@, c, m_domains[c], H) ELSE @]
    /\ UNCHANGED <<uri, m_state, m_connections, m_connectionItems, connection,
                   m_connectionToItem, stale, dialogVars, startup, modal, cache,
                   host, lost, changes>>

\* Engine::onTick with a dead link: close() deletes the domains without domainRemoved.
onTickLost(u) ==
  \E c \in Conns :
    /\ Ticked(u, c) /\ Cardinality(lost) < MaxLosses
    /\ lost' = lost \cup {c}
    /\ m_state' = [m_state EXCEPT ![c] = "Disconnected"]
    /\ m_domains' = [m_domains EXCEPT ![c] = {}]
    /\ cache' = [cache EXCEPT ![u] = @ \cup m_domains[c]]
    /\ UNCHANGED <<uri, m_connections, treeVars, dialogVars, startup, modal, host, changes,
                   faults>>

HostChanges(u, v) ==
  /\ changes > 0 /\ changes' = changes - 1
  /\ host' = [host EXCEPT ![u] = IF v \in @ THEN @ \ {v} ELSE @ \cup {v}]
  /\ UNCHANGED <<objectVars, m_connections, treeVars, dialogVars, startup, modal, cache, lost,
                 faults>>

-----------------------------------------------------------------------------
Next ==
  \/ CloseMenu
  \/ \E u \in URIs : \/ onDisconnectFromConnection(u) \/ onDeleteConnection(u)
                     \/ onTick(u) \/ onTickLost(u)
  \/ \E c \in Conns : OpenSucceeds(c) \/ OpenFails(c) \/ HideDialog(c)
  \/ \E u \in URIs, c \in Conns :
       \/ StartConnecting(u, c) \/ StartOffline(u, c) \/ AddConnection(u, c)
       \/ onConnectToConnection(u, c) \/ onEditConnection(u, c)
  \/ \E u \in URIs, kind \in {"connect", "disconnect", "edit", "delete"} : OpenMenu(u, kind)
  \/ \E c \in Conns, v \in VMs : onNewVM(c, v)
  \/ \E u \in URIs, v \in VMs : HostChanges(u, v)

Spec == Init /\ [][Next]_vars

-----------------------------------------------------------------------------
(* Properties. *)

\* A host shown as connected is polled through the connection it is shown with
\* (isConnected, Engine::onTick), however many attempts overlapped.
ConnectedIsPolled == \A u \in URIs : Connected(u) => m_connections[u] = connection[u]

\* Engine never ticks a deleted connection, and the signals of one it ticks find an
\* item of the sidebar that is still there (m_connectionToItem).
PolledIsHeard ==
  \A u \in URIs, c \in Conns :
    m_connections[u] = c => /\ u \in m_connectionItems /\ uri[c] = u
                           /\ c \in m_connectionToItem /\ m_state[c] # "deleted"

\* A row never points to a domain that was deleted by a poll or with its connection;
\* only one whose link died leaves such rows (close deletes without a signal).
RowsAlive ==
  \A u \in URIs, v \in VMs : \A i \in DOMAIN rows[u][v] :
    \A c \in Conns : rows[u][v][i] = c =>
      m_state[c] # "deleted" /\ (v \in m_domains[c] \/ c \in lost)

\* Every VM that the polled connection knows has a row, whichever connection the
\* row came from.
KnownIsListed ==
  \A u \in URIs, c \in Conns :
    m_connections[u] = c => \A v \in m_domains[c] : rows[u][v] # << >>

\* A poll of u takes v out of the table of its connection: the host has lost it,
\* or a list call failed, which takes the VM of a working host away until the
\* next poll.
PolledAway(u, v) ==
  /\ UNCHANGED m_state
  /\ \E c \in Conns : /\ m_connections[u] = c
                     /\ v \in m_domains[c] /\ v \notin m_domains'[c]
  /\ v \notin host[u] \/ faults' < faults

\* Connecting, failing, disconnecting, losing the link and editing keep the VMs
\* listed: one vanishes in a poll that did not find it, or with the item.
RowsKept ==
  [][\A u \in URIs, v \in VMs :
       rows[u][v] # << >> /\ rows'[u][v] = << >> =>
         u \notin m_connectionItems' \/ PolledAway(u, v)]_vars

\* "Update cached VMs with live data - only if connection is active"
\* (ConnectionTreeModel.cpp:353): the rows of a connected host are its connection's.
RowsUpdated ==
  \A u \in URIs, v \in VMs : Connected(u) =>
    \A i \in DOMAIN rows[u][v] : rows[u][v][i] = connection[u]

\* "Close progress dialog" (ManagerWindow.cpp:1044, 1056): a dialog is visible only
\* while its attempt is under way.
EndedIsClosed == \A c \in dialogs : m_state[c] = "Connecting"
=============================================================================
