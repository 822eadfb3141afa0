--------------------------- MODULE ManagerProofs ---------------------------
(***************************************************************************)
(* That the sidebar, the registry of Engine and the connections stay in     *)
(* step, for any hosts, VMs and connections and any overlap of attempts.    *)
(***************************************************************************)
EXTENDS Manager, SequenceTheorems, TLAPS

-----------------------------------------------------------------------------
(* What the handlers do to the rows of one item. *)

RowTables == [VMs -> Seq(Owners)]

\* Every row of S was a row of R, at the same place, unless it is the first and
\* only one of its VM and points to a domain of c, one of A.
GrownBy(S, R, A, c) ==
  \A v \in VMs : \A i \in DOMAIN S[v] :
    \/ i \in DOMAIN R[v] /\ S[v][i] = R[v][i]
    \/ i = 1 /\ v \in A /\ S[v][i] = c

LEMMA AddedRows ==
  ASSUME NEW R \in RowTables, NEW A, NEW c \in Owners
  PROVE  /\ onDomainAdded(R, A, c) \in RowTables
         /\ GrownBy(onDomainAdded(R, A, c), R, A, c)
         /\ \A v \in VMs : /\ R[v] # << >> => onDomainAdded(R, A, c)[v] = R[v]
                           /\ v \in A => onDomainAdded(R, A, c)[v] # << >>
  BY DEF onDomainAdded, RowTables, GrownBy

LEMMA RemovedRows ==
  ASSUME NEW R \in RowTables, NEW D
  PROVE  /\ onDomainRemoved(R, D) \in RowTables
         /\ \A v \in VMs \ D : onDomainRemoved(R, D)[v] = R[v]
         /\ \A v \in VMs : \A i \in DOMAIN onDomainRemoved(R, D)[v] : v \in D =>
              /\ i + 1 \in DOMAIN R[v] /\ i \in Nat \ {0}
              /\ onDomainRemoved(R, D)[v][i] = R[v][i + 1]
<1> DEFINE S == onDomainRemoved(R, D)
<1>1. ASSUME NEW v \in VMs
      PROVE  /\ S[v] \in Seq(Owners)
             /\ v \notin D => S[v] = R[v]
             /\ \A i \in DOMAIN S[v] : v \in D =>
                  i + 1 \in DOMAIN R[v] /\ i \in Nat \ {0} /\ S[v][i] = R[v][i + 1]
  <2>1. R[v] \in Seq(Owners)
    BY DEF RowTables
  <2>2. CASE v \in D /\ R[v] # << >>
    <3>1. S[v] = Tail(R[v])
      BY <2>2 DEF onDomainRemoved
    <3>2. /\ Tail(R[v]) \in Seq(Owners) /\ Len(Tail(R[v])) = Len(R[v]) - 1
          /\ \A i \in 1 .. Len(Tail(R[v])) : Tail(R[v])[i] = R[v][i + 1]
      BY <2>1, <2>2, HeadTailProperties
    <3>3. QED
      BY <2>1, <2>2, <3>1, <3>2
  <2>3. CASE ~(v \in D /\ R[v] # << >>)
    BY <2>1, <2>3 DEF onDomainRemoved
  <2>4. QED
    BY <2>2, <2>3
<1>2. S \in RowTables
  BY <1>1 DEF onDomainRemoved, RowTables
<1>3. QED
  BY <1>1, <1>2

LEMMA AppendedRows ==
  ASSUME NEW R \in RowTables, NEW T, NEW c \in Owners
  PROVE  /\ RowsAppended(R, T, c) \in RowTables
         /\ \A v \in VMs :
              /\ R[v] # << >> \/ v \in T => RowsAppended(R, T, c)[v] # << >>
              /\ R[v] = << >> /\ v \notin T => RowsAppended(R, T, c)[v] = << >>
              /\ \A i \in DOMAIN RowsAppended(R, T, c)[v] :
                   \/ i \in DOMAIN R[v] /\ RowsAppended(R, T, c)[v][i] = R[v][i]
                   \/ v \in T /\ i = Len(R[v]) + 1 /\ RowsAppended(R, T, c)[v][i] = c
<1> DEFINE S == RowsAppended(R, T, c)
<1>1. ASSUME NEW v \in VMs
      PROVE  /\ S[v] \in Seq(Owners)
             /\ R[v] # << >> \/ v \in T => S[v] # << >>
             /\ R[v] = << >> /\ v \notin T => S[v] = << >>
             /\ \A i \in DOMAIN S[v] :
                  \/ i \in DOMAIN R[v] /\ S[v][i] = R[v][i]
                  \/ v \in T /\ i = Len(R[v]) + 1 /\ S[v][i] = c
  <2>1. R[v] \in Seq(Owners)
    BY DEF RowTables
  <2>2. CASE v \in T
    <3>1. S[v] = Append(R[v], c)
      BY <2>2 DEF RowsAppended
    <3>2. QED
      BY <2>1, <2>2, <3>1, AppendProperties
  <2>3. CASE v \notin T
    BY <2>1, <2>3 DEF RowsAppended
  <2>4. QED
    BY <2>2, <2>3
<1>2. S \in RowTables
  BY <1>1 DEF RowsAppended, RowTables
<1>3. QED
  BY <1>1, <1>2

LEMMA ConvertedRows ==
  ASSUME NEW R \in RowTables
  PROVE  /\ RowsConverted(R) \in RowTables
         /\ \A v \in VMs : R[v] # << >> => RowsConverted(R)[v] # << >>
         /\ \A v \in VMs : \A i \in DOMAIN RowsConverted(R)[v] : RowsConverted(R)[v][i] = None
<1>1. ASSUME NEW v \in VMs
      PROVE  /\ RowsConverted(R)[v] \in Seq(Owners)
             /\ R[v] # << >> => RowsConverted(R)[v] # << >>
             /\ \A i \in DOMAIN RowsConverted(R)[v] : RowsConverted(R)[v][i] = None
  <2>1. R[v] \in Seq(Owners)
    BY DEF RowTables
  <2>2. RowsConverted(R)[v] = [i \in 1 .. Len(R[v]) |-> None] /\ Len(R[v]) \in Nat
    BY <2>1 DEF RowsConverted
  <2>3. RowsConverted(R)[v] \in Seq(Owners) /\ Len(RowsConverted(R)[v]) = Len(R[v])
    BY <2>2 DEF Owners
  <2>4. QED
    BY <2>1, <2>2, <2>3, EmptySeq
<1>2. QED
  BY <1>1 DEF RowsConverted, RowTables

LEMMA NoRowsType == NoRows \in RowTables
  BY DEF NoRows, RowTables

LEMMA PolledRows ==
  ASSUME NEW R \in RowTables, NEW c \in Owners, NEW T, NEW H
  PROVE  Polled(R, c, T, H) \in RowTables
<1>1. onDomainAdded(R, H \ T, c) \in RowTables
  BY AddedRows
<1>2. QED
  BY <1>1, RemovedRows DEF Polled

-----------------------------------------------------------------------------
(* The inductive invariant. *)

\* The maps between connections and URIs agree: who is shown or polled under a URI
\* belongs to it and is mapped to its item; nothing is polled behind an item that
\* shows no connection, which is what makes unregistering by URI enough.
MapInv ==
  /\ \A c \in Conns : m_state[c] # "new" => uri[c] \in URIs
  /\ \A c \in m_connectionToItem :
       /\ m_state[c] \in {"Active", "ConnectionFailed", "Disconnected"}
       /\ uri[c] \in m_connectionItems
  /\ \A u \in URIs, c \in Conns :
       connection[u] = c \/ m_connections[u] = c => c \in m_connectionToItem /\ uri[c] = u
  /\ \A u \in URIs : m_connections[u] # None => connection[u] # None
  /\ ConnectedIsPolled

\* A row of an open connection is the first of its VM, so it is the one that goes
\* when the VM goes.
RowOf(u, v, i, c) ==
  /\ c \in m_connectionToItem /\ uri[c] = u
  /\ m_state[c] = "Active" => i = 1
  /\ v \in m_domains[c] \/ c \in lost

RowsInv ==
  /\ \A u \in URIs, v \in VMs : \A i \in DOMAIN rows[u][v] :
       \A c \in Conns : rows[u][v][i] = c => RowOf(u, v, i, c)
  /\ KnownIsListed
  /\ \A c \in Conns : m_state[c] \in {"new", "Connecting"} => m_domains[c] = {}

IInv == TypeOK /\ MapInv /\ RowsInv

-----------------------------------------------------------------------------
(* Types. *)

LEMMA AttemptType ==
  ASSUME TypeOK, NEW u \in URIs, NEW c \in Conns, Attempt(u, c)
  PROVE  /\ uri' \in [Conns -> URIs \cup {None}] /\ m_state' \in [Conns -> States]
         /\ dialogs' \subseteq Conns /\ m_progressDialog' \in Owners
  BY DEF Attempt, TypeOK, States, Owners

LEMMA CloseDialogType ==
  ASSUME TypeOK, CloseDialog
  PROVE  dialogs' \subseteq Conns /\ m_progressDialog' \in Owners
  BY DEF CloseDialog, TypeOK, Owners

LEMMA ItemTakesType ==
  ASSUME TypeOK, NEW u \in URIs, NEW c \in Conns, ItemTakes(u, c)
  PROVE  /\ m_connectionItems' \subseteq URIs
         /\ connection' \in [URIs -> Owners]
         /\ m_connectionToItem' \subseteq Conns /\ stale' \subseteq Conns
         /\ \A w \in URIs \ m_connectionItems' : connection'[w] = None
  BY DEF ItemTakes, TypeOK, Owners

LEMMA ShowOfflineType ==
  ASSUME TypeOK, NEW u \in URIs, NEW c \in Conns, ShowOffline(u, c)
  PROVE  /\ m_domains' \in [Conns -> SUBSET VMs]
         /\ rows' \in [URIs -> [VMs -> Seq(Owners)]]
         /\ \A w \in URIs \ m_connectionItems' : rows'[w] = NoRows
<1>1. RowsAppended(rows[u], cache[u], c) \in RowTables
  BY AppendedRows DEF TypeOK, RowTables, Owners
<1>2. QED
  BY <1>1 DEF ShowOffline, ItemTakes, TypeOK, RowTables

LEMMA FindsType ==
  ASSUME TypeOK, NEW u \in URIs, NEW H \in SUBSET VMs, Finds(u, H)
  PROVE  faults' \in Nat /\ H \subseteq host[u] /\ (H = host[u] \/ faults' < faults)
  BY DEF Finds, TypeOK

LEMMA RefreshItemType ==
  ASSUME TypeOK, NEW u \in URIs, NEW c \in Conns, RefreshItem(u, c), ItemTakes(u, c)
  PROVE  /\ faults' \in Nat
         /\ m_domains' \in [Conns -> SUBSET VMs]
         /\ cache' \in [URIs -> SUBSET VMs]
         /\ rows' \in [URIs -> [VMs -> Seq(Owners)]]
         /\ \A w \in URIs \ m_connectionItems' : rows'[w] = NoRows
<1> DEFINE first == IF Childless(rows[u]) THEN cache[u] ELSE {}
<1>1. RowsAppended(rows[u], first, c) \in RowTables /\ c \in Owners
  BY AppendedRows DEF TypeOK, RowTables, Owners
<1>2. PICK H \in SUBSET VMs :
        /\ Finds(u, H)
        /\ rows' = [rows EXCEPT ![u] = Polled(RowsAppended(rows[u], first, c), c, first, H)]
        /\ m_domains' = [m_domains EXCEPT ![c] = H]
        /\ cache' = [cache EXCEPT ![u] = cache[u] \cup H]
  BY DEF RefreshItem
<1>3. Polled(RowsAppended(rows[u], first, c), c, first, H) \in RowTables
  BY <1>1, PolledRows
<1>4. faults' \in Nat
  BY <1>2, FindsType
<1>5. QED
  BY <1>2, <1>3, <1>4 DEF ItemTakes, TypeOK, RowTables

LEMMA OpenSucceedsType ==
  ASSUME TypeOK, NEW c \in Conns, OpenSucceeds(c), uri[c] \in URIs
  PROVE  TypeOK'
<1> DEFINE u == uri[c]
<1>1. m_state' \in [Conns -> States] /\ m_connections' \in [URIs -> Owners]
  BY DEF OpenSucceeds, registerConnection, TypeOK, States, Owners
<1>2. CloseDialog /\ ItemTakes(u, c)
  BY DEF OpenSucceeds
<1>3. CASE u \in m_connectionItems /\ RefreshItem(u, c)
  BY <1>1, <1>2, <1>3, CloseDialogType, ItemTakesType, RefreshItemType
  DEF OpenSucceeds, TypeOK
<1>4. CASE UNCHANGED <<rows, m_domains, cache, faults>>
  <2>1. \A w \in URIs \ m_connectionItems' : rows'[w] = NoRows
    BY <1>2, <1>4 DEF ItemTakes, TypeOK
  <2>2. QED
    BY <1>1, <1>2, <1>4, <2>1, CloseDialogType, ItemTakesType DEF OpenSucceeds, TypeOK
<1>5. QED
  BY <1>3, <1>4 DEF OpenSucceeds

LEMMA OpenFailsType ==
  ASSUME TypeOK, NEW c \in Conns, OpenFails(c), uri[c] \in URIs
  PROVE  TypeOK'
<1>1. m_state' \in [Conns -> States] /\ modal' \in Modals
  BY DEF OpenFails, TypeOK, States, Modals, Closed
<1>2. CloseDialog /\ ShowOffline(uri[c], c) /\ ItemTakes(uri[c], c)
  BY DEF OpenFails, ShowOffline
<1>3. QED
  BY <1>1, <1>2, CloseDialogType, ItemTakesType, ShowOfflineType DEF OpenFails, TypeOK, hostVars

LEMMA ReleaseType ==
  ASSUME TypeOK, NEW u \in URIs, ItemReleases(u), UNCHANGED m_connectionItems,
         u \in m_connectionItems
  PROVE  /\ connection' \in [URIs -> Owners]
         /\ rows' \in [URIs -> [VMs -> Seq(Owners)]]
         /\ \A w \in URIs \ m_connectionItems' : connection'[w] = None /\ rows'[w] = NoRows
         /\ m_connectionToItem' \subseteq Conns
<1>1. RowsConverted(rows[u]) \in RowTables
  BY ConvertedRows DEF TypeOK, RowTables
<1>2. QED
  BY <1>1 DEF ItemReleases, TypeOK, RowTables, Owners

LEMMA TypeNext ==
  ASSUME TypeOK, MapInv, [Next]_vars
  PROVE  TypeOK'
<1>1. CASE CloseMenu
  BY <1>1 DEF CloseMenu, TypeOK, Modals, Closed, objectVars, treeVars, dialogVars, hostVars
<1>2. ASSUME NEW u \in URIs, onDisconnectFromConnection(u) PROVE TypeOK'
  <2>1. u \in m_connectionItems /\ ItemReleases(u) /\ UNCHANGED m_connectionItems
    BY <1>2 DEF onDisconnectFromConnection, TypeOK
  <2>2. m_connections' \in [URIs -> Owners] /\ modal' \in Modals
    BY <1>2 DEF onDisconnectFromConnection, unregisterConnection, TypeOK, Owners, Modals, Closed
  <2>3. QED
    BY <1>2, <2>1, <2>2, ReleaseType
    DEF onDisconnectFromConnection, TypeOK, objectVars, dialogVars, hostVars
<1>3. ASSUME NEW u \in URIs, onDeleteConnection(u) PROVE TypeOK'
  <2>1. m_connections' \in [URIs -> Owners] /\ modal' \in Modals
    BY <1>3 DEF onDeleteConnection, unregisterConnection, TypeOK, Owners, Modals, Closed
  <2>2. /\ connection' \in [URIs -> Owners] /\ rows' \in [URIs -> [VMs -> Seq(Owners)]]
        /\ \A w \in URIs \ m_connectionItems' : connection'[w] = None /\ rows'[w] = NoRows
    BY <1>3, NoRowsType DEF onDeleteConnection, TypeOK, Owners, RowTables
  <2>3. QED
    BY <1>3, <2>1, <2>2 DEF onDeleteConnection, TypeOK, objectVars, dialogVars, hostVars
<1>4. ASSUME NEW u \in URIs, onTick(u) PROVE TypeOK'
  <2>1. PICK c \in Conns, H \in SUBSET VMs :
          /\ Ticked(u, c) /\ Finds(u, H)
          /\ m_domains' = [m_domains EXCEPT ![c] = H]
          /\ rows' = [rows EXCEPT ![u] =
               IF c \in m_connectionToItem THEN Polled(rows[u], c, m_domains[c], H)
               ELSE rows[u]]
    BY <1>4 DEF onTick
  <2>2. u \in m_connectionItems
    BY <2>1, NoneAssumption DEF Ticked, MapInv, TypeOK
  <2>3. Polled(rows[u], c, m_domains[c], H) \in RowTables /\ faults' \in Nat
    BY <2>1, PolledRows, FindsType DEF TypeOK, RowTables, Owners
  <2>4. rows' \in [URIs -> [VMs -> Seq(Owners)]] /\ m_domains' \in [Conns -> SUBSET VMs]
    BY <2>1, <2>3 DEF TypeOK, RowTables
  <2>5. \A w \in URIs \ m_connectionItems : rows'[w] = NoRows
    BY <2>1, <2>2 DEF TypeOK
  <2>6. QED
    BY <1>4, <2>3, <2>4, <2>5 DEF onTick, TypeOK, dialogVars
<1>5. ASSUME NEW u \in URIs, onTickLost(u) PROVE TypeOK'
  BY <1>5 DEF onTickLost, TypeOK, States, treeVars, dialogVars
<1>6. ASSUME NEW c \in Conns, OpenSucceeds(c) PROVE TypeOK'
  BY <1>6, OpenSucceedsType DEF OpenSucceeds, MapInv
<1>7. ASSUME NEW c \in Conns, OpenFails(c) PROVE TypeOK'
  BY <1>7, OpenFailsType DEF OpenFails, MapInv
<1>8. ASSUME NEW c \in Conns, HideDialog(c) PROVE TypeOK'
  BY <1>8 DEF HideDialog, TypeOK, objectVars, treeVars, hostVars
<1>9. ASSUME NEW u \in URIs, NEW c \in Conns, StartConnecting(u, c) PROVE TypeOK'
  BY <1>9, AttemptType DEF StartConnecting, TypeOK, hostVars
<1>10. ASSUME NEW u \in URIs, NEW c \in Conns, StartOffline(u, c) PROVE TypeOK'
  <2>1. uri' \in [Conns -> URIs \cup {None}] /\ m_state' \in [Conns -> States]
    BY <1>10 DEF StartOffline, TypeOK, States
  <2>2. ShowOffline(u, c) /\ ItemTakes(u, c)
    BY <1>10 DEF StartOffline, ShowOffline
  <2>3. QED
    BY <1>10, <2>1, <2>2, ItemTakesType, ShowOfflineType
    DEF StartOffline, TypeOK, dialogVars, hostVars
<1>11. ASSUME NEW u \in URIs, NEW c \in Conns, AddConnection(u, c) PROVE TypeOK'
  BY <1>11, AttemptType DEF AddConnection, TypeOK, treeVars, hostVars
<1>12. ASSUME NEW u \in URIs, NEW c \in Conns, onConnectToConnection(u, c) PROVE TypeOK'
  <2>1. modal' \in Modals
    BY <1>12 DEF onConnectToConnection, Modals, Closed
  <2>2. QED
    BY <1>12, <2>1, AttemptType DEF onConnectToConnection, TypeOK, treeVars, hostVars
<1>13. ASSUME NEW u \in URIs, NEW c \in Conns, onEditConnection(u, c) PROVE TypeOK'
  <2>1. u \in m_connectionItems /\ ItemReleases(u) /\ UNCHANGED m_connectionItems
    BY <1>13 DEF onEditConnection, TypeOK
  <2>2. connection[u] \in Conns
    BY <1>13 DEF onEditConnection, TypeOK, Owners
  <2>3. m_connections' \in [URIs -> Owners] /\ modal' \in Modals
    BY <1>13 DEF onEditConnection, unregisterConnection, TypeOK, Owners, Modals, Closed
  <2>4. /\ uri' \in [Conns -> URIs \cup {None}] /\ m_state' \in [Conns -> States]
        /\ m_domains' \in [Conns -> SUBSET VMs] /\ cache' \in [URIs -> SUBSET VMs]
        /\ dialogs' \subseteq Conns /\ m_progressDialog' \in Owners
    BY <1>13, <2>2 DEF onEditConnection, TypeOK, States, Owners
  <2>5. QED
    BY <1>13, <2>1, <2>3, <2>4, ReleaseType DEF onEditConnection, TypeOK, hostVars
<1>14. ASSUME NEW u \in URIs, NEW kind \in {"connect", "disconnect", "edit", "delete"},
              OpenMenu(u, kind)
       PROVE  TypeOK'
  <2>1. modal' \in Modals
    BY <1>14 DEF OpenMenu, Modals
  <2>2. QED
    BY <1>14, <2>1 DEF OpenMenu, TypeOK, objectVars, treeVars, dialogVars, hostVars
<1>15. ASSUME NEW c \in Conns, NEW v \in VMs, onNewVM(c, v) PROVE TypeOK'
  <2> DEFINE u == uri[c]
  <2>1. u \in URIs
    BY <1>15 DEF onNewVM, MapInv
  <2>2. u \in m_connectionItems
    <3>1. CASE c = connection[u]
      BY <2>1, <3>1, NoneAssumption DEF TypeOK
    <3>2. ASSUME NEW w \in VMs, NEW i \in DOMAIN rows[u][w] PROVE u \in m_connectionItems
      <4>1. SUFFICES ASSUME u \notin m_connectionItems PROVE FALSE
        OBVIOUS
      <4>2. rows[u][w] = << >>
        BY <2>1, <4>1 DEF TypeOK, NoRows
      <4>3. QED
        BY <4>2
    <3>3. c = connection[u] \/ \E w \in VMs : \E i \in DOMAIN rows[u][w] : rows[u][w][i] = c
      BY <1>15 DEF onNewVM
    <3>4. QED
      BY <3>1, <3>2, <3>3
  <2>3. onDomainAdded(rows[u], {v}, c) \in RowTables
    BY <2>1, AddedRows DEF TypeOK, RowTables, Owners
  <2>4. rows' \in [URIs -> [VMs -> Seq(Owners)]]
    BY <1>15, <2>3 DEF onNewVM, TypeOK, RowTables
  <2>5. \A w \in URIs \ m_connectionItems : rows'[w] = NoRows
    BY <1>15, <2>2 DEF onNewVM, TypeOK
  <2>6. host' \in [URIs -> SUBSET VMs] /\ m_domains' \in [Conns -> SUBSET VMs]
    BY <1>15 DEF onNewVM, TypeOK
  <2>7. QED
    BY <1>15, <2>4, <2>5, <2>6 DEF onNewVM, TypeOK, dialogVars
<1>16. ASSUME NEW u \in URIs, NEW v \in VMs, HostChanges(u, v) PROVE TypeOK'
  BY <1>16 DEF HostChanges, TypeOK, objectVars, treeVars, dialogVars
<1>17. CASE UNCHANGED vars
  BY <1>17 DEF vars, TypeOK, objectVars, treeVars, dialogVars, hostVars
<1>18. QED
  BY <1>1, <1>2, <1>3, <1>4, <1>5, <1>6, <1>7, <1>8, <1>9, <1>10, <1>11, <1>12, <1>13, <1>14,
     <1>15, <1>16, <1>17 DEF Next

-----------------------------------------------------------------------------
(* The maps between connections and URIs. *)

mapVars == <<uri, m_state, m_connections, m_connectionItems, connection, m_connectionToItem>>

LEMMA MapUnchanged ==
  ASSUME MapInv, UNCHANGED mapVars
  PROVE  MapInv'
  BY DEF MapInv, mapVars, ConnectedIsPolled, Connected

LEMMA AttemptMap ==
  ASSUME TypeOK, MapInv, NEW u \in URIs, NEW c \in Conns, Attempt(u, c),
         UNCHANGED <<connection, m_connections, m_connectionToItem>>,
         m_connectionItems \subseteq m_connectionItems'
  PROVE  MapInv'
<1>1. c \notin m_connectionToItem /\ \A w \in URIs : connection[w] # c
  BY DEF Attempt, Fresh, MapInv
<1>2. /\ \A d \in Conns \ {c} : m_state'[d] = m_state[d] /\ uri'[d] = uri[d]
      /\ uri'[c] = u /\ m_state'[c] = "Connecting"
  BY DEF Attempt, TypeOK
<1>3. \A w \in URIs : Connected(w)' => Connected(w)
  BY <1>1, <1>2, NoneAssumption DEF Connected, TypeOK, Owners
<1>4. QED
  BY <1>1, <1>2, <1>3 DEF MapInv, ConnectedIsPolled, TypeOK

\* A connection that was under way, or is new, and is now shown and not open.
LEMMA OfflineMap ==
  ASSUME TypeOK, MapInv, NEW u \in URIs, NEW c \in Conns, ItemTakes(u, c),
         m_state[c] \in {"new", "Connecting"},
         NEW s \in {"ConnectionFailed", "Disconnected"},
         m_state' = [m_state EXCEPT ![c] = s],
         uri' = [uri EXCEPT ![c] = u], UNCHANGED m_connections
  PROVE  MapInv'
<1>1. /\ \A d \in Conns \ {c} : m_state'[d] = m_state[d] /\ uri'[d] = uri[d]
      /\ uri'[c] = u /\ m_state'[c] = s
  BY DEF TypeOK
<1>2. c \notin m_connectionToItem /\ \A w \in URIs : connection[w] # c /\ m_connections[w] # c
  BY DEF MapInv
<1>3. /\ \A w \in URIs \ {u} : connection'[w] = connection[w]
      /\ connection'[u] = c
      /\ m_connectionToItem' = m_connectionToItem \cup {c}
      /\ m_connectionItems' = m_connectionItems \cup {u}
  BY DEF ItemTakes, TypeOK
<1>4. \A w \in URIs : Connected(w)' => w # u /\ Connected(w)
  BY <1>1, <1>2, <1>3, NoneAssumption DEF Connected, TypeOK, Owners
<1>5. ConnectedIsPolled'
  BY <1>3, <1>4 DEF MapInv, ConnectedIsPolled
<1>6. \A d \in m_connectionToItem' :
        /\ m_state'[d] \in {"Active", "ConnectionFailed", "Disconnected"}
        /\ uri'[d] \in m_connectionItems'
  BY <1>1, <1>3 DEF MapInv, TypeOK
<1>7. \A w \in URIs, d \in Conns :
        connection'[w] = d \/ m_connections'[w] = d => d \in m_connectionToItem' /\ uri'[d] = w
  BY <1>1, <1>2, <1>3 DEF MapInv
<1>8. \A w \in URIs : m_connections'[w] # None => connection'[w] # None
  BY <1>3, NoneAssumption DEF MapInv
<1>9. QED
  BY <1>1, <1>5, <1>6, <1>7, <1>8 DEF MapInv

LEMMA OpenMap ==
  ASSUME TypeOK, MapInv, NEW c \in Conns, OpenSucceeds(c)
  PROVE  MapInv'
<1> DEFINE u == uri[c]
<1>1. u \in URIs /\ m_state[c] = "Connecting"
  BY DEF OpenSucceeds, MapInv
<1>2. /\ \A d \in Conns \ {c} : m_state'[d] = m_state[d]
      /\ m_state'[c] = "Active" /\ uri' = uri
  BY DEF OpenSucceeds, TypeOK
<1>3. c \notin m_connectionToItem /\ \A w \in URIs : connection[w] # c /\ m_connections[w] # c
  BY <1>1 DEF MapInv
<1>4. /\ \A w \in URIs \ {u} : connection'[w] = connection[w] /\ m_connections'[w] = m_connections[w]
      /\ connection'[u] = c /\ m_connections'[u] = c
      /\ m_connectionToItem' = m_connectionToItem \cup {c}
      /\ m_connectionItems' = m_connectionItems \cup {u}
  BY <1>1 DEF OpenSucceeds, registerConnection, ItemTakes, TypeOK
<1>5. \A w \in URIs \ {u} : Connected(w)' => Connected(w)
  BY <1>2, <1>3, <1>4, NoneAssumption DEF Connected, TypeOK, Owners
<1>6. ConnectedIsPolled'
  BY <1>4, <1>5 DEF MapInv, ConnectedIsPolled
<1>7. \A d \in m_connectionToItem' :
        /\ m_state'[d] \in {"Active", "ConnectionFailed", "Disconnected"}
        /\ uri'[d] \in m_connectionItems'
  BY <1>2, <1>4 DEF MapInv, TypeOK
<1>8. \A w \in URIs, d \in Conns :
        connection'[w] = d \/ m_connections'[w] = d => d \in m_connectionToItem' /\ uri'[d] = w
  BY <1>2, <1>3, <1>4 DEF MapInv
<1>9. \A w \in URIs : m_connections'[w] # None => connection'[w] # None
  BY <1>4, NoneAssumption DEF MapInv
<1>10. \A d \in Conns : m_state'[d] # "new" => uri'[d] \in URIs
  BY <1>1, <1>2 DEF MapInv
<1>11. QED
  BY <1>6, <1>7, <1>8, <1>9, <1>10 DEF MapInv

\* Nothing is shown or polled under u any more, and nobody else is let go.
LEMMA ReleaseMap ==
  ASSUME TypeOK, MapInv, NEW u \in URIs, NEW gone \in SUBSET Conns,
         \A d \in gone : uri[d] = u,
         m_connectionToItem' = m_connectionToItem \ gone,
         connection' = [connection EXCEPT ![u] = None],
         m_connections' = [m_connections EXCEPT ![u] = None],
         m_connectionItems \ {u} \subseteq m_connectionItems',
         u \in m_connectionItems =>
           u \in m_connectionItems' \/ \A d \in m_connectionToItem' : uri[d] # u,
         \A d \in Conns : m_state[d] # "new" => uri'[d] = uri[d],
         \A d \in Conns : m_state'[d] # "new" => uri'[d] \in URIs,
         \A d \in m_connectionToItem' : m_state'[d] = m_state[d]
  PROVE  MapInv'
<1>1. /\ \A w \in URIs \ {u} : connection'[w] = connection[w] /\ m_connections'[w] = m_connections[w]
      /\ connection'[u] = None /\ m_connections'[u] = None
  BY DEF TypeOK
<1>2. \A d \in m_connectionToItem' :
        /\ d \in Conns /\ d \in m_connectionToItem
        /\ m_state'[d] \in {"Active", "ConnectionFailed", "Disconnected"} /\ uri'[d] = uri[d]
        /\ uri[d] \in m_connectionItems /\ m_state'[d] = m_state[d]
  BY DEF MapInv, TypeOK
<1>3. \A d \in m_connectionToItem' : uri'[d] \in m_connectionItems'
  BY <1>2
<1>4. \A w \in URIs, d \in Conns :
        connection'[w] = d \/ m_connections'[w] = d => d \in m_connectionToItem' /\ uri'[d] = w
  <2>1. SUFFICES ASSUME NEW w \in URIs, NEW d \in Conns,
                        connection'[w] = d \/ m_connections'[w] = d
                 PROVE  d \in m_connectionToItem' /\ uri'[d] = w
    OBVIOUS
  <2>2. w # u /\ d \in m_connectionToItem /\ uri[d] = w
    BY <1>1, <2>1, NoneAssumption DEF MapInv
  <2>3. d \in m_connectionToItem'
    BY <2>2
  <2>4. QED
    BY <1>2, <2>2, <2>3
<1>5. \A w \in URIs : Connected(w)' => w # u /\ Connected(w)
  <2>1. SUFFICES ASSUME NEW w \in URIs, Connected(w)'
                 PROVE  w # u /\ Connected(w)
    OBVIOUS
  <2>2. w # u /\ connection[w] \in Conns /\ connection[w] = connection'[w]
    BY <1>1, <2>1 DEF Connected, TypeOK, Owners
  <2>3. QED
    BY <1>2, <1>4, <2>1, <2>2 DEF Connected
<1>6. ConnectedIsPolled'
  BY <1>1, <1>5 DEF MapInv, ConnectedIsPolled
<1>7. \A w \in URIs : m_connections'[w] # None => connection'[w] # None
  BY <1>1 DEF MapInv
<1>8. QED
  BY <1>2, <1>3, <1>4, <1>6, <1>7 DEF MapInv

LEMMA MapNext ==
  ASSUME TypeOK, MapInv, [Next]_vars
  PROVE  MapInv'
<1>1. CASE CloseMenu
  BY <1>1, MapUnchanged DEF CloseMenu, mapVars, objectVars, treeVars
<1>2. ASSUME NEW u \in URIs, onDisconnectFromConnection(u) PROVE MapInv'
  <2>1. connection[u] \in Conns /\ uri[connection[u]] = u
    BY <1>2 DEF onDisconnectFromConnection, TypeOK, Owners, MapInv
  <2>2. /\ m_connectionToItem' = m_connectionToItem \ {connection[u]}
        /\ connection' = [connection EXCEPT ![u] = None]
        /\ m_connections' = [m_connections EXCEPT ![u] = None]
        /\ UNCHANGED <<uri, m_state, m_connectionItems>>
    BY <1>2 DEF onDisconnectFromConnection, unregisterConnection, ItemReleases, objectVars
  <2>3. {connection[u]} \in SUBSET Conns /\ \A d \in {connection[u]} : uri[d] = u
    BY <2>1
  <2>4. u \in m_connectionItems => u \in m_connectionItems'
    BY <2>2
  <2>5. QED
    BY <2>2, <2>3, <2>4, ReleaseMap DEF MapInv
<1>3. ASSUME NEW u \in URIs, onDeleteConnection(u) PROVE MapInv'
  <2> DEFINE left == {c \in m_connectionToItem : uri[c] = u}
  <2>1. /\ m_connectionToItem' = m_connectionToItem \ left
        /\ connection' = [connection EXCEPT ![u] = None]
        /\ m_connectionItems' = m_connectionItems \ {u}
        /\ UNCHANGED <<uri, m_state>>
    BY <1>3 DEF onDeleteConnection, objectVars
  <2>2. m_connections' = [m_connections EXCEPT ![u] = None]
    BY <1>3 DEF onDeleteConnection, unregisterConnection, MapInv, TypeOK
  <2>3. left \in SUBSET Conns
    BY DEF TypeOK
  <2>4. QED
    BY <2>1, <2>2, <2>3, ReleaseMap DEF MapInv
<1>4. ASSUME NEW u \in URIs, onTick(u) PROVE MapInv'
  BY <1>4, MapUnchanged DEF onTick, mapVars
<1>5. ASSUME NEW u \in URIs, onTickLost(u) PROVE MapInv'
  <2>1. PICK c \in Conns : /\ Ticked(u, c) /\ m_state' = [m_state EXCEPT ![c] = "Disconnected"]
                           /\ UNCHANGED <<uri, m_connections, treeVars>>
    BY <1>5 DEF onTickLost
  <2>2. \A d \in Conns : m_state'[d] = m_state[d] \/ (d = c /\ m_state'[d] = "Disconnected")
    BY <2>1 DEF TypeOK
  <2>3. \A w \in URIs : Connected(w)' => Connected(w)
    BY <2>1, <2>2 DEF Connected, TypeOK, Owners, treeVars
  <2>4. m_state[c] = "Active"
    BY <2>1 DEF Ticked
  <2>5. QED
    BY <2>1, <2>2, <2>3, <2>4 DEF MapInv, ConnectedIsPolled, treeVars, TypeOK
<1>6. ASSUME NEW c \in Conns, OpenSucceeds(c) PROVE MapInv'
  BY <1>6, OpenMap
<1>7. ASSUME NEW c \in Conns, OpenFails(c) PROVE MapInv'
  <2>1. uri[c] \in URIs /\ ItemTakes(uri[c], c) /\ m_state[c] = "Connecting"
    BY <1>7 DEF OpenFails, ShowOffline, MapInv
  <2>2. uri' = [uri EXCEPT ![c] = uri[c]]
    BY <1>7 DEF OpenFails, TypeOK
  <2>3. QED
    BY <1>7, <2>1, <2>2, OfflineMap DEF OpenFails
<1>8. ASSUME NEW c \in Conns, HideDialog(c) PROVE MapInv'
  BY <1>8, MapUnchanged DEF HideDialog, mapVars, objectVars, treeVars
<1>9. ASSUME NEW u \in URIs, NEW c \in Conns, StartConnecting(u, c) PROVE MapInv'
  BY <1>9, AttemptMap DEF StartConnecting
<1>10. ASSUME NEW u \in URIs, NEW c \in Conns, StartOffline(u, c) PROVE MapInv'
  BY <1>10, OfflineMap DEF StartOffline, ShowOffline, Fresh
<1>11. ASSUME NEW u \in URIs, NEW c \in Conns, AddConnection(u, c) PROVE MapInv'
  BY <1>11, AttemptMap DEF AddConnection, treeVars
<1>12. ASSUME NEW u \in URIs, NEW c \in Conns, onConnectToConnection(u, c) PROVE MapInv'
  BY <1>12, AttemptMap DEF onConnectToConnection, treeVars
<1>13. ASSUME NEW u \in URIs, NEW c \in Conns, onEditConnection(u, c) PROVE MapInv'
  <2> DEFINE old == connection[u]
  <2>1. old \in Conns /\ uri[old] = u /\ m_state[old] # "new" /\ c # old /\ m_state[c] = "new"
    BY <1>13 DEF onEditConnection, Fresh, TypeOK, Owners, MapInv
  <2>2. /\ m_connectionToItem' = m_connectionToItem \ {old}
        /\ connection' = [connection EXCEPT ![u] = None]
        /\ m_connections' = [m_connections EXCEPT ![u] = None]
        /\ uri' = [uri EXCEPT ![c] = u]
        /\ m_state' = [m_state EXCEPT ![old] = "deleted", ![c] = "Connecting"]
        /\ UNCHANGED m_connectionItems
    BY <1>13 DEF onEditConnection, unregisterConnection, ItemReleases
  <2>3. c \notin m_connectionToItem
    BY <2>1 DEF MapInv
  <2>4. \A d \in m_connectionToItem' : m_state'[d] = m_state[d]
    BY <2>2, <2>3 DEF TypeOK
  <2>5. /\ \A d \in Conns : m_state[d] # "new" => uri'[d] = uri[d]
        /\ \A d \in Conns : m_state'[d] # "new" => uri'[d] \in URIs
    BY <2>1, <2>2 DEF MapInv, TypeOK
  <2>6. {old} \in SUBSET Conns /\ \A d \in {old} : uri[d] = u
    BY <2>1
  <2>7. /\ m_connectionItems \ {u} \subseteq m_connectionItems'
        /\ u \in m_connectionItems => u \in m_connectionItems'
    BY <2>2
  <2>8. /\ m_connectionToItem' = m_connectionToItem \ {old}
        /\ u \in m_connectionItems =>
             u \in m_connectionItems' \/ \A d \in m_connectionToItem' : uri[d] # u
    BY <2>2, <2>7
  <2>9. QED
    <3> HIDE DEF old
    <3>1. QED
      BY <2>2, <2>4, <2>5, <2>6, <2>7, <2>8, ReleaseMap
<1>14. ASSUME NEW u \in URIs, NEW kind \in {"connect", "disconnect", "edit", "delete"},
              OpenMenu(u, kind)
       PROVE  MapInv'
  BY <1>14, MapUnchanged DEF OpenMenu, mapVars, objectVars, treeVars
<1>15. ASSUME NEW c \in Conns, NEW v \in VMs, onNewVM(c, v) PROVE MapInv'
  BY <1>15, MapUnchanged DEF onNewVM, mapVars
<1>16. ASSUME NEW u \in URIs, NEW v \in VMs, HostChanges(u, v) PROVE MapInv'
  BY <1>16, MapUnchanged DEF HostChanges, mapVars, objectVars, treeVars
<1>17. CASE UNCHANGED vars
  BY <1>17, MapUnchanged DEF vars, mapVars, objectVars, treeVars
<1>18. QED
  BY <1>1, <1>2, <1>3, <1>4, <1>5, <1>6, <1>7, <1>8, <1>9, <1>10, <1>11, <1>12, <1>13, <1>14,
     <1>15, <1>16, <1>17 DEF Next

-----------------------------------------------------------------------------
(* The rows. *)

\* A poll of c takes no row of a VM away that the host has, and gives each one it
\* has a row.
LEMMA PolledKeeps ==
  ASSUME NEW R \in RowTables, NEW c \in Owners, NEW T, NEW H, NEW v \in VMs,
         \/ v \in H /\ (v \in T => R[v] # << >>)
         \/ v \notin T \ H /\ R[v] # << >>
  PROVE  Polled(R, c, T, H)[v] # << >>
<1> DEFINE A == onDomainAdded(R, H \ T, c)
<1>1. A \in RowTables /\ A[v] # << >>
  BY AddedRows
<1>2. onDomainRemoved(A, T \ H)[v] = A[v]
  BY <1>1, RemovedRows
<1>3. QED
  BY <1>1, <1>2 DEF Polled

\* A row after a poll is a new first row of c, or it was the next one before the
\* poll took the first row, or it was there.
LEMMA PolledOrdered ==
  ASSUME NEW R \in RowTables, NEW c \in Owners, NEW T, NEW H,
         NEW v \in VMs, NEW i \in DOMAIN Polled(R, c, T, H)[v]
  PROVE  \/ i = 1 /\ v \in H \ T /\ Polled(R, c, T, H)[v][i] = c
         \/ /\ v \in T \ H /\ i \in Nat \ {0} /\ i + 1 \in DOMAIN R[v]
            /\ Polled(R, c, T, H)[v][i] = R[v][i + 1]
         \/ v \notin T \ H /\ i \in DOMAIN R[v] /\ Polled(R, c, T, H)[v][i] = R[v][i]
<1> DEFINE A == onDomainAdded(R, H \ T, c)
           P == onDomainRemoved(A, T \ H)
<1>1. A \in RowTables /\ GrownBy(A, R, H \ T, c)
  BY AddedRows
<1>2. CASE v \in T \ H
  <2>1. i + 1 \in DOMAIN A[v] /\ i \in Nat \ {0} /\ P[v][i] = A[v][i + 1]
    BY <1>1, <1>2, RemovedRows DEF Polled
  <2>2. i + 1 \in DOMAIN R[v] /\ A[v][i + 1] = R[v][i + 1]
    BY <1>1, <1>2, <2>1 DEF GrownBy
  <2>3. QED
    BY <1>2, <2>1, <2>2 DEF Polled
<1>3. CASE v \notin T \ H
  <2>1. P[v] = A[v]
    BY <1>1, <1>3, RemovedRows
  <2>2. \/ i \in DOMAIN R[v] /\ P[v][i] = R[v][i]
        \/ i = 1 /\ v \in H \ T /\ P[v][i] = c
    BY <1>1, <2>1 DEF GrownBy, Polled
  <2>3. QED
    BY <1>3, <2>2 DEF Polled
<1>4. QED
  BY <1>2, <1>3

rowVars == <<rows, uri, m_state, m_domains, m_connections, m_connectionToItem, lost>>

LEMMA RowsUnchanged ==
  ASSUME RowsInv, UNCHANGED rowVars
  PROVE  RowsInv'
  BY DEF RowsInv, RowOf, KnownIsListed, rowVars

LEMMA AttemptRows ==
  ASSUME TypeOK, MapInv, RowsInv, NEW u \in URIs, NEW c \in Conns, Attempt(u, c),
         UNCHANGED <<rows, m_domains, m_connections, m_connectionToItem, lost>>
  PROVE  RowsInv'
<1>1. c \notin m_connectionToItem /\ m_domains[c] = {}
  BY DEF Attempt, Fresh, MapInv, RowsInv
<1>2. \A d \in Conns \ {c} : m_state'[d] = m_state[d] /\ uri'[d] = uri[d]
  BY DEF Attempt, TypeOK
<1>3. \A w, v, i : \A d \in Conns : RowOf(w, v, i, d) => RowOf(w, v, i, d)'
  BY <1>1, <1>2 DEF RowOf
<1>4. QED
  BY <1>1, <1>2, <1>3 DEF RowsInv, KnownIsListed

LEMMA OfflineRows ==
  ASSUME TypeOK, MapInv, RowsInv, NEW u \in URIs, NEW c \in Conns, ShowOffline(u, c),
         m_state[c] \in {"new", "Connecting"},
         NEW s \in {"ConnectionFailed", "Disconnected"},
         m_state' = [m_state EXCEPT ![c] = s],
         uri' = [uri EXCEPT ![c] = u], UNCHANGED <<m_connections, lost>>
  PROVE  RowsInv'
<1>1. /\ \A d \in Conns \ {c} : /\ m_state'[d] = m_state[d] /\ uri'[d] = uri[d]
                                /\ m_domains'[d] = m_domains[d]
      /\ uri'[c] = u /\ m_state'[c] = s /\ m_domains'[c] = cache[u]
  BY DEF TypeOK, ShowOffline
<1>2. c \notin m_connectionToItem /\ \A w \in URIs : m_connections[w] # c
  BY DEF MapInv
<1>3. m_connectionToItem' = m_connectionToItem \cup {c}
  BY DEF ShowOffline, ItemTakes
<1>4. \A w, v, i : \A d \in Conns : RowOf(w, v, i, d) => RowOf(w, v, i, d)'
  BY <1>1, <1>2, <1>3 DEF RowOf
<1>5. /\ rows[u] \in RowTables /\ c \in Owners
      /\ rows'[u] = RowsAppended(rows[u], cache[u], c)
      /\ \A w \in URIs \ {u} : rows'[w] = rows[w]
  BY DEF ShowOffline, TypeOK, RowTables, Owners
<1>6. ASSUME NEW w \in URIs, NEW v \in VMs, NEW i \in DOMAIN rows'[w][v], NEW d \in Conns,
             rows'[w][v][i] = d
      PROVE  RowOf(w, v, i, d)'
  <2>1. CASE i \in DOMAIN rows[w][v] /\ rows'[w][v][i] = rows[w][v][i]
    BY <1>4, <1>6, <2>1 DEF RowsInv
  <2>2. CASE w = u /\ v \in cache[u] /\ rows'[w][v][i] = c
    BY <1>1, <1>3, <1>6, <2>2 DEF RowOf
  <2>3. QED
    BY <1>5, <2>1, <2>2, AppendedRows
<1>7. KnownIsListed'
  <2>1. SUFFICES ASSUME NEW w \in URIs, NEW d \in Conns, m_connections'[w] = d,
                        NEW v \in m_domains'[d]
                 PROVE  rows'[w][v] # << >>
    BY DEF KnownIsListed
  <2>2. d # c /\ m_connections[w] = d /\ v \in m_domains[d] /\ v \in VMs
    BY <1>1, <1>2, <2>1 DEF TypeOK
  <2>3. rows[w][v] # << >>
    BY <2>2 DEF RowsInv, KnownIsListed
  <2>4. CASE w = u
    BY <1>5, <2>2, <2>3, <2>4, AppendedRows
  <2>5. CASE w # u
    BY <1>5, <2>3, <2>5
  <2>6. QED
    BY <2>4, <2>5
<1>8. QED
  BY <1>1, <1>6, <1>7 DEF RowsInv

\* The refresh of an open connection: the cached rows it brings are first rows,
\* since they come only where there was none.
LEMMA RefreshRows ==
  ASSUME TypeOK, MapInv, RowsInv, NEW c \in Conns, OpenSucceeds(c), NEW u \in URIs,
         u = uri[c], RefreshItem(u, c)
  PROVE  RowsInv'
<1> DEFINE first == IF Childless(rows[u]) THEN cache[u] ELSE {}
           R == RowsAppended(rows[u], first, c)
           L == {d \in Conns : m_state'[d] = "Active"}
<1>0. PICK H \in SUBSET VMs : /\ rows' = [rows EXCEPT ![u] = Polled(R, c, first, H)]
                              /\ m_domains' = [m_domains EXCEPT ![c] = H]
  BY DEF RefreshItem
<1>1. m_state[c] = "Connecting" /\ c \notin m_connectionToItem
  BY DEF OpenSucceeds, MapInv
<1>2. /\ \A d \in Conns \ {c} : m_state'[d] = m_state[d] /\ m_domains'[d] = m_domains[d]
      /\ m_state'[c] = "Active" /\ m_domains'[c] = H
      /\ UNCHANGED <<uri, lost>>
  BY <1>0 DEF OpenSucceeds, TypeOK
<1>3. /\ \A w \in URIs \ {u} : m_connections'[w] = m_connections[w] /\ rows'[w] = rows[w]
      /\ m_connections'[u] = c /\ rows'[u] = Polled(R, c, first, H)
      /\ m_connectionToItem' = m_connectionToItem \cup {c}
  BY <1>0, <1>1 DEF OpenSucceeds, registerConnection, ItemTakes, TypeOK
<1>4. rows[u] \in RowTables /\ c \in Owners /\ R \in RowTables
  BY <1>1, AppendedRows DEF TypeOK, RowTables, Owners
<1>5. \A w \in URIs, v \in VMs : \A i \in DOMAIN rows[w][v] : rows[w][v][i] # c
  BY <1>1 DEF RowsInv, RowOf
<1>6. \A w, v, i : \A d \in Conns \ {c} : RowOf(w, v, i, d) => RowOf(w, v, i, d)'
  BY <1>2, <1>3 DEF RowOf
<1>7. \A v \in VMs : \A i \in DOMAIN R[v] : R[v][i] \in L => i = 1
  <2>1. SUFFICES ASSUME NEW v \in VMs, NEW i \in DOMAIN R[v], R[v][i] \in L
                 PROVE  i = 1
    OBVIOUS
  <2>2. CASE i \in DOMAIN rows[u][v] /\ R[v][i] = rows[u][v][i]
    <3>1. R[v][i] \in Conns \ {c} /\ m_state[R[v][i]] = "Active"
      BY <1>1, <1>2, <1>5, <2>1, <2>2
    <3>2. RowOf(u, v, i, R[v][i])
      BY <1>1, <2>2, <3>1 DEF RowsInv
    <3>3. QED
      BY <3>1, <3>2 DEF RowOf
  <2>3. CASE v \in first /\ i = Len(rows[u][v]) + 1
    <3>1. rows[u][v] = << >>
      BY <2>3 DEF Childless
    <3>2. QED
      BY <2>3, <3>1
  <2>4. QED
    BY <1>4, <2>2, <2>3, AppendedRows
<1>8. ASSUME NEW v \in VMs, NEW i \in DOMAIN rows'[u][v], NEW d \in Conns, rows'[u][v][i] = d
      PROVE  RowOf(u, v, i, d)'
  <2>1. \/ i = 1 /\ v \in H \ first /\ d = c
        \/ v \in first \ H /\ i \in Nat \ {0} /\ i + 1 \in DOMAIN R[v] /\ d = R[v][i + 1]
        \/ v \notin first \ H /\ i \in DOMAIN R[v] /\ d = R[v][i]
    <3> HIDE DEF first, R
    <3>1. QED
      BY <1>3, <1>4, <1>8, PolledOrdered
  <2>2. CASE i = 1 /\ v \in H /\ d = c
    BY <1>2, <1>3, <2>2 DEF RowOf
  <2>3. ASSUME NEW j \in DOMAIN rows[u][v], rows[u][v][j] = d, d \in L => i = 1
        PROVE  RowOf(u, v, i, d)'
    <3>1. d # c /\ RowOf(u, v, j, d)
      BY <1>5, <2>3 DEF RowsInv
    <3>2. RowOf(u, v, j, d)'
      BY <1>6, <3>1
    <3>3. QED
      BY <2>3, <3>2 DEF RowOf
  <2>4. CASE v \in first \ H /\ i \in Nat \ {0} /\ i + 1 \in DOMAIN R[v] /\ d = R[v][i + 1]
    <3>1. d \notin L
      BY <1>7, <2>4
    <3>2. i + 1 \in DOMAIN rows[u][v] /\ rows[u][v][i + 1] = d
      BY <1>2, <1>4, <2>4, <3>1, AppendedRows
    <3>3. QED
      BY <2>3, <3>1, <3>2
  <2>5. CASE v \notin first \ H /\ i \in DOMAIN R[v] /\ d = R[v][i]
    <3>1. d \in L => i = 1
      BY <1>7, <2>5
    <3>2. \/ i \in DOMAIN rows[u][v] /\ rows[u][v][i] = d
          \/ v \in first /\ d = c
      BY <1>4, <2>5, AppendedRows
    <3>3. c \in L
      BY <1>2
    <3>4. QED
      BY <2>2, <2>3, <2>5, <3>1, <3>2, <3>3
  <2>6. QED
    BY <2>1, <2>2, <2>4, <2>5
<1>9. ASSUME NEW w \in URIs, NEW v \in VMs, NEW i \in DOMAIN rows'[w][v], NEW d \in Conns,
             rows'[w][v][i] = d
      PROVE  RowOf(w, v, i, d)'
  <2>1. CASE w = u
    BY <1>8, <1>9, <2>1
  <2>2. CASE w # u
    <3>1. rows'[w] = rows[w]
      BY <1>3, <2>2
    <3>2. RowOf(w, v, i, d) /\ d # c
      BY <1>5, <1>9, <3>1 DEF RowsInv
    <3>3. QED
      BY <1>6, <3>2
  <2>3. QED
    BY <2>1, <2>2
<1>10. KnownIsListed'
  <2>1. SUFFICES ASSUME NEW w \in URIs, NEW d \in Conns, m_connections'[w] = d,
                        NEW v \in m_domains'[d]
                 PROVE  rows'[w][v] # << >>
    BY DEF KnownIsListed
  <2>2. CASE w = u
    <3>1. v \in H /\ v \in VMs
      BY <1>1, <1>2, <1>3, <2>1, <2>2 DEF TypeOK
    <3>2. v \in first => R[v] # << >>
      BY <1>4, <3>1, AppendedRows
    <3>3. QED
      BY <1>3, <1>4, <2>2, <3>1, <3>2, PolledKeeps
  <2>3. CASE w # u
    <3>1. m_connections[w] = d /\ d # c
      BY <1>1, <1>3, <2>1, <2>3 DEF MapInv
    <3>2. QED
      BY <1>2, <1>3, <2>1, <2>3, <3>1 DEF RowsInv, KnownIsListed
  <2>4. QED
    BY <2>2, <2>3
<1>11. \A d \in Conns : m_state'[d] \in {"new", "Connecting"} => m_domains'[d] = {}
  BY <1>2 DEF RowsInv
<1>12. QED
  BY <1>9, <1>10, <1>11 DEF RowsInv

LEMMA OpenRows ==
  ASSUME TypeOK, MapInv, RowsInv, NEW c \in Conns, OpenSucceeds(c)
  PROVE  RowsInv'
<1> DEFINE u == uri[c]
<1>1. CASE RefreshItem(u, c)
  BY <1>1, RefreshRows DEF OpenSucceeds, MapInv
<1>2. CASE UNCHANGED <<rows, m_domains, cache>>
  <2>1. u \in URIs /\ c \notin m_connectionToItem /\ m_domains[c] = {}
    BY DEF OpenSucceeds, MapInv, RowsInv
  <2>2. /\ \A d \in Conns \ {c} : m_state'[d] = m_state[d]
        /\ m_state'[c] = "Active"
        /\ m_connections' = [m_connections EXCEPT ![u] = c]
        /\ m_connectionToItem' = m_connectionToItem \cup {c}
        /\ UNCHANGED <<uri, lost>>
    BY DEF OpenSucceeds, registerConnection, ItemTakes, TypeOK
  <2>3. \A w, v, i : \A d \in Conns : RowOf(w, v, i, d) => RowOf(w, v, i, d)'
    BY <1>2, <2>1, <2>2 DEF RowOf
  <2>4. KnownIsListed'
    BY <1>2, <2>1, <2>2 DEF RowsInv, KnownIsListed, TypeOK
  <2>5. QED
    BY <1>2, <2>2, <2>3, <2>4 DEF RowsInv
<1>3. QED
  BY <1>1, <1>2 DEF OpenSucceeds

LEMMA TickRows ==
  ASSUME TypeOK, MapInv, RowsInv, NEW u \in URIs, onTick(u)
  PROVE  RowsInv'
<1>1. PICK c \in Conns, H \in SUBSET VMs :
        /\ Ticked(u, c)
        /\ m_domains' = [m_domains EXCEPT ![c] = H]
        /\ rows' = [rows EXCEPT ![u] =
             IF c \in m_connectionToItem THEN Polled(rows[u], c, m_domains[c], H)
             ELSE rows[u]]
        /\ UNCHANGED <<uri, m_state, m_connections, m_connectionToItem, lost>>
  BY DEF onTick
<1> DEFINE T == m_domains[c]
<1>2. c \in m_connectionToItem /\ uri[c] = u /\ m_state[c] = "Active" /\ m_connections[u] = c
  BY <1>1 DEF Ticked, MapInv
<1>3. /\ \A w \in URIs \ {u} : rows'[w] = rows[w]
      /\ rows'[u] = Polled(rows[u], c, T, H)
      /\ \A d \in Conns \ {c} : m_domains'[d] = m_domains[d]
      /\ m_domains'[c] = H
  BY <1>1, <1>2 DEF TypeOK
<1>4. rows[u] \in RowTables /\ c \in Owners
  BY DEF TypeOK, RowTables, Owners
<1>5. \A w, v, i : \A d \in Conns \ {c} : RowOf(w, v, i, d) => RowOf(w, v, i, d)'
  BY <1>1, <1>3 DEF RowOf
<1>6. ASSUME NEW v \in VMs, NEW i \in DOMAIN rows'[u][v], NEW d \in Conns, rows'[u][v][i] = d
      PROVE  RowOf(u, v, i, d)'
  <2>1. \/ i = 1 /\ v \in H \ T /\ d = c
        \/ v \in T \ H /\ i \in Nat \ {0} /\ i + 1 \in DOMAIN rows[u][v] /\ d = rows[u][v][i + 1]
        \/ v \notin T \ H /\ i \in DOMAIN rows[u][v] /\ d = rows[u][v][i]
    <3> HIDE DEF T
    <3>1. QED
      BY <1>3, <1>4, <1>6, PolledOrdered
  <2>2. CASE i = 1 /\ v \in H /\ d = c
    BY <1>1, <1>2, <1>3, <2>2 DEF RowOf
  <2>3. CASE v \in T \ H /\ i \in Nat \ {0} /\ i + 1 \in DOMAIN rows[u][v] /\ d = rows[u][v][i + 1]
    <3>1. RowOf(u, v, i + 1, d)
      BY <2>3 DEF RowsInv
    <3>2. m_state[d] # "Active" /\ d # c
      BY <1>2, <2>3, <3>1 DEF RowOf
    <3>3. RowOf(u, v, i + 1, d)'
      BY <1>5, <3>1, <3>2
    <3>4. QED
      BY <1>1, <3>2, <3>3 DEF RowOf
  <2>4. CASE v \notin T \ H /\ i \in DOMAIN rows[u][v] /\ d = rows[u][v][i]
    <3>1. RowOf(u, v, i, d)
      BY <2>4 DEF RowsInv
    <3>2. CASE d = c
      BY <1>1, <1>3, <2>4, <3>1, <3>2 DEF RowOf
    <3>3. CASE d # c
      BY <1>5, <3>1, <3>3
    <3>4. QED
      BY <3>2, <3>3
  <2>5. QED
    BY <2>1, <2>2, <2>3, <2>4
<1>7. ASSUME NEW w \in URIs, NEW v \in VMs, NEW i \in DOMAIN rows'[w][v], NEW d \in Conns,
             rows'[w][v][i] = d
      PROVE  RowOf(w, v, i, d)'
  <2>1. CASE w = u
    BY <1>6, <1>7, <2>1
  <2>2. CASE w # u
    <3>1. rows'[w] = rows[w]
      BY <1>3, <2>2
    <3>2. RowOf(w, v, i, d) /\ d # c
      BY <1>2, <1>7, <2>2, <3>1 DEF RowsInv, RowOf
    <3>3. QED
      BY <1>5, <3>2
  <2>3. QED
    BY <2>1, <2>2
<1>8. KnownIsListed'
  <2>1. SUFFICES ASSUME NEW w \in URIs, NEW d \in Conns, m_connections'[w] = d,
                        NEW v \in m_domains'[d]
                 PROVE  rows'[w][v] # << >>
    BY DEF KnownIsListed
  <2>2. CASE w = u
    <3>1. d = c /\ v \in H /\ v \in VMs
      BY <1>1, <1>2, <1>3, <2>1, <2>2 DEF TypeOK
    <3>2. v \in T => rows[u][v] # << >>
      BY <1>2 DEF RowsInv, KnownIsListed
    <3>3. QED
      BY <1>3, <1>4, <2>2, <3>1, <3>2, PolledKeeps
  <2>3. CASE w # u
    <3>1. m_connections[w] = d /\ d # c
      BY <1>1, <1>2, <2>1, <2>3 DEF MapInv
    <3>2. QED
      BY <1>3, <2>1, <2>3, <3>1 DEF RowsInv, KnownIsListed
  <2>4. QED
    BY <2>2, <2>3
<1>9. \A d \in Conns : m_state'[d] \in {"new", "Connecting"} => m_domains'[d] = {}
  BY <1>1, <1>2, <1>3 DEF RowsInv
<1>10. QED
  BY <1>7, <1>8, <1>9 DEF RowsInv

LEMMA LostRows ==
  ASSUME TypeOK, MapInv, RowsInv, NEW u \in URIs, onTickLost(u)
  PROVE  RowsInv'
<1>1. PICK c \in Conns :
        /\ m_state' = [m_state EXCEPT ![c] = "Disconnected"]
        /\ m_domains' = [m_domains EXCEPT ![c] = {}] /\ lost' = lost \cup {c}
        /\ UNCHANGED <<rows, uri, m_connections, m_connectionToItem>>
  BY DEF onTickLost, treeVars
<1>2. \A d \in Conns : \/ /\ m_state'[d] = m_state[d] /\ m_domains'[d] = m_domains[d]
                          /\ d \in lost => d \in lost'
                       \/ /\ m_state'[d] = "Disconnected" /\ m_domains'[d] = {}
                          /\ d \in lost'
  BY <1>1 DEF TypeOK
<1>3. \A w, v, i : \A d \in Conns : RowOf(w, v, i, d) => RowOf(w, v, i, d)'
  BY <1>1, <1>2 DEF RowOf
<1>4. KnownIsListed'
  BY <1>1, <1>2 DEF RowsInv, KnownIsListed
<1>5. QED
  BY <1>1, <1>2, <1>3, <1>4 DEF RowsInv

LEMMA NewVMRows ==
  ASSUME TypeOK, MapInv, RowsInv, NEW c \in Conns, NEW x \in VMs, NEW u \in URIs, u = uri[c],
         onNewVM(c, x)
  PROVE  RowsInv'
<1>1. m_state[c] = "Active" /\ c \in m_connectionToItem
  BY DEF onNewVM, MapInv, RowsInv, RowOf
<1>2. /\ \A w \in URIs \ {u} : rows'[w] = rows[w]
      /\ rows'[u] = onDomainAdded(rows[u], {x}, c)
      /\ \A d \in Conns \ {c} : m_domains'[d] = m_domains[d]
      /\ m_domains'[c] = m_domains[c] \cup {x}
      /\ UNCHANGED <<uri, m_state, m_connections, m_connectionToItem, lost>>
  BY <1>1 DEF onNewVM, TypeOK
<1>3. rows[u] \in RowTables /\ c \in Owners
  BY DEF TypeOK, RowTables, Owners
<1>4. \A w, v, i : \A d \in Conns : RowOf(w, v, i, d) => RowOf(w, v, i, d)'
  BY <1>2 DEF RowOf
<1>5. ASSUME NEW w \in URIs, NEW v \in VMs, NEW i \in DOMAIN rows'[w][v], NEW d \in Conns,
             rows'[w][v][i] = d
      PROVE  RowOf(w, v, i, d)'
  <2>1. CASE i \in DOMAIN rows[w][v] /\ rows'[w][v][i] = rows[w][v][i]
    BY <1>4, <1>5, <2>1 DEF RowsInv
  <2>2. CASE w = u /\ v = x /\ i = 1 /\ d = c
    BY <1>1, <1>2, <2>2 DEF RowOf
  <2>3. QED
    BY <1>2, <1>3, <1>5, <2>1, <2>2, AddedRows DEF GrownBy
<1>6. KnownIsListed'
  <2>1. SUFFICES ASSUME NEW w \in URIs, NEW d \in Conns, m_connections'[w] = d,
                        NEW v \in m_domains'[d]
                 PROVE  rows'[w][v] # << >>
    BY DEF KnownIsListed
  <2>2. m_connections[w] = d /\ uri[d] = w
    BY <1>2, <2>1 DEF MapInv
  <2>3. v \in m_domains[d] \/ (v = x /\ d = c)
    BY <1>2, <2>1
  <2>4. v \in VMs
    BY <2>3 DEF TypeOK
  <2>5. rows[w][v] # << >> \/ (v = x /\ d = c)
    BY <2>2, <2>3 DEF RowsInv, KnownIsListed
  <2>6. QED
    BY <1>2, <1>3, <2>2, <2>4, <2>5, AddedRows
<1>7. \A d \in Conns : m_state'[d] \in {"new", "Connecting"} => m_domains'[d] = {}
  BY <1>1, <1>2 DEF RowsInv
<1>8. QED
  BY <1>5, <1>6, <1>7 DEF RowsInv

\* An item whose rows no longer point to any connection's domains.
LEMMA ReleaseRows ==
  ASSUME TypeOK, MapInv, RowsInv, NEW u \in URIs, NEW gone \in SUBSET Conns,
         \A d \in gone : uri[d] = u,
         \A w \in URIs \ {u} : rows'[w] = rows[w],
         \A v \in VMs : \A i \in DOMAIN rows'[u][v] : rows'[u][v][i] = None,
         m_connections' = [m_connections EXCEPT ![u] = None],
         m_connectionToItem' = m_connectionToItem \ gone,
         \A d \in m_connectionToItem' :
           m_state'[d] = m_state[d] /\ uri'[d] = uri[d] /\ m_domains'[d] = m_domains[d],
         \A d \in Conns : m_state'[d] \in {"new", "Connecting"} => m_domains'[d] = {},
         UNCHANGED lost
  PROVE  RowsInv'
<1>1. ASSUME NEW w \in URIs, NEW v \in VMs, NEW i \in DOMAIN rows'[w][v], NEW d \in Conns,
             rows'[w][v][i] = d
      PROVE  RowOf(w, v, i, d)'
  <2>1. w # u
    BY <1>1, NoneAssumption
  <2>2. RowOf(w, v, i, d)
    BY <1>1, <2>1 DEF RowsInv
  <2>3. d \in m_connectionToItem'
    BY <2>1, <2>2 DEF RowOf
  <2>4. QED
    BY <2>2, <2>3 DEF RowOf
<1>2. KnownIsListed'
  <2>1. SUFFICES ASSUME NEW w \in URIs, NEW d \in Conns, m_connections'[w] = d,
                        NEW v \in m_domains'[d]
                 PROVE  rows'[w][v] # << >>
    BY DEF KnownIsListed
  <2>2. w # u /\ m_connections[w] = d
    BY <2>1, NoneAssumption DEF TypeOK
  <2>3. d \in m_connectionToItem'
    BY <2>2 DEF MapInv
  <2>4. QED
    BY <2>1, <2>2, <2>3 DEF RowsInv, KnownIsListed
<1>3. QED
  BY <1>1, <1>2 DEF RowsInv

LEMMA RowsNext ==
  ASSUME TypeOK, MapInv, RowsInv, [Next]_vars
  PROVE  RowsInv'
<1>1. CASE CloseMenu
  BY <1>1, RowsUnchanged DEF CloseMenu, rowVars, objectVars, treeVars, hostVars
<1>2. ASSUME NEW u \in URIs, onDisconnectFromConnection(u) PROVE RowsInv'
  <2>1. {connection[u]} \in SUBSET Conns /\ \A d \in {connection[u]} : uri[d] = u
    BY <1>2 DEF onDisconnectFromConnection, TypeOK, Owners, MapInv
  <2>2. /\ m_connectionToItem' = m_connectionToItem \ {connection[u]}
        /\ m_connections' = [m_connections EXCEPT ![u] = None]
        /\ rows' = [rows EXCEPT ![u] = RowsConverted(rows[u])]
        /\ UNCHANGED <<uri, m_state, m_domains, lost>>
    BY <1>2 DEF onDisconnectFromConnection, unregisterConnection, ItemReleases, objectVars, hostVars
  <2>3. \A v \in VMs : \A i \in DOMAIN rows'[u][v] : rows'[u][v][i] = None
    BY <2>2, ConvertedRows DEF TypeOK, RowTables
  <2>4. \A w \in URIs \ {u} : rows'[w] = rows[w]
    BY <2>2 DEF TypeOK
  <2>5. QED
    BY <2>1, <2>2, <2>3, <2>4, ReleaseRows DEF RowsInv
<1>3. ASSUME NEW u \in URIs, onDeleteConnection(u) PROVE RowsInv'
  <2> DEFINE left == {c \in m_connectionToItem : uri[c] = u}
  <2>1. /\ m_connectionToItem' = m_connectionToItem \ left
        /\ rows' = [rows EXCEPT ![u] = NoRows]
        /\ UNCHANGED <<uri, m_state, m_domains, lost>>
    BY <1>3 DEF onDeleteConnection, objectVars, hostVars
  <2>2. m_connections' = [m_connections EXCEPT ![u] = None]
    BY <1>3 DEF onDeleteConnection, unregisterConnection, MapInv, TypeOK
  <2>3. left \in SUBSET Conns
    BY DEF TypeOK
  <2>4. \A v \in VMs : \A i \in DOMAIN rows'[u][v] : rows'[u][v][i] = None
    BY <2>1 DEF TypeOK, NoRows
  <2>5. \A w \in URIs \ {u} : rows'[w] = rows[w]
    BY <2>1 DEF TypeOK
  <2>6. QED
    BY <2>1, <2>2, <2>3, <2>4, <2>5, ReleaseRows DEF RowsInv
<1>4. ASSUME NEW u \in URIs, onTick(u) PROVE RowsInv'
  BY <1>4, TickRows
<1>5. ASSUME NEW u \in URIs, onTickLost(u) PROVE RowsInv'
  BY <1>5, LostRows
<1>6. ASSUME NEW c \in Conns, OpenSucceeds(c) PROVE RowsInv'
  BY <1>6, OpenRows
<1>7. ASSUME NEW c \in Conns, OpenFails(c) PROVE RowsInv'
  <2>1. uri[c] \in URIs /\ ShowOffline(uri[c], c) /\ m_state[c] = "Connecting"
    BY <1>7 DEF OpenFails, MapInv
  <2>2. uri' = [uri EXCEPT ![c] = uri[c]] /\ UNCHANGED <<m_connections, lost>>
    BY <1>7 DEF OpenFails, TypeOK, hostVars
  <2>3. QED
    BY <1>7, <2>1, <2>2, OfflineRows DEF OpenFails
<1>8. ASSUME NEW c \in Conns, HideDialog(c) PROVE RowsInv'
  BY <1>8, RowsUnchanged DEF HideDialog, rowVars, objectVars, treeVars, hostVars
<1>9. ASSUME NEW u \in URIs, NEW c \in Conns, StartConnecting(u, c) PROVE RowsInv'
  BY <1>9, AttemptRows DEF StartConnecting, hostVars
<1>10. ASSUME NEW u \in URIs, NEW c \in Conns, StartOffline(u, c) PROVE RowsInv'
  BY <1>10, OfflineRows DEF StartOffline, Fresh, hostVars
<1>11. ASSUME NEW u \in URIs, NEW c \in Conns, AddConnection(u, c) PROVE RowsInv'
  BY <1>11, AttemptRows DEF AddConnection, treeVars, hostVars
<1>12. ASSUME NEW u \in URIs, NEW c \in Conns, onConnectToConnection(u, c) PROVE RowsInv'
  BY <1>12, AttemptRows DEF onConnectToConnection, treeVars, hostVars
<1>13. ASSUME NEW u \in URIs, NEW c \in Conns, onEditConnection(u, c) PROVE RowsInv'
  <2> DEFINE old == connection[u]
  <2>1. old \in Conns /\ uri[old] = u /\ m_state[old] # "new" /\ c # old /\ m_state[c] = "new"
    BY <1>13 DEF onEditConnection, Fresh, TypeOK, Owners, MapInv
  <2>2. /\ m_connectionToItem' = m_connectionToItem \ {old}
        /\ m_connections' = [m_connections EXCEPT ![u] = None]
        /\ rows' = [rows EXCEPT ![u] = RowsConverted(rows[u])]
        /\ uri' = [uri EXCEPT ![c] = u]
        /\ m_state' = [m_state EXCEPT ![old] = "deleted", ![c] = "Connecting"]
        /\ m_domains' = [m_domains EXCEPT ![old] = {}]
        /\ UNCHANGED lost
    BY <1>13 DEF onEditConnection, unregisterConnection, ItemReleases, hostVars
  <2>3. c \notin m_connectionToItem /\ m_domains[c] = {}
    BY <2>1 DEF MapInv, RowsInv
  <2>4. /\ \A v \in VMs : \A i \in DOMAIN rows'[u][v] : rows'[u][v][i] = None
        /\ \A w \in URIs \ {u} : rows'[w] = rows[w]
    BY <2>2, ConvertedRows DEF TypeOK, RowTables
  <2>5. \A d \in m_connectionToItem' :
          m_state'[d] = m_state[d] /\ uri'[d] = uri[d] /\ m_domains'[d] = m_domains[d]
    BY <2>2, <2>3 DEF TypeOK
  <2>6. \A d \in Conns : m_state'[d] \in {"new", "Connecting"} => m_domains'[d] = {}
    <3>1. \A d \in Conns \ {c, old} : m_state'[d] = m_state[d]
      BY <2>2 DEF TypeOK
    <3>2. m_domains'[old] = {} /\ \A d \in Conns \ {old} : m_domains'[d] = m_domains[d]
      BY <2>1, <2>2 DEF TypeOK
    <3>3. QED
      BY <2>3, <3>1, <3>2 DEF RowsInv
  <2>7. {old} \in SUBSET Conns /\ \A d \in {old} : uri[d] = u
    BY <2>1
  <2>8. QED
    BY <2>2, <2>4, <2>5, <2>6, <2>7, ReleaseRows
<1>14. ASSUME NEW u \in URIs, NEW kind \in {"connect", "disconnect", "edit", "delete"},
              OpenMenu(u, kind)
       PROVE  RowsInv'
  BY <1>14, RowsUnchanged DEF OpenMenu, rowVars, objectVars, treeVars, hostVars
<1>15. ASSUME NEW c \in Conns, NEW v \in VMs, onNewVM(c, v) PROVE RowsInv'
  BY <1>15, NewVMRows DEF onNewVM, MapInv
<1>16. ASSUME NEW u \in URIs, NEW v \in VMs, HostChanges(u, v) PROVE RowsInv'
  BY <1>16, RowsUnchanged DEF HostChanges, rowVars, objectVars, treeVars
<1>17. CASE UNCHANGED vars
  BY <1>17, RowsUnchanged DEF vars, rowVars, objectVars, treeVars, hostVars
<1>18. QED
  BY <1>1, <1>2, <1>3, <1>4, <1>5, <1>6, <1>7, <1>8, <1>9, <1>10, <1>11, <1>12, <1>13, <1>14,
     <1>15, <1>16, <1>17 DEF Next

-----------------------------------------------------------------------------
(* The theorems. *)

LEMMA Inductive == Spec => []IInv
<1>1. Init => IInv
  <2>1. ASSUME Init PROVE TypeOK
    BY <2>1, NoRowsType, BoundsAssumption
    DEF Init, TypeOK, Owners, States, Modals, Closed, RowTables
  <2>2. ASSUME Init PROVE MapInv
    BY <2>2, NoneAssumption DEF Init, MapInv, ConnectedIsPolled, Connected
  <2>3. ASSUME Init PROVE RowsInv
    BY <2>3, NoneAssumption DEF Init, RowsInv, KnownIsListed, NoRows
  <2>4. QED
    BY <2>1, <2>2, <2>3 DEF IInv
<1>2. IInv /\ [Next]_vars => IInv'
  BY TypeNext, MapNext, RowsNext DEF IInv
<1>3. QED
  BY <1>1, <1>2, PTL DEF Spec

\* The variables of the window, the sidebar and the registry keep their types; an
\* item that was deleted leaves neither connection nor rows behind.
THEOREM ManagerTypeCorrect == Spec => []TypeOK
<1>1. IInv => TypeOK
  BY DEF IInv
<1>2. QED
  BY <1>1, Inductive, PTL

\* However many attempts for one URI overlap, and in whichever order they end, the
\* open connection that an item shows is the one Engine::onTick polls.
THEOREM ShownIsPolled == Spec => []ConnectedIsPolled
<1>1. IInv => ConnectedIsPolled
  BY DEF IInv, MapInv
<1>2. QED
  BY <1>1, Inductive, PTL

\* Engine::onTick never reaches a connection that onEditConnection deleted, and the
\* signals of one it polls always reach an item that is there.
THEOREM TickedIsHeard == Spec => []PolledIsHeard
<1>1. IInv => PolledIsHeard
  <2>1. SUFFICES ASSUME IInv, NEW u \in URIs, NEW c \in Conns, m_connections[u] = c
                 PROVE  /\ u \in m_connectionItems /\ uri[c] = u
                        /\ c \in m_connectionToItem /\ m_state[c] # "deleted"
    BY DEF PolledIsHeard
  <2>2. connection[u] # None /\ uri[c] = u /\ c \in m_connectionToItem
    BY <2>1, NoneAssumption DEF IInv, MapInv
  <2>3. QED
    BY <2>1, <2>2 DEF IInv, TypeOK, MapInv
<1>2. QED
  BY <1>1, Inductive, PTL

\* No row outlives the domain it points to, except behind a link that died: a poll
\* takes out the row of its own domain, and releasing an item changes all its rows.
THEOREM RowsPointToDomains == Spec => []RowsAlive
<1>1. IInv => RowsAlive
  BY DEF IInv, RowsInv, RowOf, MapInv, RowsAlive
<1>2. QED
  BY <1>1, Inductive, PTL

\* Every VM that the polled connection of an item knows is listed under the item.
THEOREM DomainsAreListed == Spec => []KnownIsListed
<1>1. IInv => KnownIsListed
  BY DEF IInv, RowsInv
<1>2. QED
  BY <1>1, Inductive, PTL

RowsKeptStep ==
  \A u \in URIs, v \in VMs :
    rows[u][v] # << >> /\ rows'[u][v] = << >> =>
      u \notin m_connectionItems' \/ PolledAway(u, v)

\* One item changes; a row of it that goes is one that a poll took away.
LEMMA KeptByOne ==
  ASSUME TypeOK, NEW u \in URIs, NEW S, rows' = [rows EXCEPT ![u] = S],
         \A v \in VMs : rows[u][v] # << >> /\ S[v] = << >> => PolledAway(u, v)
  PROVE  RowsKeptStep
<1>1. \A w \in URIs : w # u => rows'[w] = rows[w]
  BY DEF TypeOK
<1>2. rows'[u] = S
  BY DEF TypeOK
<1>3. QED
  BY <1>1, <1>2 DEF RowsKeptStep

LEMMA KeptByRefresh ==
  ASSUME TypeOK, NEW u \in URIs, NEW c \in Conns, RefreshItem(u, c)
  PROVE  RowsKeptStep
<1> DEFINE first == IF Childless(rows[u]) THEN cache[u] ELSE {}
           R == RowsAppended(rows[u], first, c)
<1>1. PICK H \in SUBSET VMs : rows' = [rows EXCEPT ![u] = Polled(R, c, first, H)]
  BY DEF RefreshItem
<1>2. rows[u] \in RowTables /\ R \in RowTables /\ c \in Owners
  BY AppendedRows DEF TypeOK, RowTables, Owners
<1>3. ASSUME NEW v \in VMs, rows[u][v] # << >> PROVE Polled(R, c, first, H)[v] # << >>
  <2>1. R[v] # << >>
    BY <1>2, <1>3, AppendedRows
  <2>2. v \notin first
    BY <1>3 DEF Childless
  <2>3. QED
    BY <1>2, <2>1, <2>2, PolledKeeps
<1>4. QED
  BY <1>1, <1>3, KeptByOne

\* A poll takes the rows away of what it takes out of the table only.
LEMMA KeptByTick ==
  ASSUME TypeOK, MapInv, RowsInv, NEW u \in URIs, onTick(u)
  PROVE  RowsKeptStep
<1>1. PICK c \in Conns, H \in SUBSET VMs :
        /\ m_connections[u] = c /\ c \in m_connectionToItem
        /\ Finds(u, H) /\ UNCHANGED m_state
        /\ m_domains' = [m_domains EXCEPT ![c] = H]
        /\ rows' = [rows EXCEPT ![u] = Polled(rows[u], c, m_domains[c], H)]
  BY DEF onTick, Ticked, MapInv
<1>2. rows[u] \in RowTables /\ c \in Owners
  BY DEF TypeOK, RowTables, Owners
<1>3. H = host[u] \/ faults' < faults
  BY <1>1, FindsType
<1>4. ASSUME NEW v \in VMs, rows[u][v] # << >>,
             Polled(rows[u], c, m_domains[c], H)[v] = << >>
      PROVE  PolledAway(u, v)
  <2>1. v \in m_domains[c] \ H
    BY <1>2, <1>4, PolledKeeps
  <2>2. m_domains'[c] = H
    BY <1>1 DEF TypeOK
  <2>3. QED
    BY <1>1, <1>3, <2>1, <2>2 DEF PolledAway
<1>5. QED
  BY <1>1, <1>4, KeptByOne

LEMMA KeptStep ==
  ASSUME TypeOK, MapInv, RowsInv, [Next]_vars
  PROVE  RowsKeptStep
<1>1. ASSUME UNCHANGED rows PROVE RowsKeptStep
  BY <1>1 DEF RowsKeptStep
<1>2. ASSUME NEW u \in URIs, ItemReleases(u) PROVE RowsKeptStep
  <2>1. \A v \in VMs : rows[u][v] # << >> => RowsConverted(rows[u])[v] # << >>
    BY ConvertedRows DEF TypeOK, RowTables
  <2>2. QED
    BY <1>2, <2>1, KeptByOne DEF ItemReleases
<1>3. ASSUME NEW u \in URIs, NEW c \in Conns, ShowOffline(u, c) PROVE RowsKeptStep
  <2>1. rows[u] \in RowTables /\ c \in Owners
    BY DEF TypeOK, RowTables, Owners
  <2>2. \A v \in VMs : rows[u][v] # << >> => RowsAppended(rows[u], cache[u], c)[v] # << >>
    BY <2>1, AppendedRows
  <2>3. QED
    BY <1>3, <2>2, KeptByOne DEF ShowOffline
<1>4. ASSUME NEW u \in URIs, onDeleteConnection(u) PROVE RowsKeptStep
  <2>1. u \notin m_connectionItems' /\ \A w \in URIs : w # u => rows'[w] = rows[w]
    BY <1>4 DEF onDeleteConnection, TypeOK
  <2>2. QED
    BY <2>1 DEF RowsKeptStep
<1>5. ASSUME NEW u \in URIs, onTick(u) PROVE RowsKeptStep
  BY <1>5, KeptByTick
<1>6. ASSUME NEW c \in Conns, OpenSucceeds(c) PROVE RowsKeptStep
  <2>1. uri[c] \in URIs
    BY <1>6 DEF OpenSucceeds, MapInv
  <2>2. QED
    BY <1>1, <1>6, <2>1, KeptByRefresh DEF OpenSucceeds
<1>7. ASSUME NEW c \in Conns, OpenFails(c) PROVE RowsKeptStep
  BY <1>3, <1>7 DEF OpenFails, MapInv
<1>8. ASSUME NEW c \in Conns, NEW x \in VMs, onNewVM(c, x) PROVE RowsKeptStep
  <2> DEFINE u == uri[c]
             S == IF c \in m_connectionToItem THEN onDomainAdded(rows[u], {x}, c) ELSE rows[u]
  <2>1. u \in URIs /\ rows' = [rows EXCEPT ![u] = S]
    BY <1>8 DEF onNewVM, MapInv
  <2>2. rows[u] \in RowTables /\ c \in Owners
    BY <2>1 DEF TypeOK, RowTables, Owners
  <2>3. \A v \in VMs : rows[u][v] # << >> => S[v] # << >>
    BY <2>2, AddedRows
  <2>4. QED
    BY <2>1, <2>3, KeptByOne
<1>9. ASSUME NEW u \in URIs, NEW c \in Conns,
             \/ StartConnecting(u, c) \/ StartOffline(u, c) \/ AddConnection(u, c)
             \/ onConnectToConnection(u, c) \/ onEditConnection(u, c)
      PROVE  RowsKeptStep
  BY <1>1, <1>2, <1>3, <1>9
  DEF StartConnecting, StartOffline, AddConnection, onConnectToConnection, onEditConnection,
      treeVars
<1>10. CASE CloseMenu
  BY <1>1, <1>10 DEF CloseMenu, treeVars
<1>11. ASSUME NEW u \in URIs, onDisconnectFromConnection(u) \/ onTickLost(u)
       PROVE  RowsKeptStep
  BY <1>1, <1>2, <1>11 DEF onDisconnectFromConnection, onTickLost, treeVars
<1>12. ASSUME NEW c \in Conns, HideDialog(c) PROVE RowsKeptStep
  BY <1>1, <1>12 DEF HideDialog, treeVars
<1>13. ASSUME NEW u \in URIs, NEW kind \in {"connect", "disconnect", "edit", "delete"},
              OpenMenu(u, kind)
       PROVE  RowsKeptStep
  BY <1>1, <1>13 DEF OpenMenu, treeVars
<1>14. ASSUME NEW u \in URIs, NEW v \in VMs, HostChanges(u, v) PROVE RowsKeptStep
  BY <1>1, <1>14 DEF HostChanges, treeVars
<1>15. CASE UNCHANGED vars
  BY <1>1, <1>15 DEF vars, treeVars
<1>16. QED
  BY <1>4, <1>5, <1>6, <1>7, <1>8, <1>9, <1>10, <1>11, <1>12, <1>13, <1>14, <1>15 DEF Next

\* A VM vanishes from the sidebar only in a poll that took it out of the table of
\* its connection, because the host has lost it or a list call failed, or with its
\* item: no attempt, failure, disconnect, lost link or edit takes it away.
THEOREM VMsAreKept == Spec => RowsKept
<1>1. IInv /\ [Next]_vars => [RowsKeptStep]_vars
  BY KeptStep DEF IInv
<1>2. QED
  BY <1>1, Inductive, PTL DEF Spec, RowsKept, RowsKeptStep
=============================================================================
