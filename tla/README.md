# A TLA+ verification of qvirt-manager

qvirt-manager is a Qt desktop application that shows and controls the virtual machines of libvirt
hosts.  This directory holds a TLA+ model of it: the connection to a host with its tables of domains,
networks, storage pools and node devices; a live domain with the window that controls it; the cache of VMs
on disk; the manager window with its sidebar over several connections; the storage and network dialogs; the
Host Details dialog; the details page with the Add Hardware dialog; the Create VM wizard; and the classes
that turn devices and parts of a domain into XML and back.  TLC checks the model on small instances, and
TLAPS proves the main safety properties of the core for all instances.

Paths below are relative to the repository; `Connection.cpp` without a directory is
`src/src/libvirt/Connection.cpp`, and so on.

## 1. The system

### Components, their state and their operations

| Component | State | Operations | Modelled in |
|---|---|---|---|
| `Connection` (libvirt/Connection.cpp) | `m_state`, `m_conn`, `m_tickCounter`, `m_initialPoll`, `m_pollingEnabled`, `m_tickBusy`, tables `m_domains`, `m_networks`, `m_storagePools`, `m_nodeDevices` | constructors, `openAsync`, `close`, `refresh`, `tick`, `initAllResources`, `poll*`, `defineDomain`, cache load and save | `Connection` (the table of domains) |
| stats worker of `Connection::tick` | the names to look up, the results | reads `m_domains` on a pool thread; its finished handler applies the results | `Connection`; seen from one domain, `Domain` |
| `Domain` (libvirt/Domain.cpp) | `m_domain`, `m_state`, `m_cachedXmlDesc`, `m_xmlFetched`, figures | `updateInfo(Async)`, `startAsync`, `shutdownAsync`, `destroyAsync`, `saveAsync`, `applyStats`, `getXMLDesc`, `setXML`, `attachDevice`, `detachDevice` | `Domain` |
| `VMWindow`, `DetailsPage` (ui/vmwindow) | enabled buttons, device tree | `onStartClicked`, `onStopClicked`, `onForceOffClicked`, `refresh`, `onAddHardware`, `onRemoveHardware` | `Domain` |
| `Config`, VM cache (core/Config.cpp) | `index.xml` and a file for each VM, per connection | `saveVMCache`, `loadVMCache`, `loadAllVMCache`, `removeVMCache`, `clearVMCache` | `VMCache` |
| `Engine` (core/Engine.cpp) | connections by URI, a 1 s timer | `registerConnection`, `unregisterConnection`, `onTick` | `Manager`; one flag of it, `Connection` |
| `ManagerWindow` (ui/manager) | progress dialog, open menu or question, attempts | add, connect, disconnect, edit and delete a connection, autoconnect, new VM | `Manager` |
| `ConnectionTreeModel` (ui/models) | items by URI, items by connection, rows, pointers to connections and domains | `addConnection`, `removeConnection`, `addDisconnectedConnection`, `removeDisconnectedConnection`, `onDomainAdded`, `onDomainRemoved` | `Manager`; as a listener, `Connection` |
| the other tables of `Connection` | `m_networks`, `m_storagePools`, `m_nodeDevices` | `initAllResources`, `pollNetworks`, `pollStoragePools`, `pollNodeDevices`, `close` | `Resources`, refining `Roster` |
| `StoragePoolDialog`, `NetworkDialog` with `StoragePool`, `StorageVolume`, `Network` | the selected pool and volume (plain pointers), the lists, the buttons | start, stop, delete, refresh; create, upload, download, clone, remove, wipe a volume | `ResourceDialog` |
| host statistics, `HostDialog` | `m_lastCPUTime`, `m_lastIdleTime`, `m_cachedCapabilities`; the bars of the dialogs | `fetchHostStatsAsync`, `fetchConnectionInfoAsync`, the dialogs' 2 s timer | `HostStats` |
| `DetailsPage` with `AddHardwareDialog` | tree of devices, rows, pages, every control | add and remove a device | `HardwarePages`, `Hardware` |
| `CreateVMWizard`, `CustomizeGuestDialog`, `Guest` | pages, fields, the guest being made | next, back, customize, finish, apply | `Creation` |
| device and domain XML (devices/, domain/) | the members of 35 classes | `toXML`, `fromXML` | `XmlForm`, `DeviceXml`, `DomainXml`, `XmlCopies` |
| authenticated `openAsync` | the environment variable `LIBVIRT_SSH`, `authHelper.cbdata` | concurrent workers set and use them | not modelled, see section 8 |
| consoles (console/, `ConsolePage`) | viewer state | connect, disconnect, reconnect, late callbacks | not modelled |
| snapshots (`SnapshotsPage`) | snapshot objects, the model's pointers | create, revert, delete, refresh | not modelled |
| `VMListModel`, `ConnectionListModel`, migration, tuning and boot dialogs | forms and rows | no window shows them | not modelled |
| widgets, settings, OS database, guest agent, tray | values | getters and setters | not modelled |

### How they interact

* The GUI thread runs everything but the bodies of `QtConcurrent::run`.  A handler runs to its end,
  except that a modal question (`QMessageBox::question`, `QDialog::exec`) runs a nested event loop.
* `Engine`'s timer calls `Connection::tick` once a second for each registered connection.
* `Connection` owns its `Domain` objects and announces them with `domainAdded` and `domainRemoved`;
  the tree, the list and the windows keep plain pointers to them.
* A worker is given a `this` pointer and reads the object it belongs to; the `finished` signal of its
  watcher comes back to the GUI thread at some later time, in no order relative to other workers.
* `Connection` saves its domains to the cache after an initial load, after a refresh and when it closes,
  and loads them as *stubs*, domains without a `virDomainPtr`, when it is offline.
* The host changes by itself: other clients define, start and stop VMs between any two libvirt calls.

### What is hard

* **Work under way twice**: `m_tickBusy` alone keeps the polls of `tick` from changing `m_domains` while the
  stats worker reads it, and every path has to take it down again.  `refresh`, `close` and `defineDomain` do
  not look at it.
* **A poll is several calls**: counts, active list, inactive list, while the host changes in between; a list
  that fails is taken for an empty one.
* **Answers out of order**: `startAsync`, `updateInfoAsync`, the stats worker and `updateInfo` all set
  the shown state from values they read at different times.
* **Object lifetime**: listeners keep pointers; `close` and `initAllResources` delete without a signal, and
  leave the listeners with what they have heard.
* **Stubs among live entries**: a poll skips a name that the table already has.
* **Stale text**: `getXMLDesc` keeps its first answer for ever.
* **Several connections for one host**: every attempt makes a `Connection` object; attempts overlap, and
  the registry of `Engine`, the items of the sidebar and the progress dialog go by URI or by "the last one".
* **Crashes**: the cache is rewritten in place, file after file.
* **Questions over pointers**: a dialog asks "delete this pool?" while the polls delete pools.
* **Shared counters**: two dialogs compute CPU usage from one pair of previous values, unsigned, and neither
  waits for its earlier request.
* **Pages joined by number**: the rows of the Add Hardware dialog and its pages are in different orders.
* **Wizards gone through sideways**: the Customize button skips pages, Back resets some fields and not others.
* **Two halves that must agree**: `toXML` and `fromXML` of a class know each other's names by convention only.

`PROJECT.json` lists each such hazard with its line and with the properties that watch it.

### What makes each part correct

* Connection: the busy flag is up exactly while work is outstanding; no tick and no initial load changes the
  table while a worker reads it; who follows the signals knows every name in the table, and is left with a
  deleted domain by `close` and `initAllResources` only; no linked domain outlives the handle; an undisturbed
  poll is exact; ticking converges to the host's inventory.
* Domain: no answer invents a state; the buttons fit the state; the window converges to the VM's state;
  a device the user was told about stays.
* Manager: a host shown as connected is polled, through the connection it is shown with; the engine reaches
  no deleted connection; rows point to living domains; every known VM is listed and none is lost by
  connecting, failing, disconnecting or editing, only in a poll that did not find it.
* VMCache: what was saved stays loadable; a save repairs earlier damage.
* The other tables: a name has one live object and keeps it until it leaves; a poll that nothing disturbed is
  exact; a failing call does not take the devices away; the table settles.
* Storage and network dialogs: nothing is destroyed but on a Yes to a question that named it; the dialog lets
  go of what it deletes before the poll deletes the object.
* Host statistics: the usage shown is one the host had; the capabilities come in the end.
* Hardware: every control counts; an edit defines the text the page keeps, which may be behind, with the device
  that the validated controls make, or without one element of the selected kind.
* Creation: whatever way through the pages, what is defined has the name it is known by, does not start with more
  than its memory and opens no image by a relative path, and what the user is told is so.
* XML: reading what parses loses only what is known to be lost, invents nothing, and copying on does not decay.

## 2. The modules

| Module | What it is |
|---|---|
| `Connection.tla` | one `Connection`, its tick and stats worker, its clients, its host |
| `Roster.tla` | what a table of libvirt objects promises: the abstract specification |
| `Resources.tla` | the tables of networks, pools and node devices, call by call |
| `Domain.tla` | one live `Domain`, its requests, its window, the VM on the host |
| `VMCache.tla` | the cache of one connection on disk, with faults and crashes |
| `Manager.tla` | the manager window, the sidebar and the registry over several `Connection` objects |
| `ResourceDialog.tla` | the storage and the network dialog, their objects, the polls and the host |
| `HostStats.tla` | the Host Details dialogs and the requests they make |
| `HardwarePages.tla` | the 21 pages of the Add Hardware dialog: controls, device made, validation |
| `Hardware.tla` | the details page, the dialog, the configuration |
| `Creation.tla` | the Create VM wizard, the customizing dialog, the guest, the host |
| `XmlForm.tla`, `DeviceXml.tla`, `DomainXml.tla` | how a class and its XML are described; the classes of devices/; those of domain/ |
| `XmlCopies.tla` | an object of any class, set, written and read |
| `MC*.tla` | the instances TLC checks |
| `ConnectionProofs`, `DomainProofs`, `VMCacheProofs`, `ManagerProofs`, `ResourcesProofs`, `ResourceDialogProofs` | proofs about the module each is named after |
| `DialogProofs.tla` | proofs about the two modules of dialogs, `HostStats` and `Creation` |
| `DeviceProofs.tla` | proofs about `Hardware` with its pages, and about `XmlCopies` |

A definition marked "Slip:" is not the code.  It is the form an easy mistake would give to the
definition after it; put in its place it makes a property fail, which shows that the property can
tell the two apart.  The specifications of `Creation` and `Hardware` are called `WizardSpec` and `HardwareSpec`
(with `WizardInit`, `HardwareTypeOK` and so on), because a module of proofs reads each of them beside another
specification.  `PROJECT.json` ("map") gives the lines of code behind each definition.

### Connection

The variables carry the code's names.  `m_domains` is the set of keys of the table, `linked` those whose
object wraps a `virDomainPtr` (the others are stubs), `shown` the state each object shows.  `heard` is what
a listener of the signals believes the table to be: `domainAdded` adds to it and `domainRemoved` takes out
(`HeardRemovals`), while `close` and `initAllResources`, which delete the domains without a signal, leave it as
it is (`DeleteAllSilently`).  `Stale` are the names it then holds a deleted object of.
`gui` is what the GUI thread is in the middle of: a poll takes three steps (`StartPoll`: the counts,
`ListActive`, `ListInactive` with the removals), between which the host may move; no other handler starts
meanwhile.  The stats worker is `worker`, `todo` and `results`: `WorkerReads` looks one name up under
`m_connMutex`, `WorkerEnds` returns, and `StatsFinished` is the handler that takes `m_tickBusy` down and
applies the results by name.

| Action | Code |
|---|---|
| `openAsync`, `OpenSucceeds`, `OpenFails` | `Connection::openAsync` and its finished handler |
| `LoadOffline` | `ManagerWindow::onConnectionStateChanged` with a failed connection |
| `Adopt`, `Register` | `ManagerWindow::addConnection`, `Engine::registerConnection` |
| `refresh`, `ClientClose`, `defineDomain`, `setPollingEnabled` | the methods of `Connection` |
| `tick`, `StartStats`, `FinishTick`, `FinishInit` | `Connection::tick`, `initAllResources` |
| `ListActive`, `ListInactive` | `Connection::pollDomains` |
| `HostChanges`, `LinkDies` | the host, which is not part of the repository |

A libvirt list call may fail (`MaxFaults`) or find its buffer too small because the count was taken
earlier (`Lists`); the code treats both as the names it got.

`TickExclusive` is about `tick` and `initAllResources`, which look at `m_tickBusy`.  The other handlers that change
`m_domains` do not, and in the program they may do so while the worker reads it; the model has their steps
between the worker's, and leaves out what a torn read of the map would do.

### Domain

`jobs` has a record for each request: `issued` (its worker has not called libvirt yet), `called` (it has,
and its finished handler is still to run), `free`.  The slot `Poll` is the stats worker of the connection.
`Call` is the worker's moment at libvirt, `Finished` the handler on the GUI thread, `Outcome` the state
the handler sets.  `seen` records, for each request, the states the VM was in from the request to its
call, and only serves the properties.  `ui` is `asking` while the Force Off question is open: handlers go
on, clicks do not.  `onStopClicked` uses `m_actionStop`, a pointer that nothing in the window sets; what
happens then is one of two outcomes, the crash of the program or going on.

`m_cachedXmlDesc` is abstracted to the devices the text names and whether it was read.  `config` and `live`
are the devices the host knows, and `promised` those the user was told the VM will have.

`Domain` is about a domain that lives on; creation, deletion and stubs are `Connection`'s.  The two meet
in the stats worker: `StatsTick`, `Call(Poll)` and `Finished(Poll)` are `tick`, `WorkerReads` and
`StatsFinished` seen from one domain.

### VMCache

`Config::saveVMCache` reads `index.xml`, adds the UUID, truncates and rewrites the index, then truncates and
writes the VM's file; `Connection::saveVMCache` does this for one VM after the other.  Each of these is a
step.  A fault at a step is a file that cannot be opened, a write that is cut short, or the end of the
program.  An index is `whole`, `cut` (it has its root element and some entries, but does not parse) or
`void` (empty); the distinction is the code's: `saveVMCache` ignores the result of `setContent` and goes on
with what the parser has built, `loadAllVMCache` does not.  In `Connection` the cache is the set `cache` that
only grows, which is what `VMCache` does without faults.

### Manager

The window sees a `Connection` as its state (`m_state`), its table (`m_domains`) and its signals; a poll or
a refresh is one step here, its inside is `Connection`'s.  What it finds (`Finds`) is what the host has or, if
a list call fails and is taken for an empty list, any part of that (`MaxFaults`).
`m_connections` is `Engine`'s registry, by URI.
`m_connectionItems`, `connection` and `m_connectionToItem` are the items of the sidebar and the two maps
between them and the connections; `stale` are the connections that `m_connectionToItem` maps to an item that
was deleted.  A row of the sidebar holds a pointer to a `Domain`, so `rows[u][v]` is the sequence of the
*owners* of the domains that the rows of VM `v` under host `u` point to: a connection, or `None` for a
domain that `removeConnection` made itself.  It is a sequence because a VM can have several rows, and
`findVMItem` takes the first.

| Action | Code |
|---|---|
| `StartConnecting`, `StartOffline` | the loop of `ManagerWindow`'s constructor over the saved URIs |
| `AddConnection`, `onConnectToConnection` | `openConnectionDialog`, `onConnectToConnection`: a new attempt |
| `OpenSucceeds`, `OpenFails` | `onConnectionStateChanged`, `addConnection`, `ConnectionTreeModel::addConnection` |
| `HideDialog` | Escape in the progress dialog, which has no close button |
| `OpenMenu`, `CloseMenu` | `onTreeContextMenu`, and leaving a menu or a question without a choice |
| `onDisconnectFromConnection`, `onEditConnection`, `onDeleteConnection` | the handlers, with `removeConnection` and `removeDisconnectedConnection` |
| `onNewVM` | the wizard's `defineDomain` |
| `onTick`, `onTickLost` | `Engine::onTick`: a poll, or `close` on a dead link |

Menus, questions and dialogs run nested event loops.  So the choice offered by a menu is the one that fitted
when it was opened, and results and ticks come before the click; clicks elsewhere do not, `UserFree`.  The
event loop that `updateStatus` runs, between an attempt's success and its handling, delays the handling and
nothing else.  The message box after a failure is not a state: its handler does nothing after it.

`onTickLost` deletes the domains of a connection without a signal.  Rows go on pointing to them, and the
program may crash when it reads one; the model goes on with the other outcome, and `RowsAlive` names the case.

`Manager` and `Connection` meet in `Adopt`, `Register` and `LoadOffline`, which are `OpenSucceeds`,
`registerConnection` and `ShowOffline` seen from one connection.

### Roster and Resources

`Roster` says what those who hold pointers from a table rely on: objects are numbered as they are made, a name
is entered with a new one, keeps that one, and it is deleted when the name leaves.  `Resources` is the code:
`gui` holds the libvirt calls a poll or a load has done (two counts, two lists, then a lookup for each name;
for devices one list, whose failure ends the poll), and the host changes between any two.  It implements
`Roster` under the mapping `known <- table, loading <- gui.task = "init"`.  While a table is loaded anew the
mapping lets a name be entered over another object: a network that is in both lists gets two objects, and the
first is deleted with the connection only.  `Connection` treats the table of domains in the same way but has
stubs, statistics and clients besides; it is not shown to implement `Roster`.

| Action | Code |
|---|---|
| `PollBegins`, `LoadBegins` | `pollNetworks`, `pollStoragePools`, `pollNodeDevices`; `initAllResources` |
| `ListActive`, `ListInactive`, `ListDevices`, `ListDevicesFails`, `LookUp`, `Sweep` | their calls, in order |
| `close`, `reopen` | `Connection::close`, a later open |

### ResourceDialog

`kind` says which dialog it is.  `wrap` is the object the connection's table has for a name, with what it took
its state to be when it last asked; `cur` and `vol` are `m_currentPool` (`m_currentNetwork`) and
`m_currentVolume`, which remember whether their object lives.  `ask` is the menu, question or box that is up,
and while it is, polls and other clients go on.  Using a pointer to a deleted object may end the program or
not: `ClickOnDeleted`, `AnswerOnDeleted`, `crashed`.  A pool's state comes from two calls, of which the second
(`virStoragePoolInfo.state` cast to the program's own numbering) shows a running pool as degraded; what the
menu offers follows from it, as in the code.

### HostStats

`jobs` are the requests on the thread pool, in the order they were made; `got` is what a worker read and `done`
says that its finished handler may run, in any order.  `last` are the connection's two previous counters, `bar`
the CPU bar of each dialog.  Time is the host's, one unit of processor time a moment.  The usage is computed
with wrapping unsigned numbers of `Width` values and taken for an int, as the code does; an answer that is not
later than the last one shows 0.

### HardwarePages and Hardware

A page is its controls, the members `createDevice()` sets from them, and `validate()`; what the device then
says is `DeviceXml`'s.  `Rows` and `Stack` are the rows of the list and the pages of the stack, in the code's two
orders, with the switch between them (`PageOf`).  In `Hardware` a device of the configuration is its class and
what finding it again depends on.  The dialog deletes itself when `exec()` returns and is asked for its device
afterwards: `onAccepted` has three outcomes, the device, none, or the end of the program.

### Creation

The wizard's bookkeeping (`history`, `inited`, which fields Back resets) is Qt's and marked external in the
map; pages, fields, initialization and validation are the code's.  `custom` is what the customizing dialog shows:
the guest is its own, and Apply writes the fields shown back over it.  `defineDomain` is `Connection::defineDomain`
with the table `m_domains`, which other clients and the poll move apart from the host.

### XmlForm, DeviceXml, DomainXml, XmlCopies

A class is three definitions: `XFields` (its members with the values told apart, the initial one first),
`XXml` (`toXML`) and `XRead` (`fromXML`).  An element is a record over the members' names, `None` where it says
nothing.  `AsSet` and `Merged` are the ordinary halves; a class is written out where it departs from them: a
member written and not read, read under another name, lists that grow, a text that is not well formed.
Nine classes put their texts into the XML with `QString::arg`, unescaped (`Unescaped`): a text may be `"markup"`,
which stands for one with `&`, `<` or the quote of its attribute, and an element that says it does not parse
(`Escaped`).  So an object parses, `Parses`, if its class makes an element of it (`Formed`) and its texts leave it
one.  `XmlCopies` takes an object of each class through what clients do with it.  `Misread` names the members whose
halves do not agree in the code, class by class.

## 3. The runs

| Run | Checks | Shows |
|---|---|---|
| `conn_safety` | `BusyMatchesWork`, `TickExclusive`, `ListenersInStep`, `DomainsNeedHandle`, `StubsShowNoState`, `QuietPollExact` | flag, table and stubs stay consistent under every interleaving of clients, ticks, worker and host, and only `close` and `initAllResources` leave listeners behind |
| `conn_liveness` | `BusyClears`, `Converges` | the flag always comes down, and ticking brings the table to the host's inventory |
| `resources` | `TypeOK`, `RosterSpec`, `QuietPollExact`, `SteadyDeviceKept`, `Converges` | the three other tables implement `Roster`, an undisturbed poll is exact, and they come to agree with the host |
| `domain` | `TypeOK`, `ButtonsFitState`, `NoInventedState`, `ShownConverges` | late answers never show what never was, and are repaired by the polls |
| `domain_devices` | `DevicesKept`, violated | the second device added to a VM that is off undoes the first |
| `cache` | `KeptLoads`, `FullSaveRepairs` | what was saved stays, and later saves repair damage |
| `manager` | `TypeOK`, `ConnectedIsPolled`, `PolledIsHeard`, `RowsAlive`, `KnownIsListed`, `RowsKept` | registry, sidebar and rows stay in step under overlapping attempts, open menus, edits, deletions, ticks, failing lists and a dead link |
| `resource_dialog` | `AloneSafe`, `OnlyAsked` | nothing is destroyed unasked, whatever the polls and other clients do under a question; alone, the dialog keeps no dead pointer |
| `host_stats` | `TypeOK`, `UsageIsReal`, `CapabilitiesCome` | with answers in any order and some of them lost, no invented usage; and the capabilities arrive |
| `hardware` | `HardwareTypeOK`, `EveryControlCounts`, `EditsAreAsked` | what the 21 pages ask for reaches the device, and an edit is the kept text with that device, or without one element of the selected kind |
| `creation` | `WizardTypeOK`, `DefinedIsSane`, `ToldTheTruth` | through any order of pages, what reaches the host has its name, fits its memory and names its images absolutely, and the wizard reports it truly |
| `xml_copies` | `TypeOK`, `NothingInvented`, `CopiesSettle`, `ReadsWhatIsSaid` | for each of the 35 classes, what is written and parses is read, but for the members named |

The type invariants of `Connection`, `VMCache` and `ResourceDialog` are proved (section 6) and have no run.

`domain_devices` checks one statement that the repository makes of itself (quoted in `PROJECT.json`, "findings")
and gives the shortest behaviour of the code against it: `DetailsPage.cpp:549` says that the device was added and
will be available; the next edit starts from the text read before.

The modules state further sentences of the repository that do not hold in the model of its code.  They
are kept beside the properties, each with its quotation, and no run checks them:

* `OneHandle` (`Connection`): `Connection.h:74` says `create` makes a connection "without opening"; its constructor
  calls `virConnectOpen`, so the handle that `openAsync` gets later overwrites an open one.
* `OnlyActualRemovals` (`Connection`): the comment at `Connection.cpp:352` says that only actual removals are
  signalled; a VM that moves between the two list calls is announced as removed.
* `RefreshReloads` (`Connection`): the comment at `Domain.cpp:625` says that stubs serve until a refresh reloads
  them; `pollDomains` skips the names it has.
* `SavedIsListed` (`VMCache`): the comment at `Config.cpp:222` says the UUID is added if not present; without a root
  element there is nothing to add it to.
* `RowsUpdated` (`Manager`): the comment at `ConnectionTreeModel.cpp:353` says that the cached VMs are updated with
  live data; their rows are kept, and the live domains are dropped as duplicates.
* `EndedIsClosed` (`Manager`): the comments at `ManagerWindow.cpp:1044` and `:1056` say that the progress dialog is
  closed; each attempt has one, and `m_progressDialog` is the last one made.
* `RemovedIsSelected` (`Hardware`): the box at `DetailsPage.cpp:675` names the selected device; the element removed is
  the first of its category that has no target name.

Where a property names exceptions, they are the code's: `Misread` in `XmlCopies`, `Unused` in `Hardware` (controls
that no device reads), the port of a USB redirection in `NothingInvented`, a used reader that keeps an unescaped text
in `ReadsWhatIsSaid`, the steps that drop the table in `ListenersInStep`, the dead link in `RowsAlive`, and in
`ToldTheTruth` the VM that is on the host although the wizard said it failed, because a VM since gone had the name.

`CHECK_DEADLOCK FALSE` is in the configurations of `Connection`, `Domain`, `Manager`, `ResourceDialog`, `Hardware`,
`Creation` and `XmlCopies`, whose program may really stop: nobody has opened the connection, the program has
crashed, the user or the clients make no further call, or there is no item to click on and no object
left for an attempt (`Conns`), and the host has used up its budget.  The others never stop: another save, poll
or request is always possible.

## 4. Bounds

* `Names`: two VMs in `conn_safety`, so that one can be added while the other moves, is removed, or
  is known from the cache alone.  The polls and the worker handle each name on its own, and the only step
  that relates two names, a list cut at a buffer that was counted too small, needs two.  `conn_liveness`
  has one: what keeps `m_tickBusy` up, and what keeps one name from settling, does not depend on others.
* `MaxChanges`: changes the host makes on its own, two (three for liveness): a VM that starts and
  stops within one poll, or is removed and defined anew between worker and handler.
* `MaxFaults` in `Connection`: one failing list or count call per behaviour; a second one in
  another poll repeats the first.
* `Jobs` in `Domain`: one request of the user beside the stats worker and the blocking `updateInfo`: three
  sources of answers that overtake one another.  More are covered by the proofs.
* `MaxChanges = 1` and `MaxFaults = 1` in `Domain`: one change of the VM that no request asked for.
* `Devices`: one in `domain`; `domain_devices` needs two.
* `UUIDs`: three, one saved before the fault, one hit by it, one after it; `MaxFaults = 2`: a second fault
  hits the repair of the first.
* `Conns` in `Manager`: three connection objects, so that an attempt can overlap another one while a third
  is shown; after an attempt an object is only shown, polled or let go, so more repeat these.  `URIs`: one
  host, as every map is by URI and the proofs cover any number.  `VMs`: two, one with rows when the other is new.
  `MaxChanges = 1`, `MaxLosses = 1`, `MaxFaults = 1`: one VM that comes or goes by itself, one link that dies, one
  poll or refresh with a failing list.
* `Names` in `Resources`: two, for the list that is cut at a buffer counted too small; `MaxChanges = 2`: an entry
  that goes and comes back, or moves, within a poll; `MaxFaults = 1`, `MaxLoads = 1`: a failing call, a load or
  a close while the table has entries.  The proofs cover any numbers.
* `ResourceDialog`: two pools (or networks) and two volume names, at most two volumes; `MaxTroubles = 1`: one change
  by another client or one failed call, at any moment.  The dialog holds one pointer of a kind, and the proofs
  cover any number of entries and troubles.
* `HostStats`: two dialogs, three requests under way (the two of a first refresh and one more that overtakes
  them), `MaxTime = 4`: two spans of different usage and an answer out of order between them; `MaxFaults = 1`: one
  request that fails or one link that dies.  `Width = 1024` is above all products (`BoundsAssumption`) as 2^64
  is in the code, so that only a negative difference wraps.
* `Hardware`: a guest with two devices in most categories; `MaxActs = 3`: any pair of controls of a page that was
  reached from any other; `MaxEdits = 2`: the second edit works on a text behind the configuration.
* `Creation`: two names, three sizes of memory and CPU, `MaxVcpus = 3`; `MaxEdits = 3`: two rules of two pages broken
  and one mended; `MaxOthers = 1`: one VM that comes or goes behind the table.
* `XmlCopies`: `MaxCalls = 5`: two members set, a write, one more change, a read.  A member is written and read
  on its own or with one other that decides on it.
* `m_tickCounter` is not a bound: the model keeps it in the range the code's tests of it can tell apart
  (`NextCount`).

## 5. Fairness

* `WF(Poll)`, `WF(Worker)`, `WF(Call)`, `WF(Finished)`: a handler that has begun goes on, a task of the
  thread pool runs to its end, and the event loop delivers what is queued.  libvirt calls return in the end.
* `SF(StatsFinished)`, `SF(tick)` in `Connection`: a queued event waits while another handler polls, so it
  is enabled again and again rather than all the time; the event loop of Qt serves its queue in order
  and the timer goes on, so it gets its turn.
* `WF(StatsTick)` in `Domain`: every fourth tick of an open connection starts the worker if it is not
  already running.
* `WF(Handler)`, `WF(PollBegins)` in `Resources`: the timer goes on and a handler that has begun runs to its end.
  The GUI thread has nothing else to do in that module but `LoadBegins` and `close`, which are bounded.
* `WF(JobSteps(j))`, `WF(refresh(d))` in `HostStats`: each request is carried out and its answer delivered, and
  the timer of a dialog that is up goes on.  Places in `jobs` move up when one is taken out, so a request
  is served through the fairness of the place it ends up in.
* Nothing is assumed of the user and of the host.  `Converges` holds for connections that stay open
  with polling enabled again and again, `ShownConverges` for a VM that stays in its state.

## 6. What is proved

All theorems hold for any sets of names, devices, requests, UUIDs, pools and volumes and for any budgets, under
the named assumptions of the modules: `Names` is finite (`Connection`, `Resources`), the budgets are natural
numbers, the stats worker is not one of the user's requests (`Domain`), `None` is no connection
(`Manager`), no object or pointer (`ResourceDialog`), no name or size (`Creation`) and none of the words of the XML
(`XmlForm`); the counters of `HostStats` are wider than any product and hold 100 as a signed number; and every
disk of the configuration has a target (`Hardware`), without which libvirt does not define a VM.

* `ConnectionProofs`: type correctness; the inductive invariant `IInv` (`Inductive`), and from it
  `BusyMatchesWork`, `TickExclusive`, `DomainsNeedHandle`, `StubsShowNoState` and the action property
  `ListenersInStep`, with a lemma (`StaleStep`) on where a listener can come to hold a deleted domain.
  `IInv` adds what these need from one another.  `BusyMatchesWork` and
  `TickExclusive` need `PollsWhileOpen` and `RegisteredLife`: the initial load and a tick run on an adopted,
  open connection only, so no open request comes between.  `StubsShowNoState` needs `ResultsOfLinked`: what
  the worker has read belongs to no stub, because stubs enter the table only while no worker
  runs.  `ShownOfLinked` extends it to names outside the table.  The proof goes in three
  layers, `Work`, `Table`, `Stats`, each inductive relative to the ones before.  `QuietPollExact` needs `CalmInv`
  besides: until something disturbs the poll, the counts it took are the host's, and once the first list is in, the
  names seen are the active ones and in the table.  A list into a buffer that fits is whole, and what is left of the
  table after the second is both lists.
* `DomainProofs`: type correctness; `ButtonsFitState`; and `NoInventedState`, from `AnswersSeen`: a
  request still to be called has seen the VM's present state, and an answer to come is a state its request
  has seen.  The last one has to hold across every other request's call, which may change the VM.
* `VMCacheProofs`: type correctness; `KeptLoads`, from `KeptInv`: a kept VM is listed on disk and, between
  reading and writing the index, in memory too; and `FullSaveRepairs`, from `SaveInv`: as long as a save has
  met no fault and the index has its root, the VMs it has done are kept.
* `ManagerProofs`: type correctness; `ConnectedIsPolled`, `PolledIsHeard`, `RowsAlive`, `KnownIsListed` and the
  action property `RowsKept`.  Two layers carry them.  `MapInv`: whoever is shown or polled under a URI
  belongs to it and is mapped to its item, and nothing is polled behind an item without a connection; this is
  why unregistering by URI, whichever object is registered, is enough.  `RowsInv`: a row of an open connection
  is the *first* of its VM (`RowOf`).  A poll takes out the first row of a VM that is gone, so without this
  the row of some older connection could go and the row of the deleted domain stay.  It holds because the
  rows an open connection brings come only where the VM has none: the duplicate check, and the cached rows
  only under an item without rows.
* `ResourcesProofs`: type correctness; `ImplementsRoster`, from the initial states and one case for each action
  (a step of the code is an `Enter`, a `Leave`, a `Clear`, a `Loaded` or a stutter); `TablesSound`, that the object of
  a name lives and is no other name's, proved of `Roster` and carried over by the refinement; `SteadyDevices`, from
  `SteadyInv`: what stayed is on the host, and in the list once it is there; and `QuietPolls`, from `Gathered`: an
  undisturbed poll has counted each list right, so each fits its buffer and is whole (an argument about
  cardinalities), and of the names seen those not to be looked up any more are in the table.
* `ResourceDialogProofs`: type correctness; `AskedFirst`, from `AskFits`: while a question is up, the pointer it was
  asked about still names what it named, whatever became of its object; and `AloneIsSafe`, from `Kept` (what was
  selected while defined stays on the host while it is current, and a selected volume is in a running pool) and
  `NoStop` (a running pool shows as degraded, so the dialog never offers to stop one, which would take
  the volumes away under the selection).

* `DialogProofs`, `HostStats`: `UsageIsReal`, from `RealInv`: each request's readings, and the pair the connection
  keeps, are the host's counters at some past moment, so that what is left after the test for a later reading is
  the share of a real span.  That this is a percentage, and so the type of the bars (`TypeOK`), rests on `Clock`: over
  no span does the host idle for less than nothing or for longer than the span.
* `DialogProofs`, `Creation`: `WizardTypeOK`, `DefinedIsSane` and `ToldTheTruth`, from `WizardInv` and `HostInv`.
  `WizardInv` has the pages gone through in ascending order with the current one last (`Path`), what the fields can
  hold, and that a guest is being customized on the last page only, with its disk shown; `HostInv` adds `DefinedIsSane`
  itself.  All that reaches the host goes through `Define`, which validates again what the pages checked when they
  were left; `DefineHost` and `WhoDefines` say so of every step, and the rest follows from them.
* `DeviceProofs`, `Hardware`: `HardwareTypeOK` and `EditsAreAsked` from `HardwareInv`: the page shown is the one of
  the current row (`FormInv`), although the two are ordered differently and joined by a switch over numbers; and in the
  configuration and its text every disk is named (`TextInv`), which keeps `findDeviceNode` from ever matching a disk.
  The text is whatever the page kept; that it is the configuration is not claimed, and `Domain` shows it is not.
  `EveryControlCounts` follows with a lemma for each page on what its element says of its controls.

* `DeviceProofs`, `XmlCopies`: `TypeOK`, the action property `ReadsWhatIsSaid`, `NothingInvented` and `CopiesSettle`,
  for all 35 classes, any number of calls and lists of any length.  `CopiesInv` says that members hold only what a
  setter or a reader can put there (`Held`), and that XML which parses was written by some object of its class
  (`Written`), whatever became of the one in hand since.  So each property is about one round, `Rounds`: an object
  writes, another reads, and the two write again.  Every class has a lemma on its halves (`DiskHalves`: what
  `toXML` writes and `fromXML` takes, member by member) and one on the round (`DiskCopies`), which `AllCopies` collects; the
  classes that write all members as they are, and those that read nothing, share theirs.  The exceptions are what one
  would not guess: a member that is written only with another one (a path only with a type, a timeout only with the
  menu) must be read only with it too, or a used reader keeps its own; and a copy of which nothing is left to write is
  read as nothing.  The lemmas on the halves and the round are about objects that are `Formed`; that texts stay
  escaped is apart from them: a new object of an unescaped class has no markup, and a copy holds only what the
  element said or the new object did (`NewEscaped`, `CopyEscaped`, `ReadAnewEscaped`).  A used reader may
  keep a text with markup that the element does not name, the one case `ReadsWhatIsSaid` has to leave out.
  `CopyTells` joins the cases of objects that do and do not parse.

Only model-checked: all liveness (`BusyClears`, both `Converges`,
`ShownConverges`, `CapabilitiesCome`), since fairness and `ENABLED` are out of the prover's reach.

## 7. Plan

1. *Done*: the modules of section 2 with their runs; the proofs of the core, of the tables,
   of the dialogs, of the pages for devices, of the wizard and of the classes' XML.
2. `Connection` as an implementation of `Roster`, so that `Manager`'s one-step poll rests on it too.
3. The hand-over between two viewers in `ConsolePage`, with the callbacks of the first arriving late.

## 8. Not modelled, and why

* Object lifetime under a running worker: `Connection::close` may delete a `Domain` that a worker reads, and
  an asynchronous request's worker keeps `this`.  Reading freed memory has no outcome that would be
  useful to model; the sites are listed as hazards.
* Authenticated open: concurrent `openAsync` workers set `LIBVIRT_SSH` and the global `authHelper.cbdata` in no
  order, one through a pointer to another's stack.  Nothing in the repository says what holds when two connections
  open at once; one at a time, each sets and restores them.  Listed as a hazard.
* Consoles: most of it drives spice-glib and gtk-vnc, whose order of callbacks `src/` does not determine.
* Snapshots: blocking calls; what could go wrong lies within single handlers.
* `VMListModel`, `VMProxyModel`, `ConnectionListModel`, `MigrateDialog`, `SnapshotDialog`, the tuning, boot order and
  firmware dialogs, the pool and network wizards: no window of the program opens or shows them.
* `CloneDialog`, `DeleteDialog`, `ConnectionDialog`, the volume wizard: forms that end in blocking calls; what
  they do to a connection's tables is the host's change in `Connection`, `Resources` and `ResourceDialog`.
* Texts that are well-formed markup themselves (`&amp;` in a path): in the classes that do not escape they are read
  back as something else.
* Memory figures, description and title: shown, and never decided upon.
* Widgets, tray icon, OS database, guest agent, settings: single calls without state of their own.
* A restart of the manager: nothing adds a connection to the saved ones (`Config::addConnectionURI` has no
  caller), so what it finds again is what `Init` of `Manager` starts from.
* VM windows and host dialogs over a connection that is edited or lost: they keep a pointer to a deleted object,
  listed as a hazard.
* Two instances of the program at once: nothing prevents it, and nothing in the repository speaks of it.
* libvirt and Qt are external: they are modelled by what the calls in `src/` rely on.
