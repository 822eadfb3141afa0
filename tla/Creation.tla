------------------------------ MODULE Creation ------------------------------
(***************************************************************************)
(* Making a new VM: the wizard (src/src/ui/wizards/CreateVMWizard.cpp), the *)
(* Guest it builds (libvirt/Guest.cpp), the dialog that customizes it       *)
(* (ui/dialogs/CustomizeGuestDialog.cpp) and Connection::defineDomain, with *)
(* the host, its other clients and the poll of the Connection around them.  *)
(*                                                                          *)
(* A registered field of the wizard goes back to what it was at first when  *)
(* its page is left with Back, and a page is initialized when it is entered *)
(* with Next and was not before: that is QWizard's, and external.           *)
(*                                                                          *)
(* Memory and CPU counts are small numbers; MaxVcpus stands for the 256 of  *)
(* the customizing dialog, which the wizard's 1024 exceeds.  Left out: what *)
(* is asked for and never used (OS version, size, format and bus of the new *)
(* disk, model of the NIC, the URL or image of the other ways to install,   *)
(* "start after installation"), UEFI, ACPI and APIC, and the file dialogs.  *)
(*                                                                          *)
(* "Slip:" marks a form that an easy mistake would give to the definition   *)
(* after it.                                                                *)
(***************************************************************************)
EXTENDS Naturals, Sequences, FiniteSets, SequencesExt

CONSTANTS Names,      \* names a VM can have
          Suggested,  \* the one the wizard suggests
          Foreign,    \* a VM that another client defined
          None,
          MaxVcpus,   \* largest count the customizing dialog can show
          MaxEdits,   \* bound: fields the user sets
          MaxOthers   \* bound: VMs that other clients define and undefine

ASSUME SuggestedAssumption == Suggested \in Names
ASSUME WizardBounds == MaxVcpus \in Nat \ {0} /\ MaxEdits \in Nat /\ MaxOthers \in Nat

VARIABLES page,       \* the wizard's current page, 0 when there is no wizard
          history,    \* the pages Back goes through
          inited,     \* the pages that have been initialized
          f,          \* what the pages hold
          guest,      \* the Guest being made, or None
          custom,     \* what the customizing dialog shows, or None
          host,       \* the VMs the host has, by name: as toXML wrote them, or None
          m_domains,  \* the names in the Connection's table
          told,       \* what the last box said
          edits, others \* budgets left
wizard == <<page, history, inited, f>>
wizardVars == <<wizard, guest, custom, host, m_domains, told, edits, others>>

NameAndOS == 1  InstallMedia == 2  CPU_Memory == 3  Storage == 4  Network == 5  Summary == 6

\* A name can also be one with blanks around it, or with other bad characters.
Padded == "padded"
Bad == "bad"
Sizes == 1..3

Fields ==
  [name |-> Names \cup {None, Padded, Bad}, os |-> {"Linux", "Windows", "Other"},
   media |-> {"ISO", "Other", "PXE"}, isoPath |-> {None, "abs"}, otherPath |-> {None, "abs"},
   memory |-> Sizes, maxMemory |-> Sizes, vcpus |-> Sizes, maxVcpus |-> Sizes,
   storage |-> {"New", "Existing", "No"}, diskPath |-> {None, "abs", "rel"},
   network |-> {"NAT", "Bridged", "None"}, customize |-> BOOLEAN]
FieldsOf ==
  <<{"name", "os"}, {"media", "isoPath", "otherPath"},
    {"memory", "maxMemory", "vcpus", "maxVcpus"}, {"storage", "diskPath"}, {"network"},
    {"customize"}>>
First ==
  [name |-> None, os |-> "Linux", media |-> "ISO", isoPath |-> None, otherPath |-> None,
   memory |-> 1, maxMemory |-> 3, vcpus |-> 1, maxVcpus |-> 3, storage |-> "New",
   diskPath |-> None, network |-> "NAT", customize |-> FALSE]

\* The fields the wizard knows of and resets; the other controls keep what they show.
Registered == {"name", "os", "isoPath", "otherPath", "memory", "vcpus", "diskPath",
               "network", "customize"}

-----------------------------------------------------------------------------
(* The pages. *)

\* initializePage.
InitializeName(g) == [g EXCEPT !.name = IF @ = None THEN Suggested ELSE @]

InitializeCPU(g) ==
  LET size == CASE g.os = "Windows" -> 2 [] g.os = "Linux" -> 1 [] OTHER -> 0
  IN  IF size = 0 THEN g ELSE [g EXCEPT !.memory = size, !.vcpus = size]

InitializeStorage(g) == [g EXCEPT !.diskPath = IF @ = None THEN "abs" ELSE @]

Initialize(p, g) == CASE p = NameAndOS  -> InitializeName(g)
                      [] p = CPU_Memory -> InitializeCPU(g)
                      [] p = Storage    -> InitializeStorage(g)
                      [] OTHER          -> g

CleanUp(p, g) == [x \in DOMAIN g |-> IF x \in FieldsOf[p] \cap Registered THEN First[x] ELSE g[x]]

\* validatePage.  The directory of the image, if it is missing, may be made or not.
ValidName == f.name \in Names \cup {Padded}
ValidMedia == /\ f.media = "ISO" => f.isoPath # None
              /\ f.media = "Other" => f.otherPath # None
ValidCPU == f.memory <= f.maxMemory /\ f.vcpus <= f.maxVcpus
ValidStorage == f.storage # "No" => f.diskPath # None

Validate(p) == CASE p = NameAndOS    -> ValidName
                 [] p = InstallMedia -> ValidMedia
                 [] p = CPU_Memory   -> ValidCPU
                 [] p = Storage      -> ValidStorage
                 [] OTHER            -> TRUE

Busy == guest # None
Quiet == UNCHANGED <<guest, custom, host, m_domains, others>>

OpenWizard ==
  /\ page = 0 /\ edits > 0
  /\ page' = NameAndOS /\ history' = <<NameAndOS>> /\ inited' = {NameAndOS}
  /\ f' = Initialize(NameAndOS, First)
  /\ told' = "nothing" /\ Quiet /\ UNCHANGED edits

\* Forward to page p, if the current one is complete and validates.
GoTo(p) ==
  /\ page \in NameAndOS..Network /\ (page = NameAndOS => f.name # None) /\ Validate(page)
  /\ page' = p /\ history' = Append(history, p) /\ inited' = inited \cup {p}
  /\ f' = IF p \in inited THEN f ELSE Initialize(p, f)
  /\ Quiet /\ UNCHANGED <<told, edits>>

Forward == GoTo(page + 1)

\* The Customize button skips the pages between.
onCustomizeClicked == page # Network /\ GoTo(Summary)

Back ==
  /\ page # 0 /\ ~Busy /\ Len(history) > 1
  /\ page' = history[Len(history) - 1] /\ history' = Front(history)
  /\ inited' = inited \ {page}
  /\ f' = CleanUp(page, f)
  /\ Quiet /\ UNCHANGED <<told, edits>>

SetField(x, v) ==
  /\ page # 0 /\ ~Busy /\ edits > 0 /\ x \in FieldsOf[page] /\ f[x] # v
  /\ x = "isoPath" => f.media = "ISO"
  /\ x = "otherPath" => f.media = "Other"
  /\ x = "diskPath" => f.storage # "No"
  /\ f' = [f EXCEPT ![x] = v] /\ edits' = edits - 1
  /\ Quiet /\ UNCHANGED <<page, history, inited, told>>

Cancel == /\ page # 0 /\ ~Busy
          /\ page' = 0 /\ history' = <<>> /\ inited' = {} /\ f' = First
          /\ Quiet /\ UNCHANGED <<told, edits>>

-----------------------------------------------------------------------------
(* The Guest. *)

DiskSet == [device : {"disk", "cdrom"}, target : Nat, bus : {"Virtio", "SATA"},
            source : {None, "abs", "rel"}]
Guests == [name : Fields.name, memory : Sizes, currentMemory : Sizes, vcpus : Nat,
           maxVcpus : Nat, disks : Seq(DiskSet), nics : {0, 1}]
Customs == [name : Fields.name, memory : Sizes, currentMemory : Sizes,
            vcpus : 1..MaxVcpus, maxVcpus : 1..MaxVcpus, row : Nat,
            bus : {"Virtio", "SATA"}]
Written == [name : Names, memory : Sizes, currentMemory : Sizes, vcpus : Nat,
            disks : Seq(DiskSet), nics : {0, 1}]

ASSUME NoneAssumption == {None, Foreign} \cap (Guests \cup Customs \cup Written) = {}

Disk(device, target, bus, source) ==
  [device |-> device, target |-> target, bus |-> bus, source |-> source]

\* SummaryPage::validatePage, from the fields.  Of the ways to install, only the
\* ISO image becomes part of the VM.  A target is vd and a letter's number, or hda.
Built ==
  [name |-> f.name, memory |-> f.memory, currentMemory |-> f.memory,
   vcpus |-> f.vcpus, maxVcpus |-> 2 * f.vcpus,
   disks |-> (IF f.storage = "No" THEN <<>> ELSE <<Disk("disk", 1, "Virtio", f.diskPath)>>)
             \o (IF f.media = "ISO" THEN <<Disk("cdrom", 0, "SATA", f.isoPath)>> ELSE <<>>),
   nics |-> IF f.network = "None" THEN 0 ELSE 1]

\* Slip: the two memory sizes, equal when the wizard makes them, are not compared.
ValidAnyMemory(g) ==
  /\ g.name \in Names
  /\ g.vcpus <= g.maxVcpus
  /\ \A i \in DOMAIN g.disks : g.disks[i].source # "rel"

\* Guest::validate.  A disk without a path passes.
Valid(g) ==
  /\ g.name \in Names
  /\ g.currentMemory <= g.memory /\ g.vcpus <= g.maxVcpus
  /\ \A i \in DOMAIN g.disks : g.disks[i].source # "rel"

\* Guest::toXML.  The largest number of CPUs is not written.
toXML(g) == [x \in DOMAIN g \ {"maxVcpus"} |-> g[x]]

\* Slip: the table is not asked.
defineDomainAnyway(g) ==
  \/ /\ host[g.name] = None /\ host' = [host EXCEPT ![g.name] = toXML(g)]
     /\ m_domains' = m_domains \cup {g.name} /\ told' = "created"
  \/ UNCHANGED <<host, m_domains>> /\ told' = "failed"

\* Connection::defineDomain.  libvirt refuses a name it has under another UUID,
\* and may refuse anything; a name only the table has is refused once the VM is
\* defined.
defineDomain(g) ==
  \/ /\ host[g.name] = None /\ host' = [host EXCEPT ![g.name] = toXML(g)]
     /\ IF g.name \in m_domains
        THEN UNCHANGED m_domains /\ told' = "failed"
        ELSE m_domains' = m_domains \cup {g.name} /\ told' = "created"
  \/ UNCHANGED <<host, m_domains>> /\ told' = "failed"

\* The rest of validatePage, for a guest that is not to be customized any more.
\* After a success the wizard is finished.
Define(g) ==
  /\ \/ ~Valid(g) /\ told' = "invalid" /\ UNCHANGED <<host, m_domains>>
     \/ Valid(g) /\ defineDomain(g)
  /\ guest' = None /\ custom' = None
  /\ IF told' = "created" THEN page' = 0 /\ history' = <<>> /\ inited' = {} /\ f' = First
                          ELSE UNCHANGED wizard

-----------------------------------------------------------------------------
(* CustomizeGuestDialog. *)

\* The details of a row, if there is one; else the combo box shows what it did.
BusShown(g, r, old) == IF r = 0 THEN old ELSE g.disks[r].bus

Clipped(n) == IF n > MaxVcpus THEN MaxVcpus ELSE n

OpenCustom(g) ==
  LET r == IF g.disks = <<>> THEN 0 ELSE 1
  IN  [name |-> g.name, currentMemory |-> g.currentMemory, memory |-> g.memory,
       vcpus |-> Clipped(g.vcpus), maxVcpus |-> Clipped(g.maxVcpus),
       row |-> r, bus |-> BusShown(g, r, "Virtio")]

\* Finish, and Yes to the question.
Finish ==
  /\ page = Summary /\ ~Busy
  /\ \/ /\ f.customize
        /\ guest' = Built /\ custom' = OpenCustom(Built)
        /\ UNCHANGED <<wizard, host, m_domains, told>>
     \/ ~f.customize /\ Define(Built)
  /\ UNCHANGED <<edits, others>>

Customizing == custom # None /\ UNCHANGED <<wizard, host, m_domains, told, others>>
Spend == edits > 0 /\ edits' = edits - 1

SetCustom(x, v) == /\ Customizing /\ Spend /\ custom[x] # v
                   /\ custom' = [custom EXCEPT ![x] = v] /\ UNCHANGED guest

onCurrentDiskChanged(r) ==
  /\ Customizing /\ r # custom.row
  /\ custom' = [custom EXCEPT !.row = r, !.bus = guest.disks[r].bus]
  /\ UNCHANGED <<guest, edits>>

\* The new disk takes the letter after as many as there are disks.
onDiskAdded ==
  /\ Customizing /\ Spend
  /\ LET n == Len(guest.disks)
     IN  /\ guest' = [guest EXCEPT !.disks = Append(@, Disk("disk", n + 1, "Virtio", "abs"))]
         /\ custom' = [custom EXCEPT !.row = n + 1, !.bus = "Virtio"]

\* Slip: the list is not filled again.
onDiskRemovedOnly ==
  /\ Customizing /\ Spend /\ custom.row # 0
  /\ guest' = [guest EXCEPT !.disks = RemoveAt(@, custom.row)]
  /\ UNCHANGED custom

onDiskRemoved ==
  /\ Customizing /\ Spend /\ custom.row # 0
  /\ guest' = [guest EXCEPT !.disks = RemoveAt(@, custom.row)]
  /\ LET r == IF guest'.disks = <<>> THEN 0 ELSE 1
     IN  custom' = [custom EXCEPT !.row = r, !.bus = BusShown(guest', r, @)]

ChangeNics == /\ Customizing /\ Spend
              /\ guest' = [guest EXCEPT !.nics = IF @ = 0 THEN 1 ELSE 0] /\ UNCHANGED custom

\* What Apply makes of the guest: of the disks' and NICs' details only the bus is
\* read, and it goes to every disk.
Applied ==
  LET onBus(d) == [d EXCEPT !.bus = custom.bus]
      name == IF custom.name = Padded THEN Suggested ELSE custom.name   \* trimmed
  IN  [name |-> name, currentMemory |-> custom.currentMemory, memory |-> custom.memory,
       vcpus |-> custom.vcpus, maxVcpus |-> custom.maxVcpus,
       disks |-> [i \in DOMAIN guest.disks |-> onBus(guest.disks[i])], nics |-> guest.nics]

\* A bad name stops Apply before anything is set; what the guest itself finds
\* wrong stops it afterwards.
onOkayClicked ==
  /\ custom # None /\ UNCHANGED <<edits, others>>
  /\ \/ /\ custom.name \notin Names \cup {Padded}
        /\ told' = "invalid" /\ UNCHANGED <<wizard, guest, custom, host, m_domains>>
     \/ /\ custom.name \in Names \cup {Padded} /\ ~Valid(Applied)
        /\ told' = "invalid" /\ guest' = Applied
        /\ UNCHANGED <<wizard, custom, host, m_domains>>
     \/ /\ custom.name \in Names \cup {Padded} /\ Valid(Applied)
        /\ Define(Applied)

onCancelClicked == /\ Customizing /\ guest' = None /\ custom' = None /\ UNCHANGED edits

-----------------------------------------------------------------------------
(* Around the wizard. *)

\* The poll compares names.
Poll == /\ m_domains' = {n \in Names : host[n] # None} /\ m_domains' # m_domains
        /\ UNCHANGED <<wizard, guest, custom, host, told, edits, others>>

Other(n) == /\ others > 0 /\ others' = others - 1
            /\ host' = [host EXCEPT ![n] = IF @ = None THEN Foreign ELSE None]
            /\ UNCHANGED <<wizard, guest, custom, m_domains, told, edits>>

WizardInit ==
  /\ page = 0 /\ history = <<>> /\ inited = {} /\ f = First
  /\ guest = None /\ custom = None
  /\ host \in [Names -> {None, Foreign}] /\ m_domains = {n \in Names : host[n] # None}
  /\ told = "nothing" /\ edits = MaxEdits /\ others = MaxOthers

WizardNext ==
  \/ OpenWizard \/ Forward \/ onCustomizeClicked \/ Back \/ Cancel \/ Finish
  \/ \E x \in DOMAIN Fields : \E v \in Fields[x] : SetField(x, v)
  \/ \E x \in {"currentMemory", "memory"} : \E v \in Sizes : SetCustom(x, v)
  \/ \E x \in {"vcpus", "maxVcpus"} : \E v \in 1..MaxVcpus : SetCustom(x, v)
  \/ \E v \in Fields["name"] : SetCustom("name", v)
  \/ \E v \in {"Virtio", "SATA"} : SetCustom("bus", v)
  \/ custom # None /\ \E r \in DOMAIN guest.disks : onCurrentDiskChanged(r)
  \/ onDiskAdded \/ onDiskRemoved \/ ChangeNics \/ onOkayClicked \/ onCancelClicked
  \/ Poll \/ \E n \in Names : Other(n)

WizardSpec == WizardInit /\ [][WizardNext]_wizardVars

-----------------------------------------------------------------------------
(* Properties. *)

Ours == {n \in Names : host[n] \notin {None, Foreign}}

\* Every field has a value its control can show, the pages Back goes through are
\* those initialized, and the row selected in the disk list is one of the disks.
WizardTypeOK ==
  /\ page \in 0..Summary /\ (page = 0 <=> history = <<>>)
  /\ page # 0 => Last(history) = page
  /\ ToSet(history) = inited
  /\ DOMAIN f = DOMAIN Fields /\ \A x \in DOMAIN Fields : f[x] \in Fields[x]
  /\ guest \in Guests \cup {None} /\ custom \in Customs \cup {None}
  /\ (guest = None) <=> (custom = None)
  /\ guest # None => /\ page = Summary
                     /\ custom.row \in 0..Len(guest.disks)
                     /\ custom.row = 0 => guest.disks = <<>>
  /\ m_domains \subseteq Names /\ told \in {"nothing", "created", "failed", "invalid"}

\* Whatever pages were skipped, gone back through or overruled by the customizing
\* dialog, a VM of ours on the host has the name it is known by, starts within
\* its memory and opens no disk image by a relative path.
DefinedIsSane ==
  \A n \in Ours : /\ host[n].name = n /\ host[n].currentMemory <= host[n].memory
                  /\ \A i \in DOMAIN host[n].disks : host[n].disks[i].source # "rel"

\* The wizard says "created" exactly when the host and the table have both gained
\* the VM: one VM, that neither had.  What reaches the host without being listed
\* was reported as failed, and its name was in the table from a VM since gone.
ToldTheTruth ==
  [][LET gained == {n \in Names : host[n] = None /\ host'[n] \notin {None, Foreign}}
         made == page # 0 /\ page' = 0 /\ told' = "created"
     IN  /\ made => \E n \in Names : gained = {n} /\ m_domains' = m_domains \cup gained
                                     /\ n \notin m_domains
         /\ \A n \in gained : made \/ (told' = "failed" /\ n \in m_domains)]_wizardVars
=============================================================================
