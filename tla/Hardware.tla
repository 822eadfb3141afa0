------------------------------ MODULE Hardware ------------------------------
(***************************************************************************)
(* The details page of a VM's window (src/src/ui/vmwindow/DetailsPage.cpp): *)
(* its tree of devices, the Add Hardware dialog it opens, and the changes   *)
(* to the persistent configuration that come of both.  Domain models when   *)
(* and on which text these edits are made; here it is which device they     *)
(* add and remove.                                                          *)
(*                                                                          *)
(* A device of the configuration is its class, whether its element has a    *)
(* target with a dev name, and for a controller whether it is a USB one.    *)
(* Left out: the memory and CPU rows of the tree, the details pane, and     *)
(* what a running VM has attached, which the text never shows.              *)
(*                                                                          *)
(* "Slip:" marks a form that an easy mistake would give to the definition   *)
(* after it.                                                                *)
(***************************************************************************)
EXTENDS HardwarePages, SequencesExt, Integers

CONSTANTS Devices,    \* the devices the VM has when the page is opened
          MaxActs,    \* bound: rows picked and controls set in the dialogs
          MaxEdits    \* bound: attempts to change the configuration

Device == [class : Pages, named : BOOLEAN, usb : BOOLEAN]

ASSUME DevicesAssumption ==
  /\ Devices \in Seq(Device)
  \* libvirt defines no disk without a target.
  /\ \A i \in DOMAIN Devices : Devices[i].class = "Disk" => Devices[i].named
ASSUME HardwareBounds == MaxActs \in Nat /\ MaxEdits \in Nat

VARIABLES config,     \* the devices of the persistent configuration
          text,       \* those of the text kept by getXMLDesc, which the tree shows
          item,       \* the tree's current device, as its place in text, or 0
          m_readOnly, \* the VM is one from the cache
          dialog,     \* "none", "open", or "crashed" with all the program
          row,        \* m_deviceList: the current row
          page,       \* m_pageStack: the current page
          choices,    \* what the controls of every page are set to
          told,       \* what the last message box said
          acts, edits \* budgets left
tree == <<text, item, m_readOnly>>
form == <<row, page, choices>>
hardwareVars == <<config, tree, dialog, form, told, acts, edits>>

Untouched == [p \in Pages |-> Initial(Controls[p])]

HardwareTypeOK ==
  /\ config \in Seq(Device) /\ text \in Seq(Device) /\ item \in 0..Len(text)
  /\ m_readOnly \in BOOLEAN /\ dialog \in {"none", "open", "crashed"}
  /\ row \in DOMAIN Rows /\ page \in DOMAIN Stack
  /\ \A p \in Pages : \A f \in DOMAIN Controls[p] : choices[p][f] \in Options(p, f)
  /\ told \in {"nothing", "refused", "attached", "added", "removed", "failed"}
  /\ acts \in 0..MaxActs /\ edits \in 0..MaxEdits

-----------------------------------------------------------------------------
(* The tree: populateDeviceTree, getDeviceXML, findDeviceNode. *)

\* The category a device is listed under, or "none".
Category(d) ==
  CASE d.class = "Disk" -> "Disk Devices" [] d.class = "Network" -> "Network Interfaces"
    [] d.class = "Input" -> "Input"       [] d.class \in {"Graphics", "Video"} -> "Display"
    [] d.class = "Sound" -> "Sound"       [] d.class = "Controller" /\ d.usb -> "USB"
    [] OTHER -> "none"

\* The elements findDeviceNode looks through for a category.
ElementsOf(category) ==
  CASE category = "Disk Devices" -> "Disk" [] category = "Network Interfaces" -> "Network"
    [] category = "Display" -> "Graphics"  [] category = "USB" -> "Controller"
    [] OTHER -> category

InCategory(category) == SelectSeq(text, LAMBDA d : Category(d) = category)

\* The text of a disk's or a NIC's item ("Disk 1", "Network 2") holds neither its
\* target's name nor its type; but any text holds the empty name of an element
\* without a target.
Matches(category) ==
  {i \in DOMAIN text : text[i].class = ElementsOf(category) /\ ~text[i].named}

Select(i) ==
  /\ dialog = "none" /\ Category(text[i]) # "none" /\ item # i
  /\ item' = i
  /\ UNCHANGED <<config, text, m_readOnly, dialog, form, told, acts, edits>>

\* setXML, which may fail.
Define(devices, done) == \/ config' = devices /\ told' = done
                         \/ UNCHANGED config /\ told' = "failed"

\* m_domain->state() is asked when the handler gets there.  After a success the
\* tree is filled anew, from the text that was kept, and its first row is current.
onRemoveHardware(running) ==
  /\ dialog = "none" /\ ~m_readOnly /\ edits > 0 /\ edits' = edits - 1
  /\ LET category == IF item = 0 THEN "none" ELSE Category(text[item])
     IN  \/ /\ item = 0 \/ (~running /\ Matches(category) = {})
            /\ told' = "refused" /\ UNCHANGED config
         \* The whole category is detached, which is no document if it is several.
         \/ /\ item # 0 /\ running
            /\ \/ Len(InCategory(category)) = 1 /\ told' = "removed"
               \/ told' = "failed"
            /\ UNCHANGED config
         \/ /\ item # 0 /\ ~running /\ Matches(category) # {}
            /\ Define(RemoveAt(text, Min(Matches(category))), "removed")
  /\ item' = IF told' = "removed" THEN 0 ELSE item
  /\ UNCHANGED <<text, m_readOnly, dialog, form, acts>>

-----------------------------------------------------------------------------
(* The Add Hardware dialog. *)

OpenDialog ==
  /\ dialog = "none" /\ ~m_readOnly /\ edits > 0
  /\ dialog' = "open" /\ told' = "nothing"
  /\ UNCHANGED <<config, tree, form, acts, edits>>

\* It is deleted when it is left, and the next one starts anew.
Leave == row' = 1 /\ page' = 1 /\ choices' = Untouched

\* Slip: the rows taken to be in the order of the pages.
PageOfByRow(r) == r

\* onDeviceTypeChanged: the page a row's class has in the stack.
PageOf(r) == CHOOSE i \in DOMAIN Stack : Stack[i] = Rows[r]

onDeviceTypeChanged(r) ==
  /\ dialog = "open" /\ acts > 0 /\ acts' = acts - 1 /\ r # row
  /\ row' = r /\ page' = PageOf(r)
  /\ UNCHANGED <<config, tree, dialog, choices, told, edits>>

\* A control of the page shown is set.  The port of a display and the CID are
\* disabled while they are assigned.
Enabled(p, f, ch) == /\ <<p, f>> = <<"Graphics", "port">> => ch.autoPort = None
                     /\ <<p, f>> = <<"VSock", "cid">> => ch.cidAssignment = "Manual"

SetControl(f, v) ==
  /\ dialog = "open" /\ acts > 0 /\ acts' = acts - 1
  /\ Enabled(Stack[page], f, choices[Stack[page]]) /\ choices[Stack[page]][f] # v
  /\ choices' = [choices EXCEPT ![Stack[page]][f] = v]
  /\ UNCHANGED <<config, tree, dialog, row, page, told, edits>>

\* The dialog is dismissed.
reject ==
  /\ dialog = "open" /\ dialog' = "none" /\ Leave
  /\ UNCHANGED <<config, tree, told, acts, edits>>

\* The device made on a page, as an element of the configuration.
Made(p, ch) == [class |-> p, named |-> p = "Disk",
                usb |-> p = "Controller" /\ ch.type = "USB"]

\* onAddHardware with the device, once the dialog was accepted.  Text that is no
\* element is dropped without a word; only a running VM's libvirt refuses it.
Add(p, ch, running) ==
  \/ /\ running
     /\ told' \in {"failed"} \cup (IF IsElement(p, ch) THEN {"attached"} ELSE {})
     /\ UNCHANGED config
  \/ ~running /\ IsElement(p, ch) /\ Define(Append(text, Made(p, ch)), "added")
  \/ ~running /\ ~IsElement(p, ch) /\ UNCHANGED <<config, told>>

\* The OK button.  A page that does not validate stays, some with a box.  The
\* dialog is deleted by exec() before it is asked for the device: what is read
\* is the device, or nothing, or what ends the program.
onAccepted(running) ==
  LET p == Stack[page]  ch == choices[p]
  IN  /\ dialog = "open" /\ Validate(p, ch) /\ edits > 0 /\ edits' = edits - 1
      /\ \/ dialog' = "none" /\ Add(p, ch, running) /\ item' = 0
         \/ dialog' = "none" /\ UNCHANGED <<config, item, told>>
         \/ dialog' = "crashed" /\ UNCHANGED <<config, item, told>>
      /\ Leave /\ UNCHANGED <<text, m_readOnly, acts>>

\* Slip: the item is looked for by its old place.
ReopenAtItem ==
  /\ dialog = "none" /\ text # config
  /\ text' = config /\ told' = "nothing"
  /\ UNCHANGED <<config, item, m_readOnly, dialog, form, acts, edits>>

\* The window is opened anew on a new Domain object, which reads its text.
Reopen ==
  /\ dialog = "none" /\ text # config
  /\ text' = config /\ item' = 0 /\ told' = "nothing"
  /\ UNCHANGED <<config, m_readOnly, dialog, form, acts, edits>>

-----------------------------------------------------------------------------
HardwareInit ==
  /\ config = Devices /\ text = Devices /\ item = 0 /\ m_readOnly \in BOOLEAN
  /\ dialog = "none" /\ row = 1 /\ page = 1 /\ choices = Untouched
  /\ told = "nothing" /\ acts = MaxActs /\ edits = MaxEdits

HardwareNext ==
  \/ \E i \in DOMAIN text : Select(i)
  \/ \E running \in BOOLEAN : onRemoveHardware(running) \/ onAccepted(running)
  \/ OpenDialog \/ reject \/ Reopen
  \/ \E r \in DOMAIN Rows : onDeviceTypeChanged(r)
  \/ \E f \in DOMAIN Controls[Stack[page]] :
       \E v \in Options(Stack[page], f) : SetControl(f, v)

HardwareSpec == HardwareInit /\ [][HardwareNext]_hardwareVars

-----------------------------------------------------------------------------
(* Controls that ask for what no device says: never, or not as the others are set. *)
Unused(p, ch) ==
  CASE p = "Disk" -> {"size"}
    [] p = "Network" -> IF ch.type \in {"NAT", "Isolated"} THEN {"type"} ELSE {}
    [] p = "Controller" -> IF ch.type # "USB" THEN {"usbModel"} ELSE {}
    [] p = "Graphics" -> IF ch.autoPort # None THEN {"port"} ELSE {}
    [] p = "TPM" -> IF ch.backend = "Emulator" THEN {"devicePath"} ELSE {"version"}
    [] p = "Host" -> IF ch.type = "PCI" THEN DOMAIN ch \ {"type"}
                     ELSE IF ch.usbMode = "Bus" THEN {"usbIds"} ELSE {"usbAddress"}
    [] p = "FileSystem" -> {"mountTag"}
    [] p = "Smartcard" -> (IF ch.mode = "HostCertificates" THEN {} ELSE {"database"})
                          \cup (IF ch.mode = "Passthrough" THEN {} ELSE {"sourcePath"})
    [] p = "Serial" -> {"askedPort"} \cup (IF ch.type = "File" THEN {} ELSE {"sourcePath"})
    [] p = "Parallel" -> {"askedType", "sourcePath"}
    [] p = "Channel" -> {"type"}
    [] OTHER -> {}

\* Every control of the page shown counts: with any other choice for it the
\* device would be another one.  What is asked for gets through createDevice()
\* and toXML(), written apart, but for the controls of Unused.
EveryControlCounts ==
  LET p == Stack[page]  ch == choices[p]
  IN  dialog = "open" =>
        \A f \in DOMAIN ch \ Unused(p, ch) : \A v \in Options(p, f) \ {ch[f]} :
          PageSays(p, [ch EXCEPT ![f] = v]) # PageSays(p, ch)

\* When the configuration changes, it becomes the text the page keeps with one
\* device more or less, and the user is told so.  (The text may be behind: what was
\* defined since is lost, as the module Domain shows.)  What is added is what the
\* controls of the row highlighted in the dialog's list make, whatever pages were
\* visited before, and they validate as that page wants and are an element.  What
\* goes is one of the elements that the selected item's category stands for, not
\* always the selected one (see RemovedIsSelected), and never a disk.
EditsAreAsked ==
  [][config' # config =>
       \/ /\ told' = "added"
          /\ Validate(Rows[row], choices[Rows[row]]) /\ IsElement(Rows[row], choices[Rows[row]])
          /\ config' = Append(text, Made(Rows[row], choices[Rows[row]]))
       \/ /\ told' = "removed" /\ item # 0
          /\ \E i \in DOMAIN text :
               /\ config' = RemoveAt(text, i) /\ text[i].class # "Disk"
               /\ text[i].class = ElementsOf(Category(text[item]))]_hardwareVars

\* DetailsPage.cpp:653 "Find and remove the specific device", the selected one that
\* the box at 675 names: "Device '%1' (%2) has been removed."
RemovedIsSelected ==
  [][told' = "removed" /\ config' # config => config' = RemoveAt(text, item)]_hardwareVars
=============================================================================
