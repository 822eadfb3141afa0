--------------------------- MODULE HardwarePages ---------------------------
(***************************************************************************)
(* The twenty-one pages of the Add Hardware dialog                          *)
(* (src/src/ui/dialogs/AddHardwareDialog.cpp), one for each class of device. *)
(* A page is given by                                                       *)
(*   XControls   its controls, each with the choices told apart, the one it *)
(*               opens with first (setupUI);                                *)
(*   XMade(ch)   the members createDevice() sets for the choices ch; a      *)
(*               member it does not set keeps the class's initial value;    *)
(*   XValid(ch)  whether validate() lets the page be accepted, where it     *)
(*               does not always.                                           *)
(* A control that sets a member has the member's name.                      *)
(*                                                                          *)
(* "Slip:" marks a form that an easy mistake would give to the definition   *)
(* after it.                                                                *)
(***************************************************************************)
EXTENDS DeviceXml

\* The choices but for some controls.
Except(ch, controls) == [f \in DOMAIN ch \ controls |-> ch[f]]

\* The size is asked for and not used; every disk is called vda.
DiskControls == [device |-> Enum, bus |-> Enum, source |-> Free, size |-> Number,
                 driverType |-> <<"qcow2", "raw">>, readonly |-> Flag]
\* Slip: the format is shown and forgotten.
DiskMadeNoFormat(ch) == Over([target |-> "vda"], Except(ch, {"size", "driverType"}))
DiskMade(ch) == Over([target |-> "vda"], Except(ch, {"size"}))
DiskValid(ch) == ch.source # None

\* NAT and isolated are the same network; a MAC address is drawn if none is given.
NetworkControls == [type |-> <<"NAT", "Bridge", "Direct", "Isolated">>,
                    source |-> <<"default", "virbr0">>, model |-> <<"Virtio", "E1000">>,
                    macAddress |-> Free]
NetworkMade(ch) ==
  LET type == IF ch.type \in {"NAT", "Isolated"} THEN "Network" ELSE ch.type
  IN  Over([type |-> type],
           IF ch.macAddress = None THEN Except(ch, {"macAddress"}) ELSE ch)

ControllerControls == [type |-> <<"USB", "PCI">>, usbModel |-> Enum, index |-> Text]
InputControls == [type |-> <<"Tablet", "Mouse">>, bus |-> Enum]
GraphicsControls == [type |-> <<"SPICE", "VNC">>, autoPort |-> Raised, port |-> Text,
                     listenAddress |-> <<"0.0.0.0", "some", None, "markup">>,
                     keyMap |-> <<"en-us", "other">>]
VideoControls == [model |-> Enum, vram |-> <<"16384", "some">>, heads |-> Text,
                  accel3D |-> <<"2d", "3d">>]
SoundControls == [model |-> Enum]

TPMControls == [model |-> Enum, backend |-> <<"Emulator", "Passthrough">>,
                version |-> Enum, devicePath |-> Free]
TPMValid(ch) == ch.backend = "Passthrough" => ch.devicePath # None

\* Of a PCI device only the type is set: there is no control for its address.
HostControls == [type |-> <<"USB", "PCI">>, usbMode |-> <<"Bus", "Device">>,
                 usbAddress |-> Number, usbIds |-> Free]
HostMade(ch) == IF ch.type = "USB" THEN ch ELSE [type |-> ch.type]
HostValid(ch) == ch.type = "USB" /\ ch.usbMode = "Device" => ch.usbIds # None

FileSystemControls == [driverType |-> <<"VirtioFS", "9P">>, sourcePath |-> Free,
                       targetDir |-> Free, mountTag |-> Text, accessMode |-> Enum,
                       readonly |-> Flag]
FileSystemValid(ch) == ch.sourcePath # None /\ ch.targetDir # None

WatchdogControls == [model |-> Enum, action |-> Enum]
RNGControls == [backend |-> Enum, sourcePath |-> <<"urandom", "some", None, "markup">>]
RNGValid(ch) == ch.sourcePath # None

SmartcardControls == [mode |-> <<"Host", "HostCertificates", "Passthrough">>,
                      type |-> Enum, database |-> Free, sourcePath |-> Free]
SmartcardValid(ch) == ch.mode = "Passthrough" => ch.sourcePath # None

MemballoonControls == [model |-> Enum, autodeflate |-> Flag, deflateOnOOM |-> Flag,
                       period |-> <<"five", "some", None>>]
USBRedirControls == [bus |-> Number, port |-> Number]

\* The range 0..UINT32_MAX of the CID is 0..-1 as int: 0 is all one can choose.
VSockControls == [cidAssignment |-> <<"Auto", "Manual">>, cid |-> <<"zero">>]
VSockMade(ch) == IF ch.cidAssignment = "Auto" THEN Except(ch, {"cid"}) ELSE ch

PanicControls == [model |-> Enum]

\* The port is asked for and not used.
SerialControls == [type |-> <<"PTY", "TCP", "File", "Spice">>, sourcePath |-> Text,
                   askedPort |-> Enum]
SerialMade(ch) == Except(ch, {"askedPort"})

\* Nothing that is asked for is used.
ParallelControls == [askedType |-> Enum, sourcePath |-> Text]
ParallelMade(ch) == Except(ch, DOMAIN ch)

IOMMUControls == [model |-> <<"Intel", "AMD", "SMMUV3">>]

\* For the types of SPICE the class's initial one stays.
ChannelControls == [type |-> <<"VirtioSerial", "Spice", "Unix">>,
                    targetName |-> <<None, "other">>, sourcePath |-> Text]
ChannelMade(ch) ==
  Except(ch, (IF ch.type = "Spice" THEN {"type"} ELSE {})
             \cup (IF ch.targetName = None THEN {"targetName"} ELSE {}))

-----------------------------------------------------------------------------
\* The rows of the dialog's list, in its order.
Rows == <<"Disk", "Network", "Controller", "Input", "Graphics", "Video", "Sound",
          "Host", "FileSystem", "TPM", "RNG", "Watchdog", "Smartcard", "Memballoon",
          "USBRedir", "VSock", "Panic", "Serial", "Parallel", "IOMMU", "Channel">>

\* The pages of its stack, in their order.
Stack == <<"Disk", "Network", "Controller", "Input", "Graphics", "Video", "Sound",
           "TPM", "Host", "FileSystem", "RNG", "Watchdog", "Smartcard", "Memballoon",
           "USBRedir", "VSock", "Panic", "Serial", "Parallel", "IOMMU", "Channel">>
Pages == {Stack[i] : i \in DOMAIN Stack}

Controls ==
  [Disk |-> DiskControls, Network |-> NetworkControls, Controller |-> ControllerControls,
   Input |-> InputControls, Graphics |-> GraphicsControls, Video |-> VideoControls,
   Sound |-> SoundControls, TPM |-> TPMControls, Host |-> HostControls,
   FileSystem |-> FileSystemControls, RNG |-> RNGControls, Watchdog |-> WatchdogControls,
   Smartcard |-> SmartcardControls, Memballoon |-> MemballoonControls,
   USBRedir |-> USBRedirControls, VSock |-> VSockControls, Panic |-> PanicControls,
   Serial |-> SerialControls, Parallel |-> ParallelControls, IOMMU |-> IOMMUControls,
   Channel |-> ChannelControls]
Options(p, f) == {Controls[p][f][i] : i \in DOMAIN Controls[p][f]}

Validate(p, ch) ==
  CASE p = "Disk" -> DiskValid(ch)  [] p = "TPM" -> TPMValid(ch)
    [] p = "Host" -> HostValid(ch)  [] p = "FileSystem" -> FileSystemValid(ch)
    [] p = "RNG" -> RNGValid(ch)    [] p = "Smartcard" -> SmartcardValid(ch)
    [] OTHER -> TRUE

\* What toXML() says of the device createDevice() makes for the choices ch.
PageSays(p, ch) ==
  CASE p = "Disk" -> DiskXml(Over(DiskMade(ch), Initial(DiskFields)))
    [] p = "Network" -> NetworkXml(Over(NetworkMade(ch), Initial(NetworkFields)))
    [] p = "Controller" -> ControllerXml(Over(ch, Initial(ControllerFields)))
    [] p = "Input" -> InputXml(ch)
    [] p = "Graphics" -> GraphicsXml(Over(ch, Initial(GraphicsFields)))
    [] p = "Video" -> VideoXml(ch)
    [] p = "Sound" -> SoundXml(ch)
    [] p = "TPM" -> TPMXml(ch)
    [] p = "Host" -> HostXml(Over(HostMade(ch), Initial(HostFields)))
    [] p = "FileSystem" -> FileSystemXml(Over(ch, Initial(FileSystemFields)))
    [] p = "RNG" -> RNGXml(Over(ch, Initial(RNGFields)))
    [] p = "Watchdog" -> WatchdogXml(ch)
    [] p = "Smartcard" -> SmartcardXml(ch)
    [] p = "Memballoon" -> MemballoonXml(ch)
    [] p = "USBRedir" -> USBRedirXml(Over(ch, Initial(USBRedirFields)))
    [] p = "VSock" -> VSockXml(Over(VSockMade(ch), Initial(VSockFields)))
    [] p = "Panic" -> PanicXml(Over(ch, Initial(PanicFields)))
    [] p = "Serial" -> SerialXml(Over(SerialMade(ch), Initial(SerialFields)))
    [] p = "Parallel" -> ParallelXml(Over(ParallelMade(ch), Initial(ParallelFields)))
    [] p = "IOMMU" -> IOMMUXml(Over(ch, Initial(IOMMUFields)))
    [] p = "Channel" -> ChannelXml(Over(ChannelMade(ch), Initial(ChannelFields)))

\* Whether that is an element at all.
IsElement(p, ch) == (p = "TPM" => TPMParses(ch)) /\ Escaped(p, PageSays(p, ch))
=============================================================================
