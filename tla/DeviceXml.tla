----------------------------- MODULE DeviceXml -----------------------------
(***************************************************************************)
(* The devices of a guest and their XML (src/src/devices/).  See XmlForm    *)
(* for the way a class is described.  The alias and the address are members *)
(* here only where the class writes or reads them.                          *)
(*                                                                          *)
(* A definition marked "Slip:" is not the code: see XmlCopies.              *)
(***************************************************************************)
EXTENDS XmlForm

\* DeviceAddress::toString() as the type attribute, and fromString(), which
\* knows two of the types it is given and leaves the address alone for others.
Addresses == <<None, "pci", "drive", "ccw">>
AddressRead(old, read) == IF read \in {"pci", "drive"} THEN read ELSE old

\* The later classes write an address attribute by attribute, for the types
\* they know; for others the element is empty and is read as nothing.
Address(a, known) == If(a \in known, a)

DiskFields ==
  [type |-> Enum, device |-> Enum, bus |-> Enum, target |-> Free, source |-> Free,
   driverName |-> <<"qemu", "some", None, "markup">>, driverType |-> Free, cache |-> Text,
   readonly |-> Flag, shareable |-> Flag, bootOrder |-> Text,
   address |-> Addresses, alias |-> Free]
HasDriver(d) == d.driverName # None \/ d.driverType # None
DiskXml(d) == [AsSet(d) EXCEPT !.bus = If(d.target # None, @),
                               !.cache = If(HasDriver(d), @)]
DiskRead(d, x) ==
  [Merged(d, x) EXCEPT !.driverName = IF HasDriver(x) THEN x.driverName ELSE d.driverName,
                       !.driverType = IF HasDriver(x) THEN x.driverType ELSE d.driverType,
                       !.readonly = x.readonly, !.shareable = x.shareable,
                       !.bootOrder = d.bootOrder,
                       !.address = AddressRead(d.address, x.address)]

\* The MAC address is drawn when the object is made.  "Udp" stands for the types
\* whose source is written under the name of the type, where no reader looks.
NetworkFields ==
  [type |-> <<"Network", "None", "Bridge", "Direct", "User", "Udp">>, source |-> Free,
   sourceMode |-> Free, macAddress |-> <<"drawn", "some", "markup">>,
   model |-> <<"Virtio", "None", "E1000">>, linkState |-> Text,
   targetDev |-> Free, bootOrder |-> Text, address |-> Addresses, alias |-> Free]
NetworkXml(d) ==
  [AsSet(d) EXCEPT !.type = IF @ = "None" THEN "Network" ELSE @,
                   !.source = If(d.type # "User", @),
                   !.sourceMode = If(d.type = "Direct" /\ d.source # None, @),
                   !.model = If(d.model # "None", @)]
NetworkRead(d, x) ==
  [Merged(d, x) EXCEPT !.source = IF x.type = "Udp" /\ x.source # None THEN None ELSE @,
                       !.sourceMode = IF x.type = "Direct" /\ x.source # None
                                      THEN x.sourceMode ELSE d.sourceMode,
                       !.address = AddressRead(d.address, x.address)]

ControllerFields ==
  [type |-> <<"None", "USB", "PCI">>, index |-> Text, usbModel |-> Text,
   ports |-> Text, address |-> Addresses, alias |-> Free]
ControllerXml(d) == [AsSet(d) EXCEPT !.type = IF @ = "None" THEN "USB" ELSE @,
                                     !.usbModel = If(d.type = "USB", @)]
ControllerRead(d, x) == [Merged(d, x) EXCEPT !.address = AddressRead(d.address, x.address)]

InputFields == [type |-> <<"None", "Tablet", "Mouse">>, bus |-> Text]
InputXml(d) == [AsSet(d) EXCEPT !.type = IF @ = "None" THEN "Tablet" ELSE @]
InputRead(d, x) == Merged(d, x)

SoundFields == [model |-> Enum]
SoundXml(d) == AsSet(d)
SoundRead(d, x) == Merged(d, x)

\* The acceleration is written as an attribute and looked for in an element.
VideoFields == [model |-> Enum, vram |-> <<"16384", "some", None>>, heads |-> Text,
                accel3D |-> <<"2d", "3d">>]
VideoXml(d) == AsSet(d)
VideoRead(d, x) == [Merged(d, x) EXCEPT !.accel3D = d.accel3D]

\* The keymap is written as an element and looked for in an attribute; so is
\* the TLS port, in an attribute of another name.
GraphicsFields ==
  [type |-> <<"SPICE", "VNC">>, port |-> Text, autoPort |-> Raised,
   listenAddress |-> <<"0.0.0.0", "some", None, "markup">>,
   listenType |-> <<"Address", "Network", None>>,
   keyMap |-> <<"en-us", "other", None, "markup">>,
   passwordEnabled |-> Flag, password |-> Free, tlsPortEnabled |-> Flag, tlsPort |-> Text]
GraphicsXml(d) ==
  [AsSet(d) EXCEPT !.port = If(d.autoPort = None, @),
                   !.listenAddress = If(d.listenType # None, @),
                   !.passwordEnabled = If(d.password # None, @),
                   !.password = If(d.passwordEnabled # None, @),
                   !.tlsPortEnabled = If(d.type = "SPICE" /\ d.tlsPort # None, @),
                   !.tlsPort = If(d.type = "SPICE" /\ d.tlsPortEnabled # None, @)]
GraphicsRead(d, x) ==
  [Merged(d, x) EXCEPT !.listenAddress = IF x.listenType = None THEN @ ELSE x.listenAddress,
                       !.keyMap = "en-us",
                       !.tlsPortEnabled = d.tlsPortEnabled, !.tlsPort = d.tlsPort]

\* Every channel is written as a unix socket.
ChannelFields ==
  [type |-> <<"VirtioSerial", "Unix">>, targetType |-> Enum, targetName |-> Enum,
   sourceMode |-> Enum, sourcePath |-> Text, address |-> Text]
ChannelXml(d) == [AsSet(d) EXCEPT !.type = "Unix",
                                  !.sourceMode = If(d.sourcePath # None, @)]
ChannelRead(d, x) == Merged(d, x)

-----------------------------------------------------------------------------
(* The classes whose fromXML() reads nothing. *)

FileSystemFields ==
  [mountTag |-> Text, sourcePath |-> Free, targetDir |-> Free,
   driverType |-> <<"VirtioFS", "9P", None>>, accessMode |-> Enum,
   writeMode |-> Text, driverFormat |-> Free, readonly |-> Flag]
FileSystemXml(d) ==
  [AsSet(d) EXCEPT !.mountTag = None,
                   !.writeMode = If(d.driverType # None, @),
                   !.driverFormat = If(d.driverType # None, @)]

\* Members that are written together are one.  usbMode shows in the elements
\* that are written; a mediated device's address has four blanks and fills one.
HostFields ==
  [type |-> <<"USB", "PCI", "SCSI", "MDev", "SCSIHost">>, usbMode |-> <<"Device", "Bus">>,
   usbAddress |-> Number, usbIds |-> Free, pciAddress |-> Free, scsiAddress |-> Free,
   mdevUUID |-> Free, mdevAddress |-> Free]
HostXml(d) ==
  [type |-> d.type, usbMode |-> If(d.type = "USB", d.usbMode),
   usbAddress |-> If(d.type = "USB" /\ d.usbMode = "Bus", d.usbAddress),
   usbIds |-> If(d.type = "USB" /\ d.usbMode = "Device", d.usbIds),
   pciAddress |-> If(d.type = "PCI", d.pciAddress),
   scsiAddress |-> If(d.type = "SCSI", d.scsiAddress),
   mdevUUID |-> If(d.type = "MDev", d.mdevUUID),
   mdevAddress |-> If(d.type = "MDev", IF d.mdevAddress = "markup" THEN "markup"
                                       ELSE "blanks")]

MemballoonFields == [model |-> Enum, autodeflate |-> Flag, deflateOnOOM |-> Flag,
                     period |-> Text]
MemballoonXml(d) == AsSet(d)

RNGFields == [model |-> Enum, backend |-> Enum, sourcePath |-> <<"urandom", "some", None, "markup">>,
              periodBytes |-> Text, maxBytes |-> Text]
RNGXml(d) == AsSet(d)

SmartcardFields == [mode |-> <<"Host", "Passthrough", "HostCertificates">>,
                    type |-> Enum, database |-> Free, sourcePath |-> Free]
SmartcardXml(d) ==
  [AsSet(d) EXCEPT !.database = If(d.mode = "HostCertificates", @),
                   !.sourcePath = If(d.mode = "Passthrough", @)]

TPMFields == [model |-> Enum, backend |-> <<"Emulator", "Passthrough">>,
              version |-> Enum, devicePath |-> Free]
TPMXml(d) == [AsSet(d) EXCEPT !.version = If(d.backend = "Emulator", @),
                              !.devicePath = If(d.backend = "Passthrough", @)]
\* An emulator's backend element is closed twice.
TPMParses(d) == d.backend # "Emulator"

WatchdogFields == [model |-> Enum, action |-> Enum]
WatchdogXml(d) == AsSet(d)

-----------------------------------------------------------------------------
(* The classes written with QXmlStreamWriter. *)

\* Interrupt remapping is written only when it is on, and read as on unless it
\* says "off".
IOMMUFields == [model |-> <<"Intel", "AMD", "SMMUV3">>, interruptRemapping |-> Raised,
                cachingMode |-> Flag, awBits |-> Flag, address |-> Addresses,
                alias |-> Text]
IOMMUXml(d) ==
  [AsSet(d) EXCEPT !.interruptRemapping = If(d.model \in {"Intel", "AMD"}, @),
                   !.cachingMode = If(d.model = "Intel", @),
                   !.awBits = If(d.model = "Intel", @),
                   !.address = Address(@, {"pci", "ccw"})]
IOMMURead(d, x) ==
  [Merged(d, x) EXCEPT
     !.interruptRemapping = IF x.model \in {"Intel", "AMD"} THEN "yes" ELSE d.interruptRemapping,
     !.cachingMode = IF x.model = "Intel" THEN x.cachingMode ELSE d.cachingMode,
     !.awBits = IF x.model = "Intel" THEN x.awBits ELSE d.awBits]

PanicFields == [model |-> Enum, ioPort |-> Text, mmioAddress |-> Text, mmioSize |-> Text,
                address |-> Addresses, alias |-> Text]
PanicXml(d) == [AsSet(d) EXCEPT !.mmioSize = If(d.mmioAddress # None, @),
                                !.address = Address(@, {"pci", "ccw"})]
PanicRead(d, x) ==
  [Merged(d, x) EXCEPT !.mmioSize = IF x.mmioAddress # None THEN x.mmioSize ELSE d.mmioSize]

\* "Dev" stands for the types that have a path.  The source element is there
\* for every type, so a path is always read.
ParallelFields == [type |-> <<"PTY", "Dev">>, sourcePath |-> Text, port |-> Number,
                   address |-> <<None, "isa", "pci">>, alias |-> Text]
ParallelXml(d) == [AsSet(d) EXCEPT !.sourcePath = If(d.type # "PTY", @),
                                   !.address = Address(@, {"isa"})]
ParallelRead(d, x) == [Merged(d, x) EXCEPT !.sourcePath = x.sourcePath]

\* "File" stands for the types that have a path, "TCP" for those with a host
\* and a service, "Spice" for those whose source is a channel.  The channel is
\* the target's name, and the target, read later, overrides it.
SerialFields ==
  [type |-> <<"PTY", "File", "TCP", "Spice", "Nmdm">>, sourcePath |-> Text,
   sourceHost |-> Text, sourceService |-> Text, port |-> Number,
   targetPort |-> Text, targetName |-> Text,
   address |-> <<None, "isa", "pci", "ccw">>, alias |-> Text]
SerialXml(d) ==
  [AsSet(d) EXCEPT !.sourcePath = If(d.type = "File", @),
                   !.sourceHost = If(d.type = "TCP", @),
                   !.sourceService = If(d.type = "TCP", @),
                   !.targetPort = None,
                   !.address = Address(@, {"pci", "isa"})]
\* Slip: the source, with its channel, is read last.
SerialReadSourceLast(d, x) ==
  [Merged(d, x) EXCEPT !.sourcePath = x.sourcePath, !.sourceHost = x.sourceHost,
                       !.sourceService = x.sourceService,
                       !.targetName = If(x.type \in {"Spice", "Nmdm"}, x.targetName)]
SerialRead(d, x) ==
  LET HasSource == x.type # "Nmdm"
  IN  [Merged(d, x) EXCEPT
         !.sourcePath = IF HasSource THEN x.sourcePath ELSE d.sourcePath,
         !.sourceHost = IF HasSource THEN x.sourceHost ELSE d.sourceHost,
         !.sourceService = IF HasSource THEN x.sourceService ELSE d.sourceService,
         !.targetName = x.targetName]

\* A port that is not written is read as 0.  The address of a USB device marks
\* the object as having a PCI address, which is never written.
USBRedirFields == [bus |-> Text, port |-> <<None, "some", "zero">>, vendorId |-> Text,
                   productId |-> Text, address |-> Addresses, alias |-> Text]
USBRedirXml(d) == [AsSet(d) EXCEPT !.port = If(d.bus # None, @), !.address = None]
USBRedirRead(d, x) ==
  LET HasSource == x.vendorId # None \/ x.productId # None
  IN  [Merged(d, x) EXCEPT
         !.vendorId = IF HasSource THEN x.vendorId ELSE d.vendorId,
         !.productId = IF HasSource THEN x.productId ELSE d.productId,
         !.port = IF x.bus # None /\ x.port = None THEN "zero" ELSE @,
         !.address = IF x.bus # None THEN "pci" ELSE d.address]

VSockFields == [cidAssignment |-> <<"Auto", "Manual">>, cid |-> Number,
                address |-> Addresses, alias |-> Text]
VSockXml(d) == [AsSet(d) EXCEPT !.cid = If(d.cidAssignment = "Manual", @),
                                !.address = Address(@, {"pci", "ccw"})]
VSockRead(d, x) == Merged(d, x)
=============================================================================
