----------------------------- MODULE XmlCopies -----------------------------
(***************************************************************************)
(* An object of one of the classes of src/src/devices/ and src/src/domain/  *)
(* as its clients use it: they set its members, ask it for its XML, and     *)
(* give XML to it or to a new object.  The classes share no code, and the   *)
(* two halves of each, toXML() and fromXML(), know each other's names only  *)
(* by agreement; what is asked here is how far the halves agree.            *)
(*                                                                          *)
(* A definition marked "Slip:" is not the code: it is the form an easy      *)
(* mistake would give to the definition after it, kept to show that the     *)
(* properties tell the two apart.                                           *)
(***************************************************************************)
EXTENDS DeviceXml, DomainXml, SequencesExt

CONSTANT MaxCalls   \* bound: calls made on the objects

ASSUME MaxCallsAssumption == MaxCalls \in Nat

VARIABLES cls,      \* the class of the objects
          obj,      \* the object in hand
          doc,      \* the XML in hand: whether it parses, and what it says
          calls     \* calls left
vars == <<cls, obj, doc, calls>>

Fields ==
  [Disk |-> DiskFields, Network |-> NetworkFields, Controller |-> ControllerFields,
   Input |-> InputFields, Sound |-> SoundFields, Video |-> VideoFields,
   Graphics |-> GraphicsFields, Channel |-> ChannelFields,
   FileSystem |-> FileSystemFields, Host |-> HostFields,
   Memballoon |-> MemballoonFields, RNG |-> RNGFields, Smartcard |-> SmartcardFields,
   TPM |-> TPMFields, Watchdog |-> WatchdogFields, IOMMU |-> IOMMUFields,
   Panic |-> PanicFields, Parallel |-> ParallelFields, Serial |-> SerialFields,
   USBRedir |-> USBRedirFields, VSock |-> VSockFields,
   BlkIOTune |-> BlkIOTuneFields, MemTune |-> MemTuneFields,
   CloudInit |-> CloudInitFields, Features |-> FeaturesFields,
   LaunchSecurity |-> LaunchSecurityFields, SecLabel |-> SecLabelFields,
   MemoryBacking |-> MemoryBackingFields, BootConfig |-> BootConfigFields,
   CPUTune |-> CPUTuneFields, Clock |-> ClockFields, NUMA |-> NUMAFields,
   Firmware |-> FirmwareFields, IOThread |-> IOThreadFields,
   IOThreadConfig |-> IOThreadConfigFields]
Classes == DOMAIN Fields

Values(c, f) == {Fields[c][f][i] : i \in DOMAIN Fields[c][f]}
New == [c \in Classes |-> Initial(Fields[c])]
Blank == [c \in Classes |-> [f \in DOMAIN Fields[c] |-> None]]

Says(c, d) ==
  CASE c = "Disk" -> DiskXml(d)             [] c = "Network" -> NetworkXml(d)
    [] c = "Controller" -> ControllerXml(d) [] c = "Input" -> InputXml(d)
    [] c = "Sound" -> SoundXml(d)           [] c = "Video" -> VideoXml(d)
    [] c = "Graphics" -> GraphicsXml(d)     [] c = "Channel" -> ChannelXml(d)
    [] c = "FileSystem" -> FileSystemXml(d) [] c = "Host" -> HostXml(d)
    [] c = "Memballoon" -> MemballoonXml(d) [] c = "RNG" -> RNGXml(d)
    [] c = "Smartcard" -> SmartcardXml(d)   [] c = "TPM" -> TPMXml(d)
    [] c = "Watchdog" -> WatchdogXml(d)     [] c = "IOMMU" -> IOMMUXml(d)
    [] c = "Panic" -> PanicXml(d)           [] c = "Parallel" -> ParallelXml(d)
    [] c = "Serial" -> SerialXml(d)         [] c = "USBRedir" -> USBRedirXml(d)
    [] c = "VSock" -> VSockXml(d)           [] c = "BlkIOTune" -> BlkIOTuneXml(d)
    [] c = "MemTune" -> MemTuneXml(d)       [] c = "CloudInit" -> CloudInitXml(d)
    [] c = "Features" -> FeaturesXml(d)     [] c = "LaunchSecurity" -> LaunchSecurityXml(d)
    [] c = "SecLabel" -> SecLabelXml(d)     [] c = "MemoryBacking" -> MemoryBackingXml(d)
    [] c = "BootConfig" -> BootConfigXml(d) [] c = "CPUTune" -> CPUTuneXml(d)
    [] c = "Clock" -> ClockXml(d)           [] c = "NUMA" -> NUMAXml(d)
    [] c = "Firmware" -> FirmwareXml(d)     [] c = "IOThread" -> IOThreadXml(d)
    [] c = "IOThreadConfig" -> IOThreadConfigXml(d)

ReadInto(c, d, x) ==
  CASE c = "Disk" -> DiskRead(d, x)             [] c = "Network" -> NetworkRead(d, x)
    [] c = "Controller" -> ControllerRead(d, x) [] c = "Input" -> InputRead(d, x)
    [] c = "Sound" -> SoundRead(d, x)           [] c = "Video" -> VideoRead(d, x)
    [] c = "Graphics" -> GraphicsRead(d, x)     [] c = "Channel" -> ChannelRead(d, x)
    [] c = "IOMMU" -> IOMMURead(d, x)           [] c = "Panic" -> PanicRead(d, x)
    [] c = "Parallel" -> ParallelRead(d, x)     [] c = "Serial" -> SerialRead(d, x)
    [] c = "USBRedir" -> USBRedirRead(d, x)     [] c = "VSock" -> VSockRead(d, x)
    [] c = "BlkIOTune" -> BlkIOTuneRead(d, x)   [] c = "MemTune" -> MemTuneRead(d, x)
    [] c = "CloudInit" -> CloudInitRead(d, x)   [] c = "Features" -> FeaturesRead(d, x)
    [] c = "LaunchSecurity" -> LaunchSecurityRead(d, x)
    [] c = "SecLabel" -> SecLabelRead(d, x)
    [] c = "MemoryBacking" -> MemoryBackingRead(d, x)
    [] c = "BootConfig" -> BootConfigRead(d, x) [] c = "CPUTune" -> CPUTuneRead(d, x)
    [] c = "Clock" -> ClockRead(d, x)           [] c = "NUMA" -> NUMARead(d, x)
    [] c = "Firmware" -> FirmwareRead(d, x)     [] c = "IOThread" -> IOThreadRead(d, x)
    [] c = "IOThreadConfig" -> IOThreadConfigRead(d, x)
    [] OTHER -> ReadsNothing(d, x)

\* isEmpty() and a misplaced tag keep the text from being an element.
Formed(c, d) ==
  CASE c = "TPM" -> TPMParses(d)
    [] c = "BlkIOTune" -> ~BlkIOTuneEmpty(d)   [] c = "MemTune" -> ~MemTuneEmpty(d)
    [] c = "CloudInit" -> ~CloudInitEmpty(d)   [] c = "Features" -> ~FeaturesEmpty(d)
    [] c = "LaunchSecurity" -> ~LaunchSecurityEmpty(d)
    [] c = "SecLabel" -> ~SecLabelEmpty(d)
    [] c = "MemoryBacking" -> ~MemoryBackingEmpty(d)
    [] c = "BootConfig" -> ~BootConfigEmpty(d) [] c = "CPUTune" -> ~CPUTuneEmpty(d)
    [] c = "Clock" -> ~ClockEmpty(d)           [] c = "NUMA" -> ~NUMAEmpty(d)
    [] c = "Firmware" -> ~FirmwareEmpty(d)     [] c = "IOThread" -> ~IOThreadEmpty(d)
    [] c = "IOThreadConfig" -> ~IOThreadConfigEmpty(d) /\ IOThreadConfigParses(d)
    [] OTHER -> TRUE

\* So do texts that were not escaped.
Parses(c, d) == Formed(c, d) /\ Escaped(c, Says(c, d))

toXML(c, d) == [ok |-> Parses(c, d), says |-> IF Parses(c, d) THEN Says(c, d) ELSE Blank[c]]
fromXML(c, d, x) == IF x.ok THEN ReadInto(c, d, x.says) ELSE d

Copy(c, d) == fromXML(c, New[c], toXML(c, d))

-----------------------------------------------------------------------------
Init == /\ cls \in Classes
        /\ obj = New[cls] /\ doc = [ok |-> FALSE, says |-> Blank[cls]]
        /\ calls = MaxCalls

Called == calls > 0 /\ calls' = calls - 1 /\ UNCHANGED cls

SetMember(f, v) == /\ Called /\ obj[f] # v
                   /\ obj' = [obj EXCEPT ![f] = v] /\ UNCHANGED doc

Write == Called /\ doc' = toXML(cls, obj) /\ UNCHANGED obj
Read == Called /\ obj' = fromXML(cls, obj, doc) /\ UNCHANGED doc
ReadAnew == Called /\ obj' = fromXML(cls, New[cls], doc) /\ UNCHANGED doc

Next == \/ \E f \in DOMAIN obj : \E v \in Values(cls, f) : SetMember(f, v)
        \/ Write \/ Read \/ ReadAnew

Spec == Init /\ [][Next]_vars

-----------------------------------------------------------------------------
(* Where the two halves of a class do not agree: what is written and then     *)
(* looked for elsewhere, taken for something else, or not looked for at all.  *)
Misread(c) ==
  CASE c = "Disk" -> {"bootOrder", "address"}
    [] c = "Network" -> {"source", "address"}
    [] c = "Controller" -> {"address"}
    [] c = "Video" -> {"accel3D"}
    [] c = "Graphics" -> {"port", "keyMap", "tlsPort", "tlsPortEnabled"}
    [] c = "Firmware" -> {"type", "secureBoot", "nvramTemplate"}
    [] c \in {"FileSystem", "Host", "Memballoon", "RNG", "Smartcard", "TPM", "Watchdog"} ->
         DOMAIN Fields[c]
    [] OTHER -> {}

IsList(c, f) == f \in {"devices", "vcpuPins", "iothreadPins", "cells", "threads"}

\* What a member can be: one of the values it is set to, a longer list, or the
\* text that two paths make together.
TypeOK ==
  /\ cls \in Classes /\ calls \in 0..MaxCalls
  /\ DOMAIN obj = DOMAIN Fields[cls]
  /\ \A f \in DOMAIN obj :
       IF IsList(cls, f) THEN \A i \in DOMAIN obj[f] : obj[f][i] \in {"full", "hollow"}
       ELSE obj[f] \in Values(cls, f) \/ (cls = "Firmware" /\ obj[f] = "mixed")
  /\ doc.ok \in BOOLEAN /\ DOMAIN doc.says = DOMAIN obj

\* What d would write.
Now(d) == toXML(cls, d).says

\* Whatever object reads an element, new or used, says afterwards everything the
\* element said, except where its class is known to misread; nothing the object
\* held before stands in the way, unless it holds a text that is not escaped and
\* that the element does not replace.  Of a list, what was read comes last.
ReadsWhatIsSaid ==
  [][(ReadAnew \/ (Read /\ Escaped(cls, Says(cls, obj')))) /\ doc.ok =>
       \A f \in DOMAIN obj \ Misread(cls) : doc.says[f] # None =>
         IF IsList(cls, f) THEN IsSuffix(doc.says[f], Now(obj')[f])
         ELSE Now(obj')[f] = doc.says[f]]_vars

\* What a copy says of a member the original says too, or a new object does: what
\* is lost on the way falls back to the initial value and never becomes something
\* else.  A USB redirection without a port is the exception: its copy has port 0.
NothingInvented ==
  \A f \in DOMAIN obj :
    <<cls, f>> # <<"USBRedir", "port">> => Now(Copy(cls, obj))[f] \in {Now(obj)[f], Now(New[cls])[f]}

\* Whatever is lost is lost at once: a copy of a copy says what the copy says, so
\* that an element that is read and written over and over does not decay.
CopiesSettle == Now(Copy(cls, Copy(cls, obj))) = Now(Copy(cls, obj))
=============================================================================
