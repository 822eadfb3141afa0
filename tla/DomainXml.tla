----------------------------- MODULE DomainXml -----------------------------
(***************************************************************************)
(* The parts of a guest's configuration that are not devices and their XML  *)
(* (src/src/domain/).  See XmlForm for the way a class is described.  Each  *)
(* of them has isEmpty(): an object it holds of writes nothing at all, and  *)
(* reading nothing is an error that leaves the object alone.                *)
(*                                                                          *)
(* A definition marked "Slip:" is not the code: see XmlCopies.              *)
(***************************************************************************)
EXTENDS XmlForm

Unset(d, fields) == \A f \in fields : d[f] = None

BlkIOTuneFields == [weight |-> Text, readBytesSec |-> Text, writeBytesSec |-> Text,
                    readIopsSec |-> Text, writeIopsSec |-> Text]
BlkIOTuneXml(d) == AsSet(d)
BlkIOTuneRead(d, x) == Merged(d, x)
BlkIOTuneEmpty(d) == Unset(d, DOMAIN d)

MemTuneFields == [hardLimit |-> Text, softLimit |-> Text, swapHardLimit |-> Text]
MemTuneXml(d) == AsSet(d)
MemTuneRead(d, x) == Merged(d, x)
MemTuneEmpty(d) == Unset(d, DOMAIN d)

\* The request to make an image does not count as content.
CloudInitFields == [userData |-> Text, networkData |-> Text, metaData |-> Text,
                    volumePath |-> Text, generateIso |-> Flag]
CloudInitXml(d) == AsSet(d)
CloudInitRead(d, x) == Merged(d, x)
CloudInitEmpty(d) == Unset(d, DOMAIN d \ {"generateIso"})

\* ACPI and APIC are on at first and written when they are off.
FeaturesFields == [acpiOff |-> Flag, apicOff |-> Flag, pae |-> Flag, hyperv |-> Flag,
                   smm |-> Flag]
FeaturesXml(d) == AsSet(d)
FeaturesRead(d, x) == Merged(d, x)
FeaturesEmpty(d) == Unset(d, DOMAIN d)

LaunchSecurityFields ==
  [type |-> <<None, "SEV", "TDX">>, policy |-> Text, dhCert |-> Text,
   sessionData |-> Text, secret |-> Text, amdSme |-> Flag]
LaunchSecurityXml(d) ==
  [f \in DOMAIN d |-> IF f = "type" THEN d.type ELSE If(d.type = "SEV", d[f])]
LaunchSecurityRead(d, x) == IF x.type = "SEV" THEN x ELSE [d EXCEPT !.type = x.type]
LaunchSecurityEmpty(d) == d.type = None

\* Relabelling is on at first and written when it is off.
SecLabelFields == [type |-> Enum, model |-> Enum, label |-> Text, relabelOff |-> Flag]
SecLabelXml(d) == AsSet(d)
\* Slip: relabelling is on only if the element says so.
SecLabelReadStrict(d, x) == [x EXCEPT !.relabelOff = "yes"]
SecLabelRead(d, x) == x
SecLabelEmpty(d) ==
  d.type = "first" /\ d.model = "first" /\ Unset(d, {"label", "relabelOff"})

MemoryBackingFields ==
  [locked |-> Flag, shared |-> Flag, discard |-> Flag,
   pageSize |-> Text, pageUnit |-> Text, pageNodeset |-> Text]
HasPage(d) == d.pageSize # None \/ d.pageUnit # None
MemoryBackingXml(d) == [AsSet(d) EXCEPT !.pageNodeset = If(HasPage(d), @)]
MemoryBackingRead(d, x) ==
  [Merged(d, x) EXCEPT !.pageSize = IF HasPage(x) THEN x.pageSize ELSE d.pageSize,
                       !.pageUnit = IF HasPage(x) THEN x.pageUnit ELSE d.pageUnit,
                       !.pageNodeset = IF HasPage(x) THEN x.pageNodeset ELSE d.pageNodeset]
MemoryBackingEmpty(d) == Unset(d, DOMAIN d \ {"pageNodeset"})

\* Here as in CPUTune, NUMA and IOThreadConfig what is read of a list is added
\* to the one the object has.
BootConfigFields == [devices |-> List, bootMenu |-> Flag, bootMenuTimeout |-> Text]
BootConfigXml(d) == [AsSet(d) EXCEPT !.devices = Full(@),
                                     !.bootMenuTimeout = If(d.bootMenu # None, @)]
BootConfigRead(d, x) ==
  [Merged(d, x) EXCEPT
     !.devices = Appended(d.devices, x.devices),
     !.bootMenuTimeout = IF x.bootMenu # None THEN x.bootMenuTimeout ELSE d.bootMenuTimeout]
BootConfigEmpty(d) == d.bootMenu = None /\ Full(d.devices) = None

CPUTuneFields ==
  [shares |-> Text, period |-> Text, quota |-> Text, realtimePriority |-> Text,
   vcpuPins |-> List, emulatorPin |-> Text, iothreadPins |-> List]
CPUTuneXml(d) == [AsSet(d) EXCEPT !.vcpuPins = Full(@), !.iothreadPins = Full(@)]
CPUTuneRead(d, x) ==
  [Merged(d, x) EXCEPT !.vcpuPins = Appended(d.vcpuPins, x.vcpuPins),
                       !.iothreadPins = Appended(d.iothreadPins, x.iothreadPins)]
CPUTuneEmpty(d) ==
  /\ Unset(d, {"shares", "period", "quota", "realtimePriority", "emulatorPin"})
  /\ Full(d.vcpuPins) = None /\ Full(d.iothreadPins) = None

\* A timer is plain, or has a tick policy, a track, or is marked absent; each of
\* the three timers writes only what it is allowed.
Timers == <<None, "plain", "ticking", "tracked", "absent">>
Timer(t, written) == IF t \in written \cup {None} THEN t ELSE "plain"
ClockFields == [offset |-> <<"utc", "other">>, rtc |-> Timers, hpet |-> Timers,
                pit |-> Timers, kvmClockOff |-> Flag]
ClockXml(d) == [AsSet(d) EXCEPT !.rtc = Timer(@, {"ticking", "tracked"}),
                                !.hpet = Timer(@, {"ticking", "absent"}),
                                !.pit = Timer(@, {"ticking"})]
ClockRead(d, x) == Merged(d, x)
ClockEmpty(d) == d.offset = "utc" /\ Unset(d, {"rtc", "hpet", "pit", "kvmClockOff"})

NUMAFields == [cells |-> List, tuneMode |-> Text, tunePlacement |-> Text]
HasTune(d) == d.tuneMode # None \/ d.tunePlacement # None
NUMAXml(d) == [AsSet(d) EXCEPT !.cells = Full(@)]
NUMARead(d, x) ==
  [Merged(d, x) EXCEPT !.cells = Appended(d.cells, x.cells),
                       !.tuneMode = IF HasTune(x) THEN x.tuneMode ELSE d.tuneMode,
                       !.tunePlacement = IF HasTune(x) THEN x.tunePlacement
                                                       ELSE d.tunePlacement]
NUMAEmpty(d) == ~HasTune(d) /\ Full(d.cells) = None

\* A template is written as an attribute after the text of its element, so as
\* part of that text if there is any (where assertions are compiled in, the
\* writer stops the program); and it is read after the reader has left the
\* element, so always as empty.
FirmwareFields ==
  [type |-> <<"BIOS", "UEFI", "Custom">>, biosType |-> Enum, secureBoot |-> Flag,
   smm |-> Flag, loader |-> Text, nvram |-> Text, nvramTemplate |-> Text]
FirmwareXml(d) ==
  [AsSet(d) EXCEPT !.type = If(d.type # "BIOS", @), !.biosType = None,
                   !.secureBoot = If(d.type # "BIOS", @),
                   !.nvram = IF @ # None /\ d.nvramTemplate # None THEN "mixed" ELSE @,
                   !.nvramTemplate = If(d.nvram = None, @)]
FirmwareRead(d, x) ==
  LET HasNvram == x.nvram # None \/ x.nvramTemplate # None
  IN  [Merged(d, x) EXCEPT
         !.type = IF x.type = "UEFI" THEN "UEFI" ELSE d.type,
         !.biosType = d.biosType,
         !.secureBoot = IF x.type # None THEN x.secureBoot ELSE d.secureBoot,
         !.loader = IF x.type = "UEFI" \/ x.loader # None THEN x.loader ELSE d.loader,
         !.nvram = IF HasNvram THEN x.nvram ELSE d.nvram,
         !.nvramTemplate = IF HasNvram THEN None ELSE d.nvramTemplate]
FirmwareEmpty(d) ==
  d.type = "BIOS" /\ Unset(d, {"secureBoot", "smm", "loader", "nvram", "nvramTemplate"})

IOThreadFields == [id |-> Text, cpuset |-> Text]
IOThreadXml(d) == AsSet(d)
IOThreadRead(d, x) == x
IOThreadEmpty(d) == d.id = None

\* The threads' elements are put into the text while the start tag around them
\* is still open: an element with a thread in it is not XML.
IOThreadConfigFields == [threads |-> List]
IOThreadConfigXml(d) == [threads |-> Full(d.threads)]
IOThreadConfigRead(d, x) == [threads |-> Appended(d.threads, x.threads)]
IOThreadConfigEmpty(d) == d.threads = <<>>
IOThreadConfigParses(d) == Full(d.threads) = None
=============================================================================
