------------------------------ MODULE XmlForm ------------------------------
(***************************************************************************)
(* How an object of src/src/devices/ or src/src/domain/ and its XML element *)
(* are represented, for the modules DeviceXml and DomainXml that describe    *)
(* each class.                                                              *)
(*                                                                          *)
(* A class is given by three definitions:                                   *)
(*   XFields     its members, each with the values told apart, the initial  *)
(*               one first (the class's header);                            *)
(*   XXml(d)     what toXML() writes for the members d;                     *)
(*   XRead(d, x) the members after fromXML() reads x into an object d.      *)
(*                                                                          *)
(* An element is a record with the names of the members: x[f] is what the   *)
(* element says of member f, or None if it says nothing.  Most members are  *)
(* written when they are set and read when they are present; AsSet and      *)
(* Merged say that, and a class's definitions say where it does otherwise.  *)
(* None is also an empty string, a number that counts as unset, a flag that *)
(* is down.  The names of enumerators are told apart only where toXML() and *)
(* fromXML() treat them differently.                                        *)
(***************************************************************************)
EXTENDS Naturals, Sequences, FiniteSets

CONSTANT None

\* The words that a member is set to or an element says; None is none of them, and
\* no list of them either.
Words ==
  {"0.0.0.0", "16384", "2d", "3d", "9P", "AMD", "Address", "Auto", "BIOS",
   "Bridge", "Bus", "Custom", "Dev", "Device", "Direct", "E1000", "Emulator",
   "File", "Host", "HostCertificates", "Intel", "Isolated", "MDev", "Manual",
   "Mouse", "NAT", "Network", "Nmdm", "None", "PCI", "PTY", "Passthrough", "SCSI",
   "SCSIHost", "SEV", "SMMUV3", "SPICE", "Spice", "TCP", "TDX", "Tablet", "UEFI",
   "USB", "Udp", "Unix", "User", "VNC", "Virtio", "VirtioFS", "VirtioSerial",
   "absent", "blanks", "ccw", "default", "drawn", "drive", "en-us", "first",
   "five", "full", "hollow", "isa", "markup", "mixed", "other", "pci",
   "plain", "qcow2", "qemu", "raw", "some", "ticking", "tracked", "urandom", "utc",
   "vda", "virbr0", "yes", "zero"}

ASSUME NoneAssumption == None \notin Words \cup Seq(Words)

Enum == <<"first", "other">>    \* always written, also when it is the initial one
Text == <<None, "some">>        \* a string or number that is initially unset
Free == <<None, "some", "markup">>   \* a string, which may hold markup: see Escaped
Flag == <<None, "yes">>
Raised == <<"yes", None>>       \* a flag that is initially up
Number == <<"zero", "some">>    \* a number that is written although it is zero
List == << <<>>, <<"full">>, <<"hollow">> >>    \* a hollow entry is not written

\* The members of a new object, or the choices of a form that was just opened.
Initial(fields) == [f \in DOMAIN fields |-> fields[f][1]]

\* What a says, and b of what a does not name.
Over(a, b) == [f \in DOMAIN a \cup DOMAIN b |-> IF f \in DOMAIN a THEN a[f] ELSE b[f]]

\* Written only if the condition c holds.
If(c, v) == IF c THEN v ELSE None

\* The members that are set are written.
AsSet(d) == d

\* Slip: what is absent replaces it too.
MergedWhole(d, x) == [f \in DOMAIN d |-> x[f]]

\* What is present in the element replaces what the object had.  (The comparison
\* makes TLC compute the members: it mistakes fields of EXCEPT over an uncomputed
\* function.)
Merged(d, x) == LET merged == [f \in DOMAIN d |-> IF x[f] # None THEN x[f] ELSE d[f]]
                IN  IF merged = d THEN d ELSE merged

\* The entries of a list that are written, and a list that is read.
Full(list) == LET n == Cardinality({i \in DOMAIN list : list[i] = "full"})
              IN  If(n > 0, [i \in 1..n |-> "full"])
\* Slip: the entries are read once for each element and once for the list.
AppendedTwice(list, read) == IF read = None THEN list ELSE list \o read \o read
Appended(list, read) == IF read = None THEN list ELSE list \o read

\* These classes put their texts into the XML as they are; the others write it with
\* QXmlStreamWriter or QDomDocument, which escape them, or have no texts.  Markup
\* stands for a text with & or <, or, in an attribute, with the quote: the XML no
\* longer parses.  Left out is a text that is well-formed markup itself, as &amp;
\* is, which is read as something else.
Unescaped == {"Disk", "Network", "Controller", "Graphics", "FileSystem", "Host", "RNG",
              "Smartcard", "TPM"}
Escaped(c, x) == c \in Unescaped => \A f \in DOMAIN x : x[f] # "markup"

\* A reader that is still to be written: it returns true and reads nothing.
ReadsNothing(d, x) == d
=============================================================================
