---------------------------- MODULE DeviceProofs ----------------------------
(* What the module Hardware shows of the details page and the Add Hardware  *)
(* dialog, and XmlCopies of the classes' XML, for every configuration and   *)
(* for any number of steps.                                                 *)
EXTENDS XmlCopies, Hardware, FiniteSetTheorems, TLAPS

-----------------------------------------------------------------------------
(* Operators of the libraries. *)

LEMMA ItemOf ==
  ASSUME NEW S, NEW s \in Seq(S), NEW i \in DOMAIN s
  PROVE  s[i] \in S
  OBVIOUS

LEMMA RemoveAtIs ==
  ASSUME NEW S, NEW s \in Seq(S), NEW i \in DOMAIN s
  PROVE  /\ RemoveAt(s, i) \in Seq(S) /\ Len(RemoveAt(s, i)) = Len(s) - 1
         /\ \A k \in DOMAIN RemoveAt(s, i) :
              RemoveAt(s, i)[k] = IF k < i THEN s[k] ELSE s[k + 1]
<1>1. i \in 1..Len(s) /\ Len(s) \in Nat
  OBVIOUS
<1>2. /\ SubSeq(s, 1, i-1) \in Seq(S) /\ Len(SubSeq(s, 1, i-1)) = i - 1
      /\ \A k \in 1 .. i-1 : SubSeq(s, 1, i-1)[k] = s[k]
  BY <1>1
<1>3. /\ SubSeq(s, i+1, Len(s)) \in Seq(S) /\ Len(SubSeq(s, i+1, Len(s))) = Len(s) - i
      /\ \A k \in 1 .. (Len(s) - i) : SubSeq(s, i+1, Len(s))[k] = s[i + k]
  BY <1>1
<1> DEFINE a == SubSeq(s, 1, i-1)
           b == SubSeq(s, i+1, Len(s))
<1> HIDE DEF a, b
<1>4. a \in Seq(S) /\ b \in Seq(S) /\ Len(a) = i - 1 /\ Len(b) = Len(s) - i
  BY <1>2, <1>3 DEF a, b
<1>5. /\ a \o b \in Seq(S) /\ Len(a \o b) = Len(s) - 1
      /\ \A k \in 1 .. (Len(s) - 1) : (a \o b)[k] = IF k < i THEN a[k] ELSE b[k - (i - 1)]
  BY <1>1, <1>4
<1>6. \A k \in 1 .. (Len(s) - 1) : (a \o b)[k] = IF k < i THEN s[k] ELSE s[k + 1]
  <2> TAKE k \in 1 .. (Len(s) - 1)
  <2>1. CASE k < i
    BY <1>1, <1>2, <1>5, <2>1 DEF a
  <2>2. CASE ~ (k < i)
    <3>1. k - (i - 1) \in 1 .. (Len(s) - i) /\ i + (k - (i - 1)) = k + 1
      BY <1>1, <2>2
    <3>2. b[k - (i - 1)] = s[k + 1]
      BY <1>3, <3>1 DEF b
    <3>3. QED
      BY <1>5, <2>2, <3>2
  <2>3. QED
    BY <2>1, <2>2
<1>7. RemoveAt(s, i) = a \o b
  BY DEF RemoveAt, a, b
<1>8. DOMAIN (a \o b) = 1 .. (Len(s) - 1)
  BY <1>5
<1>9. QED
  BY <1>5, <1>6, <1>7, <1>8

\* A set of places in a sequence has a first one: among its initial parts up to
\* one of its members, which are finite, one has no other inside it.
LEMMA MinIs ==
  ASSUME NEW n \in Nat, NEW M, M \subseteq 1..n, M # {}
  PROVE  Min(M) \in M /\ \A y \in M : Min(M) <= y
<1> DEFINE upTo(i) == M \cap 1..i
           parts == {upTo(i) : i \in M}
<1>1. IsFiniteSet(1..n)
  BY FS_Interval
<1>2. FiniteSubsetsOf(1..n) = SUBSET (1..n)
  BY <1>1, FS_FiniteSubsetsOfFinite
<1>3. parts \subseteq FiniteSubsetsOf(1..n) /\ parts # {}
  <2>1. \A i \in M : upTo(i) \in SUBSET (1..n)
    OBVIOUS
  <2> HIDE DEF upTo
  <2>2. \A u \in parts : u \in SUBSET (1..n)
    BY <2>1
  <2>3. parts # {}
    OBVIOUS
  <2> HIDE DEF parts
  <2>4. QED
    BY <1>2, <2>2, <2>3
<1> HIDE DEF parts
<1>4. PICK t \in parts : \A u \in parts : <<u, t>> \notin StrictSubsetOrdering(1..n)
  BY <1>3, FS_StrictSubsetOrderingWellFounded, WFMin
<1>5. PICK i \in M : t = upTo(i)
  BY DEF parts
<1>6. \A j \in M : i <= j
  <2> SUFFICES ASSUME NEW j \in M, ~ (i <= j) PROVE FALSE
    OBVIOUS
  <2>1. i \in Nat /\ j \in Nat /\ j < i
    OBVIOUS
  <2>2. upTo(j) \in parts
    BY DEF parts
  <2>3. upTo(j) \subseteq upTo(i) /\ i \in upTo(i) /\ i \notin upTo(j)
    BY <2>1
  <2>4. upTo(j) \in SUBSET (1..n) /\ upTo(i) \in SUBSET (1..n)
    OBVIOUS
  <2>5. <<upTo(j), upTo(i)>> \in StrictSubsetOrdering(1..n)
    BY <2>3, <2>4 DEF StrictSubsetOrdering
  <2>6. QED
    BY <1>4, <1>5, <2>2, <2>5
<1>7. \E x \in M : \A y \in M : x <= y
  BY <1>6
<1>8. QED
  BY <1>7 DEF Min

-----------------------------------------------------------------------------
(* The pages. *)

PageNames == {"Disk", "Network", "Controller", "Input", "Graphics",
              "Video", "Sound", "TPM", "Host", "FileSystem",
              "RNG", "Watchdog", "Smartcard", "Memballoon", "USBRedir",
              "VSock", "Panic", "Serial", "Parallel", "IOMMU", "Channel"}

LEMMA PagesAre == Pages = PageNames
  BY DEF Pages, Stack, PageNames

\* Every row of the list has its page.
LEMMA RowHasPage ==
  ASSUME NEW r \in DOMAIN Rows
  PROVE  PageOf(r) \in DOMAIN Stack /\ Stack[PageOf(r)] = Rows[r]
<1>1. DOMAIN Rows = 1..21 /\ DOMAIN Stack = 1..21
  BY DEF Rows, Stack
<1>2. CASE r \in {8, 9, 10}
  <2>1. Stack[9] = Rows[8] /\ Stack[10] = Rows[9] /\ Stack[8] = Rows[10]
    BY DEF Rows, Stack
  <2>2. QED
    BY <1>1, <1>2, <2>1 DEF PageOf
<1>3. CASE r \notin {8, 9, 10}
  <2>1. Stack[r] = Rows[r]
    BY <1>1, <1>3 DEF Rows, Stack
  <2>2. QED
    BY <1>1, <2>1 DEF PageOf
<1>4. QED
  BY <1>2, <1>3

LEMMA StackIsPages == \A i \in DOMAIN Stack : Stack[i] \in Pages
  BY DEF Pages

LEMMA ControlsArePages == DOMAIN Controls = Pages
  BY PagesAre DEF Controls, PageNames

\* Every control has the choice it opens with.
Opens(controls) == \A f \in DOMAIN controls : 1 \in DOMAIN controls[f]

LEMMA AllOpen == \A p \in Pages : Opens(Controls[p])
<1>1. Opens(DiskControls)
  BY DEF Opens, DiskControls, Enum, Free, Flag, Number
<1>2. Opens(NetworkControls)
  BY DEF Opens, NetworkControls, Free
<1>3. Opens(ControllerControls)
  BY DEF Opens, ControllerControls, Enum, Text
<1>4. Opens(InputControls)
  BY DEF Opens, InputControls, Enum
<1>5. Opens(GraphicsControls)
  BY DEF Opens, GraphicsControls, Text, Raised
<1>6. Opens(VideoControls)
  BY DEF Opens, VideoControls, Enum, Text
<1>7. Opens(SoundControls)
  BY DEF Opens, SoundControls, Enum
<1>8. Opens(TPMControls)
  BY DEF Opens, TPMControls, Enum, Free
<1>9. Opens(HostControls)
  BY DEF Opens, HostControls, Free, Number
<1>10. Opens(FileSystemControls)
  BY DEF Opens, FileSystemControls, Enum, Text, Free, Flag
<1>11. Opens(RNGControls)
  BY DEF Opens, RNGControls, Enum
<1>12. Opens(WatchdogControls)
  BY DEF Opens, WatchdogControls, Enum
<1>13. Opens(SmartcardControls)
  BY DEF Opens, SmartcardControls, Enum, Free
<1>14. Opens(MemballoonControls)
  BY DEF Opens, MemballoonControls, Enum, Flag
<1>15. Opens(USBRedirControls)
  BY DEF Opens, USBRedirControls, Number
<1>16. Opens(VSockControls)
  BY DEF Opens, VSockControls
<1>17. Opens(PanicControls)
  BY DEF Opens, PanicControls, Enum
<1>18. Opens(SerialControls)
  BY DEF Opens, SerialControls, Enum, Text
<1>19. Opens(ParallelControls)
  BY DEF Opens, ParallelControls, Enum, Text
<1>20. Opens(IOMMUControls)
  BY DEF Opens, IOMMUControls
<1>21. Opens(ChannelControls)
  BY DEF Opens, ChannelControls, Text
<1>22. QED
  BY PagesAre, <1>1, <1>2, <1>3, <1>4, <1>5, <1>6, <1>7, <1>8, <1>9, <1>10, <1>11, <1>12,
     <1>13, <1>14, <1>15, <1>16, <1>17, <1>18, <1>19, <1>20, <1>21
  DEF PageNames, Controls

-----------------------------------------------------------------------------
(* The details page and the dialog: an inductive invariant. *)

\* The choices ch are some of those the controls of page p offer.
Chosen(p, ch) == DOMAIN ch = DOMAIN Controls[p] /\ \A f \in DOMAIN ch : ch[f] \in Options(p, f)

AllChosen == DOMAIN choices = Pages /\ \A p \in Pages : Chosen(p, choices[p])

\* The page shown is the one of the row.
FormInv == row \in DOMAIN Rows /\ page \in DOMAIN Stack /\ Stack[page] = Rows[row] /\ AllChosen

\* Every disk has a target.
Listed(devices) ==
  devices \in Seq(Device) /\ \A i \in DOMAIN devices : devices[i].class = "Disk" => devices[i].named

TextInv == Listed(config) /\ Listed(text) /\ item \in 0..Len(text)

RestInv ==
  /\ m_readOnly \in BOOLEAN /\ dialog \in {"none", "open", "crashed"}
  /\ told \in {"nothing", "refused", "attached", "added", "removed", "failed"}
  /\ acts \in 0..MaxActs /\ edits \in 0..MaxEdits

HardwareInv == FormInv /\ TextInv /\ RestInv

LEMMA InvTypes == HardwareInv => HardwareTypeOK
  BY DEF HardwareInv, FormInv, TextInv, RestInv, AllChosen, Chosen, Listed, HardwareTypeOK

\* A dialog that opens, or was left.
LEMMA UntouchedChosen ==
  /\ DOMAIN Untouched = Pages /\ \A p \in Pages : Chosen(p, Untouched[p])
  /\ 1 \in DOMAIN Rows /\ 1 \in DOMAIN Stack /\ Stack[1] = Rows[1]
<1>1. ASSUME NEW p \in Pages PROVE Chosen(p, Initial(Controls[p]))
  BY AllOpen DEF Opens, Chosen, Initial, Options
<1>2. 1 \in DOMAIN Rows /\ 1 \in DOMAIN Stack /\ Stack[1] = Rows[1]
  BY DEF Rows, Stack
<1>3. QED
  BY <1>1, <1>2 DEF Untouched

LEMMA LeaveForm == Leave => FormInv'
  BY UntouchedChosen DEF Leave, FormInv, AllChosen, Chosen

LEMMA SameForm == FormInv /\ UNCHANGED form => FormInv'
  BY DEF FormInv, AllChosen, Chosen, form

LEMMA HardwareStart == HardwareInit => HardwareInv
<1> SUFFICES ASSUME HardwareInit PROVE HardwareInv
  OBVIOUS
<1>1. FormInv
  BY UntouchedChosen DEF HardwareInit, FormInv, AllChosen
<1>2. TextInv
  BY DevicesAssumption DEF HardwareInit, TextInv, Listed
<1>3. RestInv
  BY HardwareBounds DEF HardwareInit, RestInv
<1>4. QED
  BY <1>1, <1>2, <1>3 DEF HardwareInv

\* What is removed is an element of the selected item's category, and no disk.
LEMMA MatchIs ==
  ASSUME TextInv, item # 0, Matches(Category(text[item])) # {}
  PROVE  LET i == Min(Matches(Category(text[item])))
         IN  /\ i \in DOMAIN text /\ text[i].class # "Disk"
             /\ text[i].class = ElementsOf(Category(text[item]))
<1> DEFINE M == Matches(Category(text[item]))
<1>1. Len(text) \in Nat /\ M \subseteq 1..Len(text) /\ M # {}
  BY DEF TextInv, Listed, Matches
<1>2. Min(M) \in M
  BY <1>1, MinIs
<1>3. QED
  BY <1>2 DEF Matches, TextInv, Listed

LEMMA RemovedListed ==
  ASSUME NEW devices, Listed(devices), NEW i \in DOMAIN devices
  PROVE  Listed(RemoveAt(devices, i))
<1>1. devices \in Seq(Device)
  BY DEF Listed
<1> DEFINE rest == RemoveAt(devices, i)
<1>2. /\ rest \in Seq(Device) /\ Len(rest) = Len(devices) - 1
      /\ \A k \in DOMAIN rest : rest[k] = IF k < i THEN devices[k] ELSE devices[k + 1]
  BY <1>1, RemoveAtIs
<1> HIDE DEF rest
<1>3. ASSUME NEW k \in DOMAIN rest
      PROVE  \E j \in DOMAIN devices : rest[k] = devices[j]
  BY <1>1, <1>2, <1>3
<1>4. QED
  BY <1>2, <1>3 DEF Listed, rest

LEMMA AddedListed ==
  ASSUME NEW devices, Listed(devices), NEW d \in Device, d.class = "Disk" => d.named
  PROVE  Listed(Append(devices, d))
<1>1. devices \in Seq(Device) /\ Append(devices, d) \in Seq(Device)
  BY DEF Listed
<1>2. DOMAIN Append(devices, d) = 1 .. (Len(devices) + 1) /\ DOMAIN devices = 1..Len(devices)
  BY <1>1
<1>3. \A i \in DOMAIN Append(devices, d) :
        Append(devices, d)[i] = IF i = Len(devices) + 1 THEN d ELSE devices[i]
  BY <1>1, <1>2
<1>4. QED
  BY <1>1, <1>2, <1>3 DEF Listed

LEMMA MadeIs ==
  ASSUME NEW p \in Pages, NEW ch
  PROVE  /\ Made(p, ch) \in Device
         /\ Made(p, ch).class = "Disk" => Made(p, ch).named
  BY DEF Made, Device

\* One fact for every handler.
LEMMA SelectStep ==
  ASSUME HardwareInv, NEW i \in DOMAIN text, Select(i)
  PROVE  HardwareInv' /\ UNCHANGED config
<1>1. i \in 0..Len(text)
  BY DEF HardwareInv, TextInv, Listed
<1>2. FormInv'
  BY SameForm DEF Select, HardwareInv
<1>3. TextInv'
  BY <1>1 DEF Select, HardwareInv, TextInv, Listed
<1>4. QED
  BY <1>2, <1>3 DEF Select, HardwareInv, RestInv

LEMMA RemoveStep ==
  ASSUME HardwareInv, NEW running \in BOOLEAN, onRemoveHardware(running)
  PROVE  /\ HardwareInv'
         /\ config' # config =>
              /\ told' = "removed" /\ item # 0
              /\ \E i \in DOMAIN text :
                   /\ config' = RemoveAt(text, i) /\ text[i].class # "Disk"
                   /\ text[i].class = ElementsOf(Category(text[item]))
<1> DEFINE M == Matches(Category(text[item]))
<1>1. FormInv'
  BY SameForm DEF onRemoveHardware, HardwareInv
<1>2. RestInv'
  BY HardwareBounds DEF onRemoveHardware, Define, HardwareInv, RestInv
<1>3. CASE UNCHANGED config
  <2>1. TextInv'
    BY <1>3 DEF onRemoveHardware, HardwareInv, TextInv, Listed
  <2>2. QED
    BY <1>1, <1>2, <1>3, <2>1 DEF HardwareInv
<1>4. CASE ~ UNCHANGED config
  <2>1. item # 0 /\ M # {} /\ told' = "removed" /\ config' = RemoveAt(text, Min(M))
    BY <1>4 DEF onRemoveHardware, Define
  <2>2. /\ Min(M) \in DOMAIN text /\ text[Min(M)].class # "Disk"
        /\ text[Min(M)].class = ElementsOf(Category(text[item]))
    BY <2>1, MatchIs DEF HardwareInv
  <2>3. Listed(config')
    BY <2>1, <2>2, RemovedListed DEF HardwareInv, TextInv
  <2>4. text' = text /\ item' = 0
    BY <2>1 DEF onRemoveHardware
  <2>5. TextInv'
    BY <2>3, <2>4 DEF HardwareInv, TextInv, Listed
  <2>6. QED
    BY <1>1, <1>2, <2>1, <2>2, <2>5 DEF HardwareInv
<1>5. QED
  BY <1>3, <1>4

LEMMA AcceptStep ==
  ASSUME HardwareInv, NEW running \in BOOLEAN, onAccepted(running)
  PROVE  /\ HardwareInv'
         /\ config' # config =>
              /\ told' = "added"
              /\ Validate(Rows[row], choices[Rows[row]])
              /\ IsElement(Rows[row], choices[Rows[row]])
              /\ config' = Append(text, Made(Rows[row], choices[Rows[row]]))
<1> DEFINE p == Stack[page]
           d == Made(p, choices[p])
<1>1. FormInv'
  BY LeaveForm DEF onAccepted
<1>2. RestInv'
  BY HardwareBounds DEF onAccepted, Add, Define, HardwareInv, RestInv
<1>3. UNCHANGED text /\ item' \in {0, item}
  BY DEF onAccepted
<1>4. CASE UNCHANGED config
  <2>1. TextInv'
    BY <1>3, <1>4 DEF HardwareInv, TextInv, Listed
  <2>2. QED
    BY <1>1, <1>2, <1>4, <2>1 DEF HardwareInv
<1>5. CASE ~ UNCHANGED config
  <2>1. /\ told' = "added" /\ config' = Append(text, d)
        /\ Validate(p, choices[p]) /\ IsElement(p, choices[p])
    BY <1>5 DEF onAccepted, Add, Define
  <2>2. p \in Pages /\ p = Rows[row]
    BY StackIsPages DEF HardwareInv, FormInv
  <2>3. d \in Device /\ (d.class = "Disk" => d.named)
    BY <2>2, MadeIs
  <2>4. d = Made(Rows[row], choices[Rows[row]])
    BY <2>2
  <2> HIDE DEF d, p
  <2>5. Listed(config')
    BY <2>1, <2>3, AddedListed DEF HardwareInv, TextInv
  <2>6. TextInv'
    BY <1>3, <2>5 DEF HardwareInv, TextInv, Listed
  <2>7. HardwareInv'
    BY <1>1, <1>2, <2>6 DEF HardwareInv
  <2>8. QED
    BY <2>1, <2>2, <2>4, <2>7
<1>6. QED
  BY <1>4, <1>5

LEMMA DialogStep ==
  ASSUME HardwareInv, OpenDialog \/ reject
  PROVE  HardwareInv' /\ UNCHANGED config
<1>1. FormInv'
  BY LeaveForm, SameForm DEF OpenDialog, reject, HardwareInv
<1>2. TextInv'
  BY DEF OpenDialog, reject, tree, HardwareInv, TextInv, Listed
<1>3. QED
  BY <1>1, <1>2 DEF OpenDialog, reject, tree, HardwareInv, RestInv

LEMMA ReopenStep ==
  ASSUME HardwareInv, Reopen
  PROVE  HardwareInv' /\ UNCHANGED config
<1>1. FormInv'
  BY SameForm DEF Reopen, HardwareInv
<1>2. TextInv'
  BY DEF Reopen, HardwareInv, TextInv, Listed
<1>3. QED
  BY <1>1, <1>2 DEF Reopen, HardwareInv, RestInv

LEMMA RowStep ==
  ASSUME HardwareInv, NEW r \in DOMAIN Rows, onDeviceTypeChanged(r)
  PROVE  HardwareInv' /\ UNCHANGED config
<1>1. FormInv'
  BY RowHasPage DEF onDeviceTypeChanged, HardwareInv, FormInv, AllChosen, Chosen
<1>2. TextInv'
  BY DEF onDeviceTypeChanged, tree, HardwareInv, TextInv, Listed
<1>3. RestInv'
  BY HardwareBounds DEF onDeviceTypeChanged, tree, HardwareInv, RestInv
<1>4. QED
  BY <1>1, <1>2, <1>3 DEF onDeviceTypeChanged, HardwareInv

LEMMA ControlStep ==
  ASSUME HardwareInv, NEW f \in DOMAIN Controls[Stack[page]],
         NEW v \in Options(Stack[page], f), SetControl(f, v)
  PROVE  HardwareInv' /\ UNCHANGED config
<1> DEFINE p == Stack[page]
<1>1. AllChosen'
  <2>1. p \in Pages /\ AllChosen /\ f \in DOMAIN choices[p]
    BY StackIsPages DEF HardwareInv, FormInv, AllChosen, Chosen
  <2>2. choices' = [choices EXCEPT ![p][f] = v]
    BY DEF SetControl
  <2>3. DOMAIN choices' = Pages /\ choices'[p] = [choices[p] EXCEPT ![f] = v]
    BY <2>1, <2>2 DEF AllChosen
  <2>4. Chosen(p, choices'[p])
    BY <2>1, <2>3 DEF AllChosen, Chosen
  <2>5. ASSUME NEW q \in Pages, q # p PROVE Chosen(q, choices'[q])
    BY <2>1, <2>2, <2>5 DEF AllChosen
  <2>6. QED
    BY <2>3, <2>4, <2>5 DEF AllChosen
<1>2. FormInv'
  BY <1>1 DEF SetControl, HardwareInv, FormInv
<1>3. TextInv'
  BY DEF SetControl, tree, HardwareInv, TextInv, Listed
<1>4. RestInv'
  BY HardwareBounds DEF SetControl, tree, HardwareInv, RestInv
<1>5. QED
  BY <1>2, <1>3, <1>4 DEF SetControl, HardwareInv

LEMMA HardwareSame ==
  HardwareInv /\ UNCHANGED hardwareVars => HardwareInv'
<1> SUFFICES ASSUME HardwareInv, UNCHANGED hardwareVars PROVE HardwareInv'
  OBVIOUS
<1>1. FormInv'
  BY SameForm DEF hardwareVars, HardwareInv
<1>2. TextInv'
  BY DEF hardwareVars, tree, HardwareInv, TextInv, Listed
<1>3. QED
  BY <1>1, <1>2 DEF hardwareVars, tree, HardwareInv, RestInv

\* What a step may do to the configuration.
Asked ==
  \/ /\ told' = "added"
     /\ Validate(Rows[row], choices[Rows[row]]) /\ IsElement(Rows[row], choices[Rows[row]])
     /\ config' = Append(text, Made(Rows[row], choices[Rows[row]]))
  \/ /\ told' = "removed" /\ item # 0
     /\ \E i \in DOMAIN text :
          /\ config' = RemoveAt(text, i) /\ text[i].class # "Disk"
          /\ text[i].class = ElementsOf(Category(text[item]))

LEMMA HardwareStep ==
  HardwareInv /\ [HardwareNext]_hardwareVars => HardwareInv' /\ (config' # config => Asked)
<1> SUFFICES ASSUME HardwareInv, [HardwareNext]_hardwareVars
             PROVE  HardwareInv' /\ (config' # config => Asked)
  OBVIOUS
<1>1. ASSUME NEW i \in DOMAIN text, Select(i) PROVE HardwareInv' /\ UNCHANGED config
  BY <1>1, SelectStep
<1>2. ASSUME NEW running \in BOOLEAN, onRemoveHardware(running)
      PROVE  HardwareInv' /\ (config' # config => Asked)
  BY <1>2, RemoveStep DEF Asked
<1>3. ASSUME NEW running \in BOOLEAN, onAccepted(running)
      PROVE  HardwareInv' /\ (config' # config => Asked)
  BY <1>3, AcceptStep DEF Asked
<1>4. CASE OpenDialog \/ reject
  BY <1>4, DialogStep
<1>5. CASE Reopen
  BY <1>5, ReopenStep
<1>6. ASSUME NEW r \in DOMAIN Rows, onDeviceTypeChanged(r) PROVE HardwareInv' /\ UNCHANGED config
  BY <1>6, RowStep
<1>7. ASSUME NEW f \in DOMAIN Controls[Stack[page]], NEW v \in Options(Stack[page], f),
             SetControl(f, v)
      PROVE  HardwareInv' /\ UNCHANGED config
  BY <1>7, ControlStep
<1>8. CASE UNCHANGED hardwareVars
  BY <1>8, HardwareSame DEF hardwareVars
<1>9. QED
  BY <1>1, <1>2, <1>3, <1>4, <1>5, <1>6, <1>7, <1>8 DEF HardwareNext

\* The inductive invariant: the page shown is the row's, its controls are set to
\* what they offer, and every disk of the configuration has a target.
THEOREM HardwareInductive == HardwareSpec => []HardwareInv
  BY HardwareStart, HardwareStep, PTL DEF HardwareSpec

\* Type correctness.
THEOREM HardwareTypeCorrect == HardwareSpec => []HardwareTypeOK
  BY HardwareInductive, InvTypes, PTL

\* The configuration only becomes the page's text with what the highlighted row's
\* controls make, or without one element, never a disk, that the selected item's
\* category stands for.
THEOREM EditsAsAsked == HardwareSpec => EditsAreAsked
<1>1. HardwareInv /\ [HardwareNext]_hardwareVars => [config' # config => Asked]_hardwareVars
  BY HardwareStep
<1>2. HardwareSpec => [][config' # config => Asked]_hardwareVars
  BY <1>1, HardwareInductive, PTL DEF HardwareSpec
<1>3. QED
  BY <1>2, PTL DEF EditsAreAsked, Asked

-----------------------------------------------------------------------------
(* What the pages' controls do to the device. *)

\* The element says what the controls that count are set to.
Shows(p, c) == \A f \in DOMAIN c \ Unused(p, c) : PageSays(p, c)[f] = c[f]

\* A device whose members c are set on a page.
LEMMA MadeFrom ==
  ASSUME NEW c, NEW fields, DOMAIN c \subseteq DOMAIN fields
  PROVE  /\ DOMAIN Over(c, Initial(fields)) = DOMAIN fields
         /\ \A g \in DOMAIN c : Over(c, Initial(fields))[g] = c[g]
         /\ \A g \in DOMAIN fields \ DOMAIN c : Over(c, Initial(fields))[g] = fields[g][1]
  BY DEF Over, Initial

\* None is not a word.
LEMMA NoWord == \A w \in Words : w # None
  BY NoneAssumption

\* The choices of a page's controls.
LEMMA ControlsOf ==
  ASSUME NEW c, NEW p, NEW controls, Chosen(p, c), Controls[p] = controls
  PROVE  DOMAIN c = DOMAIN controls /\ \A f \in DOMAIN c : \E i \in DOMAIN controls[f] : c[f] = controls[f][i]
  BY DEF Chosen, Options

\* Pages that set the members of a device and no more.
LEMMA VideoShows ==
  ASSUME NEW c, Chosen("Video", c)
  PROVE  Shows("Video", c)
<1>1. PageSays("Video", c) = VideoXml(c) /\ DOMAIN c = DOMAIN VideoControls
  BY DEF PageSays, Chosen, Controls
<1>2. QED
  BY <1>1 DEF Shows, VideoXml, VideoControls, Unused, AsSet, If

LEMMA SoundShows ==
  ASSUME NEW c, Chosen("Sound", c)
  PROVE  Shows("Sound", c)
<1>1. PageSays("Sound", c) = SoundXml(c) /\ DOMAIN c = DOMAIN SoundControls
  BY DEF PageSays, Chosen, Controls
<1>2. QED
  BY <1>1 DEF Shows, SoundXml, SoundControls, Unused, AsSet, If

LEMMA WatchdogShows ==
  ASSUME NEW c, Chosen("Watchdog", c)
  PROVE  Shows("Watchdog", c)
<1>1. PageSays("Watchdog", c) = WatchdogXml(c) /\ DOMAIN c = DOMAIN WatchdogControls
  BY DEF PageSays, Chosen, Controls
<1>2. QED
  BY <1>1 DEF Shows, WatchdogXml, WatchdogControls, Unused, AsSet, If

LEMMA SmartcardShows ==
  ASSUME NEW c, Chosen("Smartcard", c)
  PROVE  Shows("Smartcard", c)
<1>1. PageSays("Smartcard", c) = SmartcardXml(c) /\ DOMAIN c = DOMAIN SmartcardControls
  BY DEF PageSays, Chosen, Controls
<1>2. QED
  BY <1>1 DEF Shows, SmartcardXml, SmartcardControls, Unused, AsSet, If

LEMMA MemballoonShows ==
  ASSUME NEW c, Chosen("Memballoon", c)
  PROVE  Shows("Memballoon", c)
<1>1. PageSays("Memballoon", c) = MemballoonXml(c) /\ DOMAIN c = DOMAIN MemballoonControls
  BY DEF PageSays, Chosen, Controls
<1>2. QED
  BY <1>1 DEF Shows, MemballoonXml, MemballoonControls, Unused, AsSet, If

\* Pages that set some members; the others keep their initial values.
LEMMA FileSystemShows ==
  ASSUME NEW c, Chosen("FileSystem", c)
  PROVE  Shows("FileSystem", c)
<1> DEFINE d == Over(c, Initial(FileSystemFields))
<1>1. DOMAIN c = DOMAIN FileSystemControls
  BY DEF Chosen, Controls
<1>2. DOMAIN d = DOMAIN FileSystemFields /\ \A g \in DOMAIN c : d[g] = c[g]
  BY <1>1, MadeFrom DEF FileSystemControls, FileSystemFields
<1>3. PageSays("FileSystem", c) = FileSystemXml(d)
  BY DEF PageSays
<1> HIDE DEF d
<1>4. QED
  BY <1>1, <1>2, <1>3
  DEF Shows, FileSystemXml, FileSystemControls, FileSystemFields, Unused, AsSet, If

LEMMA RNGShows ==
  ASSUME NEW c, Chosen("RNG", c)
  PROVE  Shows("RNG", c)
<1> DEFINE d == Over(c, Initial(RNGFields))
<1>1. DOMAIN c = DOMAIN RNGControls
  BY DEF Chosen, Controls
<1>2. DOMAIN d = DOMAIN RNGFields /\ \A g \in DOMAIN c : d[g] = c[g]
  BY <1>1, MadeFrom DEF RNGControls, RNGFields
<1>3. PageSays("RNG", c) = RNGXml(d)
  BY DEF PageSays
<1> HIDE DEF d
<1>4. QED
  BY <1>1, <1>2, <1>3 DEF Shows, RNGXml, RNGControls, RNGFields, Unused, AsSet, If

LEMMA PanicShows ==
  ASSUME NEW c, Chosen("Panic", c)
  PROVE  Shows("Panic", c)
<1> DEFINE d == Over(c, Initial(PanicFields))
<1>1. DOMAIN c = DOMAIN PanicControls
  BY DEF Chosen, Controls
<1>2. DOMAIN d = DOMAIN PanicFields /\ \A g \in DOMAIN c : d[g] = c[g]
  BY <1>1, MadeFrom DEF PanicControls, PanicFields
<1>3. PageSays("Panic", c) = PanicXml(d)
  BY DEF PageSays
<1> HIDE DEF d
<1>4. QED
  BY <1>1, <1>2, <1>3 DEF Shows, PanicXml, PanicControls, PanicFields, Unused, AsSet, If

LEMMA ParallelShows ==
  ASSUME NEW c, Chosen("Parallel", c)
  PROVE  Shows("Parallel", c)
  BY DEF Shows, Chosen, Controls, ParallelControls, Unused

LEMMA IOMMUShows ==
  ASSUME NEW c, Chosen("IOMMU", c)
  PROVE  Shows("IOMMU", c)
<1> DEFINE d == Over(c, Initial(IOMMUFields))
<1>1. DOMAIN c = DOMAIN IOMMUControls
  BY DEF Chosen, Controls
<1>2. DOMAIN d = DOMAIN IOMMUFields /\ \A g \in DOMAIN c : d[g] = c[g]
  BY <1>1, MadeFrom DEF IOMMUControls, IOMMUFields
<1>3. PageSays("IOMMU", c) = IOMMUXml(d)
  BY DEF PageSays
<1> HIDE DEF d
<1>4. QED
  BY <1>1, <1>2, <1>3 DEF Shows, IOMMUXml, IOMMUControls, IOMMUFields, Unused, AsSet, If

LEMMA USBRedirShows ==
  ASSUME NEW c, Chosen("USBRedir", c)
  PROVE  Shows("USBRedir", c)
<1> DEFINE d == Over(c, Initial(USBRedirFields))
<1>1. Controls["USBRedir"] = USBRedirControls
  BY DEF Controls
<1>2. DOMAIN c = DOMAIN USBRedirControls /\ c.bus \in {"zero", "some"}
  BY <1>1, ControlsOf DEF USBRedirControls, Number
<1>3. DOMAIN d = DOMAIN USBRedirFields /\ \A g \in DOMAIN c : d[g] = c[g]
  BY <1>2, MadeFrom DEF USBRedirControls, USBRedirFields
<1>4. PageSays("USBRedir", c) = USBRedirXml(d)
  BY DEF PageSays
<1> HIDE DEF d
<1>5. c.bus # None
  BY <1>2, NoWord DEF Words
<1>6. QED
  BY <1>2, <1>3, <1>4, <1>5
  DEF Shows, USBRedirXml, USBRedirControls, USBRedirFields, Unused, AsSet, If

LEMMA ControllerShows ==
  ASSUME NEW c, Chosen("Controller", c)
  PROVE  Shows("Controller", c)
<1> DEFINE d == Over(c, Initial(ControllerFields))
<1>1. Controls["Controller"] = ControllerControls
  BY DEF Controls
<1>2. DOMAIN c = DOMAIN ControllerControls /\ c.type \in {"USB", "PCI"}
  BY <1>1, ControlsOf DEF ControllerControls
<1>3. DOMAIN d = DOMAIN ControllerFields /\ \A g \in DOMAIN c : d[g] = c[g]
  BY <1>2, MadeFrom DEF ControllerControls, ControllerFields
<1>4. PageSays("Controller", c) = ControllerXml(d)
  BY DEF PageSays
<1> HIDE DEF d
<1>5. QED
  BY <1>2, <1>3, <1>4
  DEF Shows, ControllerXml, ControllerControls, ControllerFields, Unused, AsSet, If

\* Pages with conditions of their own.
LEMMA InputShows ==
  ASSUME NEW c, Chosen("Input", c)
  PROVE  Shows("Input", c)
<1>1. Controls["Input"] = InputControls
  BY DEF Controls
<1>2. DOMAIN c = DOMAIN InputControls /\ c.type \in {"Tablet", "Mouse"}
  BY <1>1, ControlsOf DEF InputControls
<1>3. PageSays("Input", c) = InputXml(c)
  BY DEF PageSays
<1>4. QED
  BY <1>2, <1>3 DEF Shows, InputXml, InputControls, Unused, AsSet

LEMMA TPMShows ==
  ASSUME NEW c, Chosen("TPM", c)
  PROVE  Shows("TPM", c)
<1>1. Controls["TPM"] = TPMControls
  BY DEF Controls
<1>2. DOMAIN c = DOMAIN TPMControls /\ c.backend \in {"Emulator", "Passthrough"}
  BY <1>1, ControlsOf DEF TPMControls
<1>3. PageSays("TPM", c) = TPMXml(c)
  BY DEF PageSays
<1>4. QED
  BY <1>2, <1>3 DEF Shows, TPMXml, TPMControls, Unused, AsSet, If

LEMMA GraphicsShows ==
  ASSUME NEW c, Chosen("Graphics", c)
  PROVE  Shows("Graphics", c)
<1> DEFINE d == Over(c, Initial(GraphicsFields))
<1>1. Controls["Graphics"] = GraphicsControls
  BY DEF Controls
<1>2. DOMAIN c = DOMAIN GraphicsControls
  BY <1>1, ControlsOf
<1>3. DOMAIN d = DOMAIN GraphicsFields /\ (\A g \in DOMAIN c : d[g] = c[g]) /\ d.listenType = "Address"
  BY <1>2, MadeFrom DEF GraphicsControls, GraphicsFields
<1>4. PageSays("Graphics", c) = GraphicsXml(d)
  BY DEF PageSays
<1>5. "Address" # None
  BY NoWord DEF Words
<1> HIDE DEF d
<1>6. /\ GraphicsXml(d).type = d.type /\ GraphicsXml(d).autoPort = d.autoPort
      /\ GraphicsXml(d).keyMap = d.keyMap /\ GraphicsXml(d).listenAddress = d.listenAddress
      /\ GraphicsXml(d).port = If(d.autoPort = None, d.port)
  BY <1>3, <1>5 DEF GraphicsXml, GraphicsFields, AsSet, If
<1>7. QED
  BY <1>2, <1>3, <1>4, <1>6 DEF Shows, GraphicsControls, Unused, If

LEMMA DiskShows ==
  ASSUME NEW c, Chosen("Disk", c)
  PROVE  Shows("Disk", c)
<1> DEFINE t == [target |-> "vda"]
           e == Except(c, {"size"})
           m == DiskMade(c)
           d == Over(m, Initial(DiskFields))
<1>1. Controls["Disk"] = DiskControls
  BY DEF Controls
<1>2. DOMAIN c = DOMAIN DiskControls
  BY <1>1, ControlsOf
<1>3. /\ DOMAIN e = {"device", "bus", "source", "driverType", "readonly"}
      /\ \A g \in DOMAIN e : e[g] = c[g]
  BY <1>2 DEF Except, DiskControls
<1>4. DOMAIN t = {"target"} /\ t["target"] = "vda"
  OBVIOUS
<1> HIDE DEF t, e
<1>5. DOMAIN m = DOMAIN t \cup DOMAIN e /\ m["target"] = "vda" /\ \A g \in DOMAIN e : m[g] = e[g]
  BY <1>3, <1>4 DEF DiskMade, Over, t, e
<1> HIDE DEF m
<1>6. /\ DOMAIN d = DOMAIN DiskFields /\ \A g \in DOMAIN m : d[g] = m[g]
  BY <1>3, <1>4, <1>5, MadeFrom DEF DiskFields
<1>7. d.target # None
  BY <1>4, <1>5, <1>6, NoWord DEF Words
<1>8. PageSays("Disk", c) = DiskXml(d)
  BY DEF PageSays, m
<1> HIDE DEF d
<1>9. \A g \in {"device", "bus", "source", "driverType", "readonly"} : DiskXml(d)[g] = d[g]
  BY <1>6, <1>7 DEF DiskXml, DiskFields, AsSet, If
<1>10. DOMAIN c \ Unused("Disk", c) = {"device", "bus", "source", "driverType", "readonly"}
  BY <1>2 DEF Unused, DiskControls
<1>11. QED
  BY <1>3, <1>5, <1>6, <1>8, <1>9, <1>10 DEF Shows

LEMMA SerialShows ==
  ASSUME NEW c, Chosen("Serial", c)
  PROVE  Shows("Serial", c)
<1> DEFINE m == SerialMade(c)
           d == Over(m, Initial(SerialFields))
<1>1. Controls["Serial"] = SerialControls
  BY DEF Controls
<1>2. DOMAIN c = DOMAIN SerialControls
  BY <1>1, ControlsOf
<1>3. DOMAIN m = {"type", "sourcePath"} /\ m.type = c.type /\ m.sourcePath = c.sourcePath
  BY <1>2 DEF SerialMade, Except, SerialControls
<1> HIDE DEF m
<1>4. DOMAIN d = DOMAIN SerialFields /\ d.type = c.type /\ d.sourcePath = c.sourcePath
  BY <1>3, MadeFrom DEF SerialFields
<1>5. PageSays("Serial", c) = SerialXml(d)
  BY DEF PageSays, m
<1> HIDE DEF d
<1>6. SerialXml(d).type = d.type /\ SerialXml(d).sourcePath = If(d.type = "File", d.sourcePath)
  BY <1>4 DEF SerialXml, SerialFields, AsSet
<1>7. QED
  BY <1>2, <1>4, <1>5, <1>6 DEF Shows, SerialControls, Unused, If

LEMMA HostShows ==
  ASSUME NEW c, Chosen("Host", c)
  PROVE  Shows("Host", c)
<1> DEFINE m == HostMade(c)
           d == Over(m, Initial(HostFields))
<1>1. Controls["Host"] = HostControls
  BY DEF Controls
<1>2. DOMAIN c = DOMAIN HostControls /\ c.type \in {"USB", "PCI"} /\ c.usbMode \in {"Bus", "Device"}
  BY <1>1, ControlsOf DEF HostControls
<1>3. PageSays("Host", c) = HostXml(d)
  BY DEF PageSays
<1>4. CASE c.type = "USB"
  <2>1. m = c
    BY <1>4 DEF HostMade
  <2>2. DOMAIN d = DOMAIN HostFields /\ \A g \in DOMAIN c : d[g] = c[g]
    BY <1>2, <2>1, MadeFrom DEF HostControls, HostFields
  <2> HIDE DEF d
  <2>3. QED
    BY <1>2, <1>3, <1>4, <2>2 DEF Shows, HostXml, HostControls, Unused, If
<1>5. CASE c.type = "PCI"
  <2>1. DOMAIN c \ Unused("Host", c) = {"type"}
    BY <1>2, <1>5 DEF Unused, HostControls
  <2>2. m = [type |-> c.type] /\ DOMAIN m = {"type"}
    BY <1>5 DEF HostMade
  <2>3. d.type = c.type
    BY <2>2, MadeFrom DEF HostFields
  <2>4. HostXml(d).type = d.type
    BY DEF HostXml
  <2>5. QED
    BY <1>3, <2>1, <2>3, <2>4 DEF Shows
<1>6. QED
  BY <1>2, <1>4, <1>5

\* Pages on which a control left at its first choice leaves the member alone, or two
\* choices are one.
LEMMA ChannelShows ==
  ASSUME NEW c, Chosen("Channel", c)
  PROVE  /\ DOMAIN c = {"type", "targetName", "sourcePath"}
         /\ c.targetName \in {None, "other"}
         /\ PageSays("Channel", c).sourcePath = c.sourcePath
         /\ PageSays("Channel", c).targetName = IF c.targetName = None THEN "first" ELSE c.targetName
<1> DEFINE m == ChannelMade(c)
           d == Over(m, Initial(ChannelFields))
<1>1. Controls["Channel"] = ChannelControls
  BY DEF Controls
<1>2. DOMAIN c = DOMAIN ChannelControls /\ c.targetName \in {None, "other"}
  BY <1>1, ControlsOf DEF ChannelControls
<1>3. /\ DOMAIN m \subseteq {"type", "targetName", "sourcePath"} /\ "sourcePath" \in DOMAIN m
      /\ "targetName" \in DOMAIN m <=> c.targetName # None
      /\ m.sourcePath = c.sourcePath /\ (c.targetName # None => m.targetName = c.targetName)
  BY <1>2 DEF ChannelMade, Except, ChannelControls
<1> HIDE DEF m
<1>4. DOMAIN m \subseteq DOMAIN ChannelFields
  BY <1>3 DEF ChannelFields
<1>5. /\ DOMAIN d = DOMAIN ChannelFields /\ (\A g \in DOMAIN m : d[g] = m[g])
      /\ \A g \in DOMAIN ChannelFields \ DOMAIN m : d[g] = ChannelFields[g][1]
  BY <1>4, MadeFrom
<1>6. PageSays("Channel", c) = ChannelXml(d)
  BY DEF PageSays, m
<1> HIDE DEF d
<1>7. ChannelXml(d).sourcePath = d.sourcePath /\ ChannelXml(d).targetName = d.targetName
  BY <1>5 DEF ChannelXml, ChannelFields, AsSet
<1>8. d.sourcePath = c.sourcePath
  BY <1>3, <1>5
<1>9. d.targetName = IF c.targetName = None THEN "first" ELSE c.targetName
  BY <1>2, <1>3, <1>5 DEF ChannelFields, Enum
<1>10. QED
  BY <1>2, <1>6, <1>7, <1>8, <1>9 DEF ChannelControls

LEMMA NetworkShows ==
  ASSUME NEW c, Chosen("Network", c)
  PROVE  /\ DOMAIN c = {"type", "source", "model", "macAddress"}
         /\ c.type \in {"NAT", "Bridge", "Direct", "Isolated"} /\ c.macAddress \in {None, "some", "markup"}
         /\ PageSays("Network", c).type = IF c.type \in {"NAT", "Isolated"} THEN "Network" ELSE c.type
         /\ PageSays("Network", c).source = c.source /\ PageSays("Network", c).model = c.model
         /\ PageSays("Network", c).macAddress = IF c.macAddress = None THEN "drawn" ELSE c.macAddress
<1> DEFINE type == IF c.type \in {"NAT", "Isolated"} THEN "Network" ELSE c.type
           t == [type |-> type]
           e == IF c.macAddress = None THEN Except(c, {"macAddress"}) ELSE c
           m == NetworkMade(c)
           d == Over(m, Initial(NetworkFields))
<1>1. Controls["Network"] = NetworkControls
  BY DEF Controls
<1>2. /\ DOMAIN c = {"type", "source", "model", "macAddress"}
      /\ c.type \in {"NAT", "Bridge", "Direct", "Isolated"} /\ c.macAddress \in {None, "some", "markup"}
      /\ c.model \in {"Virtio", "E1000"}
  BY <1>1, ControlsOf DEF NetworkControls, Free
<1>3. DOMAIN t = {"type"} /\ t["type"] = type
  OBVIOUS
<1>4. /\ {"type", "source", "model"} \subseteq DOMAIN e /\ DOMAIN e \subseteq DOMAIN c
      /\ "macAddress" \in DOMAIN e <=> c.macAddress # None
      /\ \A g \in DOMAIN e : e[g] = c[g]
  BY <1>2 DEF Except
<1>5. m = Over(t, e)
  BY DEF NetworkMade
<1>6. type \in {"Network", "Bridge", "Direct"}
  BY <1>2
<1> HIDE DEF t, e, m, type
<1>7. /\ DOMAIN m = DOMAIN e /\ m["type"] = type
      /\ \A g \in DOMAIN e \ {"type"} : m[g] = e[g]
  BY <1>3, <1>4, <1>5 DEF Over
<1>8. DOMAIN m \subseteq DOMAIN NetworkFields
  BY <1>2, <1>4, <1>7 DEF NetworkFields
<1>9. /\ DOMAIN d = DOMAIN NetworkFields /\ (\A g \in DOMAIN m : d[g] = m[g])
      /\ \A g \in DOMAIN NetworkFields \ DOMAIN m : d[g] = NetworkFields[g][1]
  BY <1>8, MadeFrom
<1>10. PageSays("Network", c) = NetworkXml(d)
  BY DEF PageSays, m
<1> HIDE DEF d
<1>11. /\ d.type = type /\ d.source = c.source /\ d.model = c.model
  BY <1>2, <1>4, <1>7, <1>9
<1>12. d.macAddress = IF c.macAddress = None THEN "drawn" ELSE c.macAddress
  BY <1>2, <1>4, <1>7, <1>9 DEF NetworkFields
<1>13. /\ NetworkXml(d).type = d.type /\ NetworkXml(d).source = d.source
       /\ NetworkXml(d).model = d.model /\ NetworkXml(d).macAddress = d.macAddress
  BY <1>2, <1>6, <1>9, <1>11 DEF NetworkXml, NetworkFields, AsSet, If
<1>14. QED
  BY <1>2, <1>10, <1>11, <1>12, <1>13 DEF type

LEMMA VSockShows ==
  ASSUME NEW c, Chosen("VSock", c)
  PROVE  PageSays("VSock", c).cidAssignment = c.cidAssignment
<1> DEFINE m == VSockMade(c)
           d == Over(m, Initial(VSockFields))
<1>1. Controls["VSock"] = VSockControls
  BY DEF Controls
<1>2. DOMAIN c = DOMAIN VSockControls
  BY <1>1, ControlsOf
<1>3. /\ DOMAIN m \subseteq DOMAIN VSockFields
      /\ "cidAssignment" \in DOMAIN m /\ m.cidAssignment = c.cidAssignment
  BY <1>2 DEF VSockMade, Except, VSockControls, VSockFields
<1> HIDE DEF m
<1>4. DOMAIN d = DOMAIN VSockFields /\ d.cidAssignment = c.cidAssignment
  BY <1>3, MadeFrom
<1>5. PageSays("VSock", c) = VSockXml(d)
  BY DEF PageSays, m
<1> HIDE DEF d
<1>6. VSockXml(d).cidAssignment = d.cidAssignment
  BY <1>4 DEF VSockXml, VSockFields, AsSet
<1>7. QED
  BY <1>4, <1>5, <1>6

\* With any other choice for a control that counts the element would be another one.
Counts(p) ==
  \A ch : Chosen(p, ch) =>
    \A f \in DOMAIN ch \ Unused(p, ch) : \A v \in Options(p, f) \ {ch[f]} :
      PageSays(p, [ch EXCEPT ![f] = v]) # PageSays(p, ch)

LEMMA AnotherChoice ==
  ASSUME NEW p, NEW ch, Chosen(p, ch), NEW f \in DOMAIN ch, NEW v \in Options(p, f)
  PROVE  LET new == [ch EXCEPT ![f] = v]
         IN  Chosen(p, new) /\ DOMAIN new = DOMAIN ch /\ new[f] = v
             /\ \A g \in DOMAIN ch \ {f} : new[g] = ch[g]
  BY DEF Chosen

LEMMA ChannelCounts == Counts("Channel")
<1> SUFFICES ASSUME NEW ch, Chosen("Channel", ch), NEW f \in DOMAIN ch \ Unused("Channel", ch),
                    NEW v \in Options("Channel", f), v # ch[f]
             PROVE  PageSays("Channel", [ch EXCEPT ![f] = v]) # PageSays("Channel", ch)
  BY DEF Counts
<1> DEFINE new == [ch EXCEPT ![f] = v]
<1>1. Chosen("Channel", new) /\ new[f] = v
  BY AnotherChoice
<1> HIDE DEF new
<1>2. f \in {"targetName", "sourcePath"}
  BY ChannelShows DEF Unused
<1>3. PageSays("Channel", new)[f] # PageSays("Channel", ch)[f]
  BY <1>1, <1>2, ChannelShows
<1>4. QED
  BY <1>3 DEF new

LEMMA NetworkCounts == Counts("Network")
<1> SUFFICES ASSUME NEW ch, Chosen("Network", ch), NEW f \in DOMAIN ch \ Unused("Network", ch),
                    NEW v \in Options("Network", f), v # ch[f]
             PROVE  PageSays("Network", [ch EXCEPT ![f] = v]) # PageSays("Network", ch)
  BY DEF Counts
<1> DEFINE new == [ch EXCEPT ![f] = v]
<1>1. Chosen("Network", new) /\ new[f] = v
  BY AnotherChoice
<1> HIDE DEF new
<1>2. f \in {"type", "source", "model", "macAddress"} /\ (f = "type" => ch.type \in {"Bridge", "Direct"})
  BY NetworkShows DEF Unused
<1>3. PageSays("Network", new)[f] # PageSays("Network", ch)[f]
  BY <1>1, <1>2, NetworkShows
<1>4. QED
  BY <1>3 DEF new

LEMMA VSockCounts == Counts("VSock")
<1> SUFFICES ASSUME NEW ch, Chosen("VSock", ch), NEW f \in DOMAIN ch,
                    NEW v \in Options("VSock", f), v # ch[f]
             PROVE  PageSays("VSock", [ch EXCEPT ![f] = v]) # PageSays("VSock", ch)
  BY DEF Counts
<1> DEFINE new == [ch EXCEPT ![f] = v]
<1>1. Chosen("VSock", new) /\ new[f] = v
  BY AnotherChoice
<1> HIDE DEF new
<1>2. DOMAIN ch = {"cidAssignment", "cid"} /\ Options("VSock", "cid") = {"zero"}
  BY DEF Chosen, Options, Controls, VSockControls
<1>3. f = "cidAssignment"
  BY <1>2 DEF Chosen
<1>4. PageSays("VSock", new)[f] # PageSays("VSock", ch)[f]
  BY <1>1, <1>3, VSockShows
<1>5. QED
  BY <1>4 DEF new

\* On the other pages a control that counts shows.
LEMMA CountsAsShown ==
  ASSUME NEW p \in Pages \ {"Network"}, \A c : Chosen(p, c) => Shows(p, c)
  PROVE  Counts(p)
<1> SUFFICES ASSUME NEW ch, Chosen(p, ch), NEW f \in DOMAIN ch \ Unused(p, ch),
                    NEW v \in Options(p, f), v # ch[f]
             PROVE  PageSays(p, [ch EXCEPT ![f] = v]) # PageSays(p, ch)
  BY DEF Counts
<1> DEFINE new == [ch EXCEPT ![f] = v]
<1>1. /\ Chosen(p, new) /\ DOMAIN new = DOMAIN ch /\ new[f] = v
      /\ \A g \in DOMAIN ch \ {f} : new[g] = ch[g]
  BY AnotherChoice
<1> HIDE DEF new
<1>2. f \notin Unused(p, new)
  <2>1. CASE p = "Controller"
    <3>1. DOMAIN ch = DOMAIN ControllerControls
      BY <2>1 DEF Chosen, Controls
    <3>2. QED
      BY <1>1, <2>1, <3>1 DEF Unused, ControllerControls
  <2>2. CASE p = "Graphics"
    <3>1. DOMAIN ch = DOMAIN GraphicsControls
      BY <2>2 DEF Chosen, Controls
    <3>2. QED
      BY <1>1, <2>2, <3>1 DEF Unused, GraphicsControls
  <2>3. CASE p = "TPM"
    <3>1. DOMAIN ch = DOMAIN TPMControls
      BY <2>3 DEF Chosen, Controls
    <3>2. QED
      BY <1>1, <2>3, <3>1 DEF Unused, TPMControls
  <2>4. CASE p = "Host"
    <3>1. DOMAIN ch = DOMAIN HostControls
      BY <2>4 DEF Chosen, Controls
    <3>2. QED
      BY <1>1, <2>4, <3>1 DEF Unused, HostControls
  <2>5. CASE p = "Smartcard"
    <3>1. DOMAIN ch = DOMAIN SmartcardControls
      BY <2>5 DEF Chosen, Controls
    <3>2. QED
      BY <1>1, <2>5, <3>1 DEF Unused, SmartcardControls
  <2>6. CASE p = "Serial"
    <3>1. DOMAIN ch = DOMAIN SerialControls
      BY <2>6 DEF Chosen, Controls
    <3>2. QED
      BY <1>1, <2>6, <3>1 DEF Unused, SerialControls
  <2>7. CASE p \notin {"Network", "Controller", "Graphics", "TPM", "Host", "Smartcard", "Serial"}
    BY <1>1, <2>7 DEF Unused
  <2>8. QED
    BY <2>1, <2>2, <2>3, <2>4, <2>5, <2>6, <2>7
<1>3. PageSays(p, new)[f] = v /\ PageSays(p, ch)[f] = ch[f]
  BY <1>1, <1>2 DEF Shows
<1>4. QED
  BY <1>3 DEF new

LEMMA AllCount == \A p \in Pages : Counts(p)
<1>1. Counts("Video")
  BY VideoShows, CountsAsShown, PagesAre DEF PageNames
<1>2. Counts("Sound")
  BY SoundShows, CountsAsShown, PagesAre DEF PageNames
<1>3. Counts("Watchdog")
  BY WatchdogShows, CountsAsShown, PagesAre DEF PageNames
<1>4. Counts("Smartcard")
  BY SmartcardShows, CountsAsShown, PagesAre DEF PageNames
<1>5. Counts("Memballoon")
  BY MemballoonShows, CountsAsShown, PagesAre DEF PageNames
<1>6. Counts("FileSystem")
  BY FileSystemShows, CountsAsShown, PagesAre DEF PageNames
<1>7. Counts("RNG")
  BY RNGShows, CountsAsShown, PagesAre DEF PageNames
<1>8. Counts("Panic")
  BY PanicShows, CountsAsShown, PagesAre DEF PageNames
<1>9. Counts("Parallel")
  BY ParallelShows, CountsAsShown, PagesAre DEF PageNames
<1>10. Counts("IOMMU")
  BY IOMMUShows, CountsAsShown, PagesAre DEF PageNames
<1>11. Counts("USBRedir")
  BY USBRedirShows, CountsAsShown, PagesAre DEF PageNames
<1>12. Counts("Controller")
  BY ControllerShows, CountsAsShown, PagesAre DEF PageNames
<1>13. Counts("Input")
  BY InputShows, CountsAsShown, PagesAre DEF PageNames
<1>14. Counts("TPM")
  BY TPMShows, CountsAsShown, PagesAre DEF PageNames
<1>15. Counts("Graphics")
  BY GraphicsShows, CountsAsShown, PagesAre DEF PageNames
<1>16. Counts("Disk")
  BY DiskShows, CountsAsShown, PagesAre DEF PageNames
<1>17. Counts("Serial")
  BY SerialShows, CountsAsShown, PagesAre DEF PageNames
<1>18. Counts("Host")
  BY HostShows, CountsAsShown, PagesAre DEF PageNames
<1>19. QED
  BY <1>1, <1>2, <1>3, <1>4, <1>5, <1>6, <1>7, <1>8, <1>9, <1>10, <1>11, <1>12, <1>13,
     <1>14, <1>15, <1>16, <1>17, <1>18,
     ChannelCounts, NetworkCounts, VSockCounts, PagesAre
  DEF PageNames

\* Every control of the page shown counts, whatever the others are set to: what is
\* asked for gets into the element, but for the controls of Unused.
THEOREM ControlsCount == HardwareSpec => []EveryControlCounts
<1>1. HardwareInv => EveryControlCounts
  BY AllCount, StackIsPages DEF HardwareInv, FormInv, AllChosen, EveryControlCounts, Counts
<1>2. QED
  BY <1>1, HardwareInductive, PTL

-----------------------------------------------------------------------------
(***************************************************************************)
(* The classes' XML.  A class is taken through one round and a half: an     *)
(* object d writes x, an object e reads it and becomes r, which writes y,   *)
(* and another e reads that, becomes q and writes z.  For each class there  *)
(* is one lemma on its two halves, which says member by member what the     *)
(* class writes and what it takes from what is written, and one on the      *)
(* round that follows from it.                                              *)
(***************************************************************************)

\* What an object has of a member after reading x, in the ordinary case.
Kept(e, x, f) == IF x[f] # None THEN x[f] ELSE e[f]

\* A record with the members of the class, as an object and an element are.
Shaped(c, d) == DOMAIN d = DOMAIN Fields[c] /\ d = [f \in DOMAIN Fields[c] |-> d[f]]

\* What a setter or a reader can put into a member, and an object that has nothing
\* else in any.
Offered(c, f, v) ==
  IF IsList(c, f) THEN v \in Seq({"full", "hollow"})
  ELSE \/ \E i \in DOMAIN Fields[c][f] : v = Fields[c][f][i]
       \/ c = "Firmware" /\ f = "nvram" /\ v = "mixed"
Held(c, d) == Shaped(c, d) /\ \A f \in DOMAIN Fields[c] : Offered(c, f, d[f])

\* The round, and what is to be shown of it: that y says what x says, outside the
\* members the class misreads; and that, if e is new, z says what y does, and y
\* says of a member what x does or what a new object would.
Rounds(c, d, e, x, r, y, q, z) ==
  /\ Held(c, d) /\ Held(c, e) /\ Formed(c, d)
  /\ x = Says(c, d) /\ r = ReadInto(c, e, x) /\ y = Says(c, r)
  /\ q = ReadInto(c, e, y) /\ z = Says(c, q)
Agrees(c, x, r, y) ==
  /\ Shaped(c, x) /\ Held(c, r)
  /\ \A f \in DOMAIN Fields[c] \ Misread(c) : x[f] # None =>
       /\ Formed(c, r)
       /\ IF IsList(c, f) THEN IsSuffix(x[f], y[f]) ELSE y[f] = x[f]
Settles(c, e, x, r, y, q, z) ==
  e = New[c] =>
    /\ z = y
    /\ Formed(c, r) => Formed(c, q) \/ \A f \in DOMAIN Fields[c] : y[f] = None
    /\ \/ /\ ~ Formed(c, e)
          /\ Formed(c, r) => \A f \in DOMAIN Fields[c] : y[f] \in {x[f], None}
       \/ /\ Formed(c, r) /\ Formed(c, e)
          /\ \A f \in DOMAIN Fields[c] : <<c, f>> # <<"USBRedir", "port">> =>
               y[f] \in {x[f], Says(c, e)[f]}

\* What is merged, member by member.
LEMMA MergedIs ==
  ASSUME NEW d, NEW x, d = [f \in DOMAIN d |-> d[f]]
  PROVE  LET m == Merged(d, x)
         IN  /\ DOMAIN m = DOMAIN d /\ m = [f \in DOMAIN d |-> m[f]]
             /\ \A f \in DOMAIN d : m[f] = Kept(d, x, f)
  BY DEF Merged, Kept

-----------------------------------------------------------------------------
(* The classes whose halves are mostly the ordinary case. *)

\* Disk: what toXML() writes, and what fromXML() takes of it.
DiskSaid(d, x) ==
  /\ x.bus = If(d.target # None, d.bus)
  /\ x.cache = If(HasDriver(d), d.cache)
  /\ \A f \in DOMAIN DiskFields \ {"bus", "cache"} : x[f] = d[f]
DiskTaken(e, x, r) ==
  /\ r.driverName = (IF HasDriver(x) THEN x.driverName ELSE e.driverName)
  /\ r.driverType = (IF HasDriver(x) THEN x.driverType ELSE e.driverType)
  /\ r.readonly = x.readonly
  /\ r.shareable = x.shareable
  /\ r.bootOrder = e.bootOrder
  /\ r.address = AddressRead(e.address, x.address)
  /\ \A f \in DOMAIN DiskFields \ {"driverName", "driverType", "readonly", "shareable",
                                   "bootOrder", "address"} :
       r[f] = Kept(e, x, f)

LEMMA DiskHalves ==
  ASSUME NEW d, NEW x, Shaped("Disk", d)
  PROVE  /\ Shaped("Disk", Says("Disk", d)) /\ DiskSaid(d, Says("Disk", d))
         /\ Shaped("Disk", ReadInto("Disk", d, x))
         /\ DiskTaken(d, x, ReadInto("Disk", d, x))
<1>1. /\ Says("Disk", d) = DiskXml(d) /\ ReadInto("Disk", d, x) = DiskRead(d, x)
      /\ Fields["Disk"] = DiskFields
  BY DEF Says, ReadInto, Fields
<1>2. Shaped("Disk", DiskXml(d)) /\ DiskSaid(d, DiskXml(d))
  BY <1>1 DEF DiskSaid, DiskXml, DiskFields, AsSet, Shaped
<1> DEFINE m == Merged(d, x)
<1>3. /\ DOMAIN m = DOMAIN DiskFields /\ m = [f \in DOMAIN DiskFields |-> m[f]]
      /\ \A f \in DOMAIN DiskFields : m[f] = Kept(d, x, f)
  BY <1>1, MergedIs DEF Shaped
<1> HIDE DEF m
<1>4. Shaped("Disk", DiskRead(d, x)) /\ DiskTaken(d, x, DiskRead(d, x))
  BY <1>1, <1>3 DEF DiskTaken, DiskRead, DiskFields, Shaped, m
<1>5. QED
  BY <1>1, <1>2, <1>4

LEMMA DiskCopies ==
  ASSUME NEW d, NEW e, NEW x, NEW r, NEW y, NEW q, NEW z,
         Rounds("Disk", d, e, x, r, y, q, z)
  PROVE  Agrees("Disk", x, r, y) /\ Settles("Disk", e, x, r, y, q, z)
<1>1. /\ DiskSaid(d, x) /\ DiskTaken(e, x, r) /\ DiskSaid(r, y)
      /\ DiskTaken(e, y, q) /\ DiskSaid(q, z)
      /\ Shaped("Disk", x) /\ Shaped("Disk", r) /\ Shaped("Disk", y)
      /\ Shaped("Disk", q) /\ Shaped("Disk", z)
      /\ e = New["Disk"] => DiskSaid(e, Says("Disk", New["Disk"]))
  BY DiskHalves DEF Rounds, Held
<1>2. /\ Fields["Disk"] = DiskFields /\ "Disk" \in Classes
      /\ Held("Disk", d) /\ Held("Disk", e)
  BY DEF Fields, Rounds, Classes
<1>3. \A f \in DOMAIN DiskFields :
        \/ r[f] \in {d[f], e[f]}
        \/ f \in {"readonly", "shareable", "driverName", "driverType"} /\ r[f] = None
  BY <1>1, NoWord DEF DiskSaid, DiskTaken, DiskFields, Kept, If, HasDriver, AddressRead
<1>4. \A f \in {"readonly", "shareable", "driverName", "driverType"} :
        Offered("Disk", f, None)
  BY <1>2 DEF Offered, IsList, DiskFields, Text, Free, Flag, Raised, Number, Addresses, Timers
<1>5. Held("Disk", r)
  BY <1>1, <1>2, <1>3, <1>4 DEF Held, DiskFields
<1>6. d.bus \in {"first", "other"} /\ e.bus \in {"first", "other"}
  BY <1>2 DEF Held, Offered, IsList, DiskFields, Raised, Text, Free, Number, Enum, Flag
<1>7. \A f \in DOMAIN DiskFields \ {"bootOrder", "address"} : x[f] # None => y[f] = x[f]
  BY <1>1, <1>6, NoWord DEF DiskSaid, DiskTaken, DiskFields, Kept, If, HasDriver,
     AddressRead, Words
<1>8. ASSUME e = New["Disk"] PROVE Settles("Disk", e, x, r, y, q, z)
  <2>1. e.type = "first" /\ e.device = "first" /\ e.bus = "first" /\ e.target = None /\
        e.source = None /\ e.driverName = "qemu" /\ e.driverType = None /\
        e.cache = None /\ e.readonly = None /\ e.shareable = None /\
        e.bootOrder = None /\ e.address = None /\ e.alias = None
    BY <1>2, <1>8 DEF New, Initial, DiskFields, Text, Free, Enum, Flag, Raised, Number,
       Addresses, Timers
  <2>2. \A f \in DOMAIN DiskFields : y[f] \in {x[f], Says("Disk", New["Disk"])[f]}
    BY <1>1, <1>8, <2>1, <1>6, NoWord DEF DiskSaid, DiskTaken, DiskFields, Kept, If,
       HasDriver, AddressRead, Words
  <2>3. \A f \in DOMAIN DiskFields : z[f] = y[f]
    BY <1>1, <2>1, <1>6, NoWord DEF DiskSaid, DiskTaken, DiskFields, Kept, If,
       HasDriver, AddressRead, Words
  <2>4. z = y
    BY <1>1, <1>2, <2>3 DEF Shaped
  <2>5. QED
    BY <1>2, <1>8, <2>2, <2>4 DEF Settles, Formed
<1>9. QED
  BY <1>1, <1>2, <1>5, <1>7, <1>8 DEF Agrees, Settles, Formed, Misread, IsList, DiskFields

\* Network: what toXML() writes, and what fromXML() takes of it.
NetworkSaid(d, x) ==
  /\ x.type = (IF d.type = "None" THEN "Network" ELSE d.type)
  /\ x.source = If(d.type # "User", d.source)
  /\ x.sourceMode = If(d.type = "Direct" /\ d.source # None, d.sourceMode)
  /\ x.model = If(d.model # "None", d.model)
  /\ \A f \in DOMAIN NetworkFields \ {"type", "source", "sourceMode", "model"} :
       x[f] = d[f]
NetworkTaken(e, x, r) ==
  /\ r.source = (IF x.type = "Udp" /\ x.source # None THEN None ELSE Kept(e, x, "source"))
  /\ r.sourceMode = (IF x.type = "Direct" /\ x.source # None THEN x.sourceMode
                     ELSE e.sourceMode)
  /\ r.address = AddressRead(e.address, x.address)
  /\ \A f \in DOMAIN NetworkFields \ {"source", "sourceMode", "address"} :
       r[f] = Kept(e, x, f)

LEMMA NetworkHalves ==
  ASSUME NEW d, NEW x, Shaped("Network", d)
  PROVE  /\ Shaped("Network", Says("Network", d)) /\ NetworkSaid(d, Says("Network", d))
         /\ Shaped("Network", ReadInto("Network", d, x))
         /\ NetworkTaken(d, x, ReadInto("Network", d, x))
<1>1. /\ Says("Network", d) = NetworkXml(d)
      /\ ReadInto("Network", d, x) = NetworkRead(d, x)
      /\ Fields["Network"] = NetworkFields
  BY DEF Says, ReadInto, Fields
<1>2. Shaped("Network", NetworkXml(d)) /\ NetworkSaid(d, NetworkXml(d))
  BY <1>1 DEF NetworkSaid, NetworkXml, NetworkFields, AsSet, Shaped
<1> DEFINE m == Merged(d, x)
<1>3. /\ DOMAIN m = DOMAIN NetworkFields /\ m = [f \in DOMAIN NetworkFields |-> m[f]]
      /\ \A f \in DOMAIN NetworkFields : m[f] = Kept(d, x, f)
  BY <1>1, MergedIs DEF Shaped
<1> HIDE DEF m
<1>4. Shaped("Network", NetworkRead(d, x)) /\ NetworkTaken(d, x, NetworkRead(d, x))
  <2> DEFINE r == NetworkRead(d, x)
  <2>1. DOMAIN r = DOMAIN NetworkFields /\ r = [f \in DOMAIN NetworkFields |-> r[f]]
    BY <1>3 DEF NetworkRead, m
  <2>2. r.source = IF x.type = "Udp" /\ x.source # None THEN None ELSE m.source
    BY <1>3 DEF NetworkRead, NetworkFields, m
  <2>3. /\ r.sourceMode = IF x.type = "Direct" /\ x.source # None
                          THEN x.sourceMode ELSE d.sourceMode
        /\ r.address = AddressRead(d.address, x.address)
    BY <1>3 DEF NetworkRead, NetworkFields, m
  <2>4. /\ \A f \in DOMAIN NetworkFields \ {"source", "sourceMode", "address"} :
             r[f] = Kept(d, x, f)
        /\ m.source = Kept(d, x, "source")
    BY <1>3 DEF NetworkRead, NetworkFields, m
  <2> HIDE DEF r
  <2>5. Shaped("Network", r) /\ NetworkTaken(d, x, r)
    BY <1>1, <2>1, <2>2, <2>3, <2>4 DEF Shaped, NetworkTaken
  <2>6. QED
    BY <2>5 DEF r
<1>5. QED
  BY <1>1, <1>2, <1>4

LEMMA NetworkCopies ==
  ASSUME NEW d, NEW e, NEW x, NEW r, NEW y, NEW q, NEW z,
         Rounds("Network", d, e, x, r, y, q, z)
  PROVE  Agrees("Network", x, r, y) /\ Settles("Network", e, x, r, y, q, z)
<1>1. /\ NetworkSaid(d, x) /\ NetworkTaken(e, x, r) /\ NetworkSaid(r, y)
      /\ NetworkTaken(e, y, q) /\ NetworkSaid(q, z)
      /\ Shaped("Network", x) /\ Shaped("Network", r) /\ Shaped("Network", y)
      /\ Shaped("Network", q) /\ Shaped("Network", z)
      /\ e = New["Network"] => NetworkSaid(e, Says("Network", New["Network"]))
  BY NetworkHalves DEF Rounds, Held
<1>2. /\ Fields["Network"] = NetworkFields /\ "Network" \in Classes
      /\ Held("Network", d) /\ Held("Network", e)
  BY DEF Fields, Rounds, Classes
<1>3. \A f \in DOMAIN NetworkFields :
        \/ r[f] \in {d[f], e[f]}
        \/ f = "type" /\ r[f] = "Network"
        \/ f = "source" /\ r[f] = None
  BY <1>1, NoWord DEF NetworkSaid, NetworkTaken, NetworkFields, Kept, If, AddressRead
<1>4. /\ Offered("Network", "type", "Network")
      /\ Offered("Network", "source", None)
  BY <1>2 DEF Offered, IsList, NetworkFields, Text, Free, Flag, Raised, Number, Addresses,
     Timers
<1>5. Held("Network", r)
  BY <1>1, <1>2, <1>3, <1>4 DEF Held, NetworkFields
<1>6. \A f \in DOMAIN NetworkFields \ {"source", "address"} :
        x[f] # None => y[f] = x[f]
  BY <1>1, NoWord DEF NetworkSaid, NetworkTaken, NetworkFields, Kept, If, AddressRead,
     Words
<1>7. ASSUME e = New["Network"] PROVE Settles("Network", e, x, r, y, q, z)
  <2>1. e.type = "Network" /\ e.source = None /\ e.sourceMode = None /\
        e.macAddress = "drawn" /\ e.model = "Virtio" /\ e.linkState = None /\
        e.targetDev = None /\ e.bootOrder = None /\ e.address = None /\ e.alias = None
    BY <1>2, <1>7 DEF New, Initial, NetworkFields, Text, Free, Enum, Flag, Raised, Number,
       Addresses, Timers
  <2>2. \A f \in DOMAIN NetworkFields :
          y[f] \in {x[f], Says("Network", New["Network"])[f]}
    BY <1>1, <1>7, <2>1, NoWord DEF NetworkSaid, NetworkTaken, NetworkFields, Kept, If,
       AddressRead, Words
  <2>3. \A f \in DOMAIN NetworkFields : z[f] = y[f]
    BY <1>1, <2>1, NoWord DEF NetworkSaid, NetworkTaken, NetworkFields, Kept, If,
       AddressRead, Words
  <2>4. z = y
    BY <1>1, <1>2, <2>3 DEF Shaped
  <2>5. QED
    BY <1>2, <1>7, <2>2, <2>4 DEF Settles, Formed
<1>8. QED
  BY <1>1, <1>2, <1>5, <1>6, <1>7 DEF Agrees, Settles, Formed, Misread, IsList,
     NetworkFields

\* Controller: what toXML() writes, and what fromXML() takes of it.
ControllerSaid(d, x) ==
  /\ x.type = (IF d.type = "None" THEN "USB" ELSE d.type)
  /\ x.usbModel = If(d.type = "USB", d.usbModel)
  /\ \A f \in DOMAIN ControllerFields \ {"type", "usbModel"} : x[f] = d[f]
ControllerTaken(e, x, r) ==
  /\ r.address = AddressRead(e.address, x.address)
  /\ \A f \in DOMAIN ControllerFields \ {"address"} : r[f] = Kept(e, x, f)

LEMMA ControllerHalves ==
  ASSUME NEW d, NEW x, Shaped("Controller", d)
  PROVE  /\ Shaped("Controller", Says("Controller", d))
         /\ ControllerSaid(d, Says("Controller", d))
         /\ Shaped("Controller", ReadInto("Controller", d, x))
         /\ ControllerTaken(d, x, ReadInto("Controller", d, x))
<1>1. /\ Says("Controller", d) = ControllerXml(d)
      /\ ReadInto("Controller", d, x) = ControllerRead(d, x)
      /\ Fields["Controller"] = ControllerFields
  BY DEF Says, ReadInto, Fields
<1>2. Shaped("Controller", ControllerXml(d)) /\ ControllerSaid(d, ControllerXml(d))
  BY <1>1 DEF ControllerSaid, ControllerXml, ControllerFields, AsSet, Shaped
<1> DEFINE m == Merged(d, x)
<1>3. /\ DOMAIN m = DOMAIN ControllerFields
      /\ m = [f \in DOMAIN ControllerFields |-> m[f]]
      /\ \A f \in DOMAIN ControllerFields : m[f] = Kept(d, x, f)
  BY <1>1, MergedIs DEF Shaped
<1> HIDE DEF m
<1>4. /\ Shaped("Controller", ControllerRead(d, x))
      /\ ControllerTaken(d, x, ControllerRead(d, x))
  BY <1>1, <1>3 DEF ControllerTaken, ControllerRead, ControllerFields, Shaped, m
<1>5. QED
  BY <1>1, <1>2, <1>4

LEMMA ControllerCopies ==
  ASSUME NEW d, NEW e, NEW x, NEW r, NEW y, NEW q, NEW z,
         Rounds("Controller", d, e, x, r, y, q, z)
  PROVE  Agrees("Controller", x, r, y) /\ Settles("Controller", e, x, r, y, q, z)
<1>1. /\ ControllerSaid(d, x) /\ ControllerTaken(e, x, r) /\ ControllerSaid(r, y)
      /\ ControllerTaken(e, y, q) /\ ControllerSaid(q, z)
      /\ Shaped("Controller", x) /\ Shaped("Controller", r) /\ Shaped("Controller", y)
      /\ Shaped("Controller", q) /\ Shaped("Controller", z)
      /\ e = New["Controller"] => ControllerSaid(e, Says("Controller", New["Controller"]))
  BY ControllerHalves DEF Rounds, Held
<1>2. /\ Fields["Controller"] = ControllerFields /\ "Controller" \in Classes
      /\ Held("Controller", d) /\ Held("Controller", e)
  BY DEF Fields, Rounds, Classes
<1>3. \A f \in DOMAIN ControllerFields :
        \/ r[f] \in {d[f], e[f]}
        \/ f = "type" /\ r[f] = "USB"
  BY <1>1, NoWord DEF ControllerSaid, ControllerTaken, ControllerFields, Kept, If,
     AddressRead
<1>4. Offered("Controller", "type", "USB")
  BY <1>2 DEF Offered, IsList, ControllerFields, Text, Free, Flag, Raised, Number, Addresses,
     Timers
<1>5. Held("Controller", r)
  BY <1>1, <1>2, <1>3, <1>4 DEF Held, ControllerFields
<1>6. \A f \in DOMAIN ControllerFields \ {"address"} : x[f] # None => y[f] = x[f]
  BY <1>1, NoWord DEF ControllerSaid, ControllerTaken, ControllerFields, Kept, If,
     AddressRead, Words
<1>7. ASSUME e = New["Controller"] PROVE Settles("Controller", e, x, r, y, q, z)
  <2>1. e.type = "None" /\ e.index = None /\ e.usbModel = None /\ e.ports = None /\
        e.address = None /\ e.alias = None
    BY <1>2, <1>7 DEF New, Initial, ControllerFields, Text, Free, Enum, Flag, Raised, Number,
       Addresses, Timers
  <2>2. \A f \in DOMAIN ControllerFields :
          y[f] \in {x[f], Says("Controller", New["Controller"])[f]}
    BY <1>1, <1>7, <2>1, NoWord DEF ControllerSaid, ControllerTaken, ControllerFields,
       Kept, If, AddressRead, Words
  <2>3. \A f \in DOMAIN ControllerFields : z[f] = y[f]
    BY <1>1, <2>1, NoWord DEF ControllerSaid, ControllerTaken, ControllerFields, Kept,
       If, AddressRead, Words
  <2>4. z = y
    BY <1>1, <1>2, <2>3 DEF Shaped
  <2>5. QED
    BY <1>2, <1>7, <2>2, <2>4 DEF Settles, Formed
<1>8. QED
  BY <1>1, <1>2, <1>5, <1>6, <1>7 DEF Agrees, Settles, Formed, Misread, IsList,
     ControllerFields

\* Input: what toXML() writes, and what fromXML() takes of it.
InputSaid(d, x) ==
  /\ x.type = (IF d.type = "None" THEN "Tablet" ELSE d.type)
  /\ x.bus = d.bus
InputTaken(e, x, r) ==
  /\ \A f \in DOMAIN InputFields : r[f] = Kept(e, x, f)

LEMMA InputHalves ==
  ASSUME NEW d, NEW x, Shaped("Input", d)
  PROVE  /\ Shaped("Input", Says("Input", d)) /\ InputSaid(d, Says("Input", d))
         /\ Shaped("Input", ReadInto("Input", d, x))
         /\ InputTaken(d, x, ReadInto("Input", d, x))
<1>1. /\ Says("Input", d) = InputXml(d) /\ ReadInto("Input", d, x) = InputRead(d, x)
      /\ Fields["Input"] = InputFields
  BY DEF Says, ReadInto, Fields
<1>2. Shaped("Input", InputXml(d)) /\ InputSaid(d, InputXml(d))
  BY <1>1 DEF InputSaid, InputXml, InputFields, AsSet, Shaped
<1> DEFINE m == Merged(d, x)
<1>3. /\ DOMAIN m = DOMAIN InputFields /\ m = [f \in DOMAIN InputFields |-> m[f]]
      /\ \A f \in DOMAIN InputFields : m[f] = Kept(d, x, f)
  BY <1>1, MergedIs DEF Shaped
<1> HIDE DEF m
<1>4. Shaped("Input", InputRead(d, x)) /\ InputTaken(d, x, InputRead(d, x))
  BY <1>1, <1>3 DEF InputTaken, InputRead, InputFields, Shaped, m
<1>5. QED
  BY <1>1, <1>2, <1>4

LEMMA InputCopies ==
  ASSUME NEW d, NEW e, NEW x, NEW r, NEW y, NEW q, NEW z,
         Rounds("Input", d, e, x, r, y, q, z)
  PROVE  Agrees("Input", x, r, y) /\ Settles("Input", e, x, r, y, q, z)
<1>1. /\ InputSaid(d, x) /\ InputTaken(e, x, r) /\ InputSaid(r, y)
      /\ InputTaken(e, y, q) /\ InputSaid(q, z)
      /\ Shaped("Input", x) /\ Shaped("Input", r) /\ Shaped("Input", y)
      /\ Shaped("Input", q) /\ Shaped("Input", z)
      /\ e = New["Input"] => InputSaid(e, Says("Input", New["Input"]))
  BY InputHalves DEF Rounds, Held
<1>2. /\ Fields["Input"] = InputFields /\ "Input" \in Classes
      /\ Held("Input", d) /\ Held("Input", e)
  BY DEF Fields, Rounds, Classes
<1>3. \A f \in DOMAIN InputFields :
        \/ r[f] \in {d[f], e[f]}
        \/ f = "type" /\ r[f] = "Tablet"
  BY <1>1, NoWord DEF InputSaid, InputTaken, InputFields, Kept
<1>4. Offered("Input", "type", "Tablet")
  BY <1>2 DEF Offered, IsList, InputFields, Text, Flag, Raised, Number, Addresses, Timers
<1>5. Held("Input", r)
  BY <1>1, <1>2, <1>3, <1>4 DEF Held, InputFields
<1>6. \A f \in DOMAIN InputFields : x[f] # None => y[f] = x[f]
  BY <1>1, NoWord DEF InputSaid, InputTaken, InputFields, Kept, Words
<1>7. ASSUME e = New["Input"] PROVE Settles("Input", e, x, r, y, q, z)
  <2>1. e.type = "None" /\ e.bus = None
    BY <1>2, <1>7 DEF New, Initial, InputFields, Text, Enum, Flag, Raised, Number,
       Addresses, Timers
  <2>2. \A f \in DOMAIN InputFields : y[f] \in {x[f], Says("Input", New["Input"])[f]}
    BY <1>1, <1>7, <2>1, NoWord DEF InputSaid, InputTaken, InputFields, Kept, Words
  <2>3. \A f \in DOMAIN InputFields : z[f] = y[f]
    BY <1>1, <2>1, NoWord DEF InputSaid, InputTaken, InputFields, Kept, Words
  <2>4. z = y
    BY <1>1, <1>2, <2>3 DEF Shaped
  <2>5. QED
    BY <1>2, <1>7, <2>2, <2>4 DEF Settles, Formed
<1>8. QED
  BY <1>1, <1>2, <1>5, <1>6, <1>7 DEF Agrees, Settles, Formed, Misread, IsList,
     InputFields

\* Video: what toXML() writes, and what fromXML() takes of it.
VideoSaid(d, x) ==
  /\ \A f \in DOMAIN VideoFields : x[f] = d[f]
VideoTaken(e, x, r) ==
  /\ r.accel3D = e.accel3D
  /\ \A f \in DOMAIN VideoFields \ {"accel3D"} : r[f] = Kept(e, x, f)

LEMMA VideoHalves ==
  ASSUME NEW d, NEW x, Shaped("Video", d)
  PROVE  /\ Shaped("Video", Says("Video", d)) /\ VideoSaid(d, Says("Video", d))
         /\ Shaped("Video", ReadInto("Video", d, x))
         /\ VideoTaken(d, x, ReadInto("Video", d, x))
<1>1. /\ Says("Video", d) = VideoXml(d) /\ ReadInto("Video", d, x) = VideoRead(d, x)
      /\ Fields["Video"] = VideoFields
  BY DEF Says, ReadInto, Fields
<1>2. Shaped("Video", VideoXml(d)) /\ VideoSaid(d, VideoXml(d))
  BY <1>1 DEF VideoSaid, VideoXml, VideoFields, AsSet, Shaped
<1> DEFINE m == Merged(d, x)
<1>3. /\ DOMAIN m = DOMAIN VideoFields /\ m = [f \in DOMAIN VideoFields |-> m[f]]
      /\ \A f \in DOMAIN VideoFields : m[f] = Kept(d, x, f)
  BY <1>1, MergedIs DEF Shaped
<1> HIDE DEF m
<1>4. Shaped("Video", VideoRead(d, x)) /\ VideoTaken(d, x, VideoRead(d, x))
  BY <1>1, <1>3 DEF VideoTaken, VideoRead, VideoFields, Shaped, m
<1>5. QED
  BY <1>1, <1>2, <1>4

LEMMA VideoCopies ==
  ASSUME NEW d, NEW e, NEW x, NEW r, NEW y, NEW q, NEW z,
         Rounds("Video", d, e, x, r, y, q, z)
  PROVE  Agrees("Video", x, r, y) /\ Settles("Video", e, x, r, y, q, z)
<1>1. /\ VideoSaid(d, x) /\ VideoTaken(e, x, r) /\ VideoSaid(r, y)
      /\ VideoTaken(e, y, q) /\ VideoSaid(q, z)
      /\ Shaped("Video", x) /\ Shaped("Video", r) /\ Shaped("Video", y)
      /\ Shaped("Video", q) /\ Shaped("Video", z)
      /\ e = New["Video"] => VideoSaid(e, Says("Video", New["Video"]))
  BY VideoHalves DEF Rounds, Held
<1>2. /\ Fields["Video"] = VideoFields /\ "Video" \in Classes
      /\ Held("Video", d) /\ Held("Video", e)
  BY DEF Fields, Rounds, Classes
<1>3. \A f \in DOMAIN VideoFields : r[f] \in {d[f], e[f]}
  BY <1>1, NoWord DEF VideoSaid, VideoTaken, VideoFields, Kept
<1>4. Held("Video", r)
  BY <1>1, <1>2, <1>3 DEF Held, VideoFields
<1>5. \A f \in DOMAIN VideoFields \ {"accel3D"} : x[f] # None => y[f] = x[f]
  BY <1>1, NoWord DEF VideoSaid, VideoTaken, VideoFields, Kept, Words
<1>6. ASSUME e = New["Video"] PROVE Settles("Video", e, x, r, y, q, z)
  <2>1. e.model = "first" /\ e.vram = "16384" /\ e.heads = None /\ e.accel3D = "2d"
    BY <1>2, <1>6 DEF New, Initial, VideoFields, Text, Enum, Flag, Raised, Number,
       Addresses, Timers
  <2>2. \A f \in DOMAIN VideoFields : y[f] \in {x[f], Says("Video", New["Video"])[f]}
    BY <1>1, <1>6, <2>1, NoWord DEF VideoSaid, VideoTaken, VideoFields, Kept, Words
  <2>3. \A f \in DOMAIN VideoFields : z[f] = y[f]
    BY <1>1, <2>1, NoWord DEF VideoSaid, VideoTaken, VideoFields, Kept, Words
  <2>4. z = y
    BY <1>1, <1>2, <2>3 DEF Shaped
  <2>5. QED
    BY <1>2, <1>6, <2>2, <2>4 DEF Settles, Formed
<1>7. QED
  BY <1>1, <1>2, <1>4, <1>5, <1>6 DEF Agrees, Settles, Formed, Misread, IsList,
     VideoFields

\* Graphics: what toXML() writes, and what fromXML() takes of it.
GraphicsSaid(d, x) ==
  /\ x.port = If(d.autoPort = None, d.port)
  /\ x.listenAddress = If(d.listenType # None, d.listenAddress)
  /\ x.passwordEnabled = If(d.password # None, d.passwordEnabled)
  /\ x.password = If(d.passwordEnabled # None, d.password)
  /\ x.tlsPortEnabled = If(d.type = "SPICE" /\ d.tlsPort # None, d.tlsPortEnabled)
  /\ x.tlsPort = If(d.type = "SPICE" /\ d.tlsPortEnabled # None, d.tlsPort)
  /\ \A f \in DOMAIN GraphicsFields \ {"port", "listenAddress", "passwordEnabled",
                                       "password", "tlsPortEnabled", "tlsPort"} :
       x[f] = d[f]
GraphicsTaken(e, x, r) ==
  /\ r.listenAddress = (IF x.listenType = None THEN Kept(e, x, "listenAddress")
                        ELSE x.listenAddress)
  /\ r.keyMap = "en-us"
  /\ r.tlsPortEnabled = e.tlsPortEnabled
  /\ r.tlsPort = e.tlsPort
  /\ \A f \in DOMAIN GraphicsFields \ {"listenAddress", "keyMap", "tlsPortEnabled",
                                       "tlsPort"} :
       r[f] = Kept(e, x, f)

LEMMA GraphicsHalves ==
  ASSUME NEW d, NEW x, Shaped("Graphics", d)
  PROVE  /\ Shaped("Graphics", Says("Graphics", d))
         /\ GraphicsSaid(d, Says("Graphics", d))
         /\ Shaped("Graphics", ReadInto("Graphics", d, x))
         /\ GraphicsTaken(d, x, ReadInto("Graphics", d, x))
<1>1. /\ Says("Graphics", d) = GraphicsXml(d)
      /\ ReadInto("Graphics", d, x) = GraphicsRead(d, x)
      /\ Fields["Graphics"] = GraphicsFields
  BY DEF Says, ReadInto, Fields
<1>2. Shaped("Graphics", GraphicsXml(d)) /\ GraphicsSaid(d, GraphicsXml(d))
  <2>1. Shaped("Graphics", GraphicsXml(d))
    BY <1>1 DEF GraphicsXml, AsSet, Shaped
  <2>2. GraphicsSaid(d, GraphicsXml(d))
    BY <1>1 DEF GraphicsSaid, GraphicsXml, GraphicsFields, AsSet, Shaped
  <2>3. QED
    BY <2>1, <2>2
<1> DEFINE m == Merged(d, x)
<1>3. /\ DOMAIN m = DOMAIN GraphicsFields /\ m = [f \in DOMAIN GraphicsFields |-> m[f]]
      /\ \A f \in DOMAIN GraphicsFields : m[f] = Kept(d, x, f)
  BY <1>1, MergedIs DEF Shaped
<1> HIDE DEF m
<1>4. Shaped("Graphics", GraphicsRead(d, x)) /\ GraphicsTaken(d, x, GraphicsRead(d, x))
  BY <1>1, <1>3 DEF GraphicsTaken, GraphicsRead, GraphicsFields, Shaped, m
<1>5. QED
  BY <1>1, <1>2, <1>4

LEMMA GraphicsCopies ==
  ASSUME NEW d, NEW e, NEW x, NEW r, NEW y, NEW q, NEW z,
         Rounds("Graphics", d, e, x, r, y, q, z)
  PROVE  Agrees("Graphics", x, r, y) /\ Settles("Graphics", e, x, r, y, q, z)
<1>1. /\ GraphicsSaid(d, x) /\ GraphicsTaken(e, x, r) /\ GraphicsSaid(r, y)
      /\ GraphicsTaken(e, y, q) /\ GraphicsSaid(q, z)
      /\ Shaped("Graphics", x) /\ Shaped("Graphics", r) /\ Shaped("Graphics", y)
      /\ Shaped("Graphics", q) /\ Shaped("Graphics", z)
      /\ e = New["Graphics"] => GraphicsSaid(e, Says("Graphics", New["Graphics"]))
  BY GraphicsHalves DEF Rounds, Held
<1>2. /\ Fields["Graphics"] = GraphicsFields /\ "Graphics" \in Classes
      /\ Held("Graphics", d) /\ Held("Graphics", e)
  BY DEF Fields, Rounds, Classes
<1>3. \A f \in DOMAIN GraphicsFields :
        \/ r[f] \in {d[f], e[f]}
        \/ f = "keyMap" /\ r[f] = "en-us"
  BY <1>1, NoWord DEF GraphicsSaid, GraphicsTaken, GraphicsFields, Kept, If
<1>4. Offered("Graphics", "keyMap", "en-us")
  BY <1>2 DEF Offered, IsList, GraphicsFields, Text, Free, Flag, Raised, Number, Addresses,
     Timers
<1>5. Held("Graphics", r)
  BY <1>1, <1>2, <1>3, <1>4 DEF Held, GraphicsFields
<1>6. \A f \in DOMAIN GraphicsFields \ {"port", "keyMap", "tlsPort", "tlsPortEnabled"} :
        x[f] # None => y[f] = x[f]
  BY <1>1, NoWord DEF GraphicsSaid, GraphicsTaken, GraphicsFields, Kept, If, Words
<1>7. ASSUME e = New["Graphics"] PROVE Settles("Graphics", e, x, r, y, q, z)
  <2>1. e.type = "SPICE" /\ e.port = None /\ e.autoPort = "yes" /\
        e.listenAddress = "0.0.0.0" /\ e.listenType = "Address" /\ e.keyMap = "en-us" /\
        e.passwordEnabled = None /\ e.password = None /\ e.tlsPortEnabled = None /\
        e.tlsPort = None
    BY <1>2, <1>7 DEF New, Initial, GraphicsFields, Text, Free, Enum, Flag, Raised, Number,
       Addresses, Timers
  <2>2. \A f \in DOMAIN GraphicsFields :
          y[f] \in {x[f], Says("Graphics", New["Graphics"])[f]}
    BY <1>1, <1>7, <2>1, NoWord DEF GraphicsSaid, GraphicsTaken, GraphicsFields, Kept,
       If, Words
  <2>3. \A f \in DOMAIN GraphicsFields : z[f] = y[f]
    BY <1>1, <2>1, NoWord DEF GraphicsSaid, GraphicsTaken, GraphicsFields, Kept, If, Words
  <2>4. z = y
    BY <1>1, <1>2, <2>3 DEF Shaped
  <2>5. QED
    BY <1>2, <1>7, <2>2, <2>4 DEF Settles, Formed
<1>8. QED
  BY <1>1, <1>2, <1>5, <1>6, <1>7 DEF Agrees, Settles, Formed, Misread, IsList,
     GraphicsFields

\* Channel: what toXML() writes, and what fromXML() takes of it.
ChannelSaid(d, x) ==
  /\ x.type = "Unix"
  /\ x.sourceMode = If(d.sourcePath # None, d.sourceMode)
  /\ \A f \in DOMAIN ChannelFields \ {"type", "sourceMode"} : x[f] = d[f]
ChannelTaken(e, x, r) ==
  /\ \A f \in DOMAIN ChannelFields : r[f] = Kept(e, x, f)

LEMMA ChannelHalves ==
  ASSUME NEW d, NEW x, Shaped("Channel", d)
  PROVE  /\ Shaped("Channel", Says("Channel", d)) /\ ChannelSaid(d, Says("Channel", d))
         /\ Shaped("Channel", ReadInto("Channel", d, x))
         /\ ChannelTaken(d, x, ReadInto("Channel", d, x))
<1>1. /\ Says("Channel", d) = ChannelXml(d)
      /\ ReadInto("Channel", d, x) = ChannelRead(d, x)
      /\ Fields["Channel"] = ChannelFields
  BY DEF Says, ReadInto, Fields
<1>2. Shaped("Channel", ChannelXml(d)) /\ ChannelSaid(d, ChannelXml(d))
  BY <1>1 DEF ChannelSaid, ChannelXml, ChannelFields, AsSet, Shaped
<1> DEFINE m == Merged(d, x)
<1>3. /\ DOMAIN m = DOMAIN ChannelFields /\ m = [f \in DOMAIN ChannelFields |-> m[f]]
      /\ \A f \in DOMAIN ChannelFields : m[f] = Kept(d, x, f)
  BY <1>1, MergedIs DEF Shaped
<1> HIDE DEF m
<1>4. Shaped("Channel", ChannelRead(d, x)) /\ ChannelTaken(d, x, ChannelRead(d, x))
  BY <1>1, <1>3 DEF ChannelTaken, ChannelRead, ChannelFields, Shaped, m
<1>5. QED
  BY <1>1, <1>2, <1>4

LEMMA ChannelCopies ==
  ASSUME NEW d, NEW e, NEW x, NEW r, NEW y, NEW q, NEW z,
         Rounds("Channel", d, e, x, r, y, q, z)
  PROVE  Agrees("Channel", x, r, y) /\ Settles("Channel", e, x, r, y, q, z)
<1>1. /\ ChannelSaid(d, x) /\ ChannelTaken(e, x, r) /\ ChannelSaid(r, y)
      /\ ChannelTaken(e, y, q) /\ ChannelSaid(q, z)
      /\ Shaped("Channel", x) /\ Shaped("Channel", r) /\ Shaped("Channel", y)
      /\ Shaped("Channel", q) /\ Shaped("Channel", z)
      /\ e = New["Channel"] => ChannelSaid(e, Says("Channel", New["Channel"]))
  BY ChannelHalves DEF Rounds, Held
<1>2. /\ Fields["Channel"] = ChannelFields /\ "Channel" \in Classes
      /\ Held("Channel", d) /\ Held("Channel", e)
  BY DEF Fields, Rounds, Classes
<1>3. \A f \in DOMAIN ChannelFields :
        \/ r[f] \in {d[f], e[f]}
        \/ f = "type" /\ r[f] = "Unix"
  BY <1>1, NoWord DEF ChannelSaid, ChannelTaken, ChannelFields, Kept, If
<1>4. Offered("Channel", "type", "Unix")
  BY <1>2 DEF Offered, IsList, ChannelFields, Text, Flag, Raised, Number, Addresses,
     Timers
<1>5. Held("Channel", r)
  BY <1>1, <1>2, <1>3, <1>4 DEF Held, ChannelFields
<1>6. d.sourceMode \in {"first", "other"} /\ e.sourceMode \in {"first", "other"}
  BY <1>2 DEF Held, Offered, IsList, ChannelFields, Raised, Text, Number, Enum, Flag
<1>7. \A f \in DOMAIN ChannelFields : x[f] # None => y[f] = x[f]
  BY <1>1, <1>6, NoWord DEF ChannelSaid, ChannelTaken, ChannelFields, Kept, If, Words
<1>8. ASSUME e = New["Channel"] PROVE Settles("Channel", e, x, r, y, q, z)
  <2>1. e.type = "VirtioSerial" /\ e.targetType = "first" /\ e.targetName = "first" /\
        e.sourceMode = "first" /\ e.sourcePath = None /\ e.address = None
    BY <1>2, <1>8 DEF New, Initial, ChannelFields, Text, Enum, Flag, Raised, Number,
       Addresses, Timers
  <2>2. \A f \in DOMAIN ChannelFields :
          y[f] \in {x[f], Says("Channel", New["Channel"])[f]}
    BY <1>1, <1>8, <2>1, <1>6, NoWord DEF ChannelSaid, ChannelTaken, ChannelFields,
       Kept, If, Words
  <2>3. \A f \in DOMAIN ChannelFields : z[f] = y[f]
    BY <1>1, <2>1, <1>6, NoWord DEF ChannelSaid, ChannelTaken, ChannelFields, Kept, If,
       Words
  <2>4. z = y
    BY <1>1, <1>2, <2>3 DEF Shaped
  <2>5. QED
    BY <1>2, <1>8, <2>2, <2>4 DEF Settles, Formed
<1>9. QED
  BY <1>1, <1>2, <1>5, <1>7, <1>8 DEF Agrees, Settles, Formed, Misread, IsList,
     ChannelFields

\* IOMMU: what toXML() writes, and what fromXML() takes of it.
IOMMUSaid(d, x) ==
  /\ x.interruptRemapping = If(d.model \in {"Intel", "AMD"}, d.interruptRemapping)
  /\ x.cachingMode = If(d.model = "Intel", d.cachingMode)
  /\ x.awBits = If(d.model = "Intel", d.awBits)
  /\ x.address = Address(d.address, {"pci", "ccw"})
  /\ \A f \in DOMAIN IOMMUFields \ {"interruptRemapping", "cachingMode", "awBits",
                                    "address"} :
       x[f] = d[f]
IOMMUTaken(e, x, r) ==
  /\ r.interruptRemapping = (IF x.model \in {"Intel", "AMD"} THEN "yes"
                             ELSE e.interruptRemapping)
  /\ r.cachingMode = (IF x.model = "Intel" THEN x.cachingMode ELSE e.cachingMode)
  /\ r.awBits = (IF x.model = "Intel" THEN x.awBits ELSE e.awBits)
  /\ \A f \in DOMAIN IOMMUFields \ {"interruptRemapping", "cachingMode", "awBits"} :
       r[f] = Kept(e, x, f)

LEMMA IOMMUHalves ==
  ASSUME NEW d, NEW x, Shaped("IOMMU", d)
  PROVE  /\ Shaped("IOMMU", Says("IOMMU", d)) /\ IOMMUSaid(d, Says("IOMMU", d))
         /\ Shaped("IOMMU", ReadInto("IOMMU", d, x))
         /\ IOMMUTaken(d, x, ReadInto("IOMMU", d, x))
<1>1. /\ Says("IOMMU", d) = IOMMUXml(d) /\ ReadInto("IOMMU", d, x) = IOMMURead(d, x)
      /\ Fields["IOMMU"] = IOMMUFields
  BY DEF Says, ReadInto, Fields
<1>2. Shaped("IOMMU", IOMMUXml(d)) /\ IOMMUSaid(d, IOMMUXml(d))
  BY <1>1 DEF IOMMUSaid, IOMMUXml, IOMMUFields, AsSet, Shaped
<1> DEFINE m == Merged(d, x)
<1>3. /\ DOMAIN m = DOMAIN IOMMUFields /\ m = [f \in DOMAIN IOMMUFields |-> m[f]]
      /\ \A f \in DOMAIN IOMMUFields : m[f] = Kept(d, x, f)
  BY <1>1, MergedIs DEF Shaped
<1> HIDE DEF m
<1>4. Shaped("IOMMU", IOMMURead(d, x)) /\ IOMMUTaken(d, x, IOMMURead(d, x))
  BY <1>1, <1>3 DEF IOMMUTaken, IOMMURead, IOMMUFields, Shaped, m
<1>5. QED
  BY <1>1, <1>2, <1>4

LEMMA IOMMUCopies ==
  ASSUME NEW d, NEW e, NEW x, NEW r, NEW y, NEW q, NEW z,
         Rounds("IOMMU", d, e, x, r, y, q, z)
  PROVE  Agrees("IOMMU", x, r, y) /\ Settles("IOMMU", e, x, r, y, q, z)
<1>1. /\ IOMMUSaid(d, x) /\ IOMMUTaken(e, x, r) /\ IOMMUSaid(r, y)
      /\ IOMMUTaken(e, y, q) /\ IOMMUSaid(q, z)
      /\ Shaped("IOMMU", x) /\ Shaped("IOMMU", r) /\ Shaped("IOMMU", y)
      /\ Shaped("IOMMU", q) /\ Shaped("IOMMU", z)
      /\ e = New["IOMMU"] => IOMMUSaid(e, Says("IOMMU", New["IOMMU"]))
  BY IOMMUHalves DEF Rounds, Held
<1>2. /\ Fields["IOMMU"] = IOMMUFields /\ "IOMMU" \in Classes
      /\ Held("IOMMU", d) /\ Held("IOMMU", e)
  BY DEF Fields, Rounds, Classes
<1>3. \A f \in DOMAIN IOMMUFields :
        \/ r[f] \in {d[f], e[f]}
        \/ f = "interruptRemapping" /\ r[f] = "yes"
  BY <1>1, NoWord DEF IOMMUSaid, IOMMUTaken, IOMMUFields, Kept, If, Address
<1>4. Offered("IOMMU", "interruptRemapping", "yes")
  BY <1>2 DEF Offered, IsList, IOMMUFields, Text, Flag, Raised, Number, Addresses, Timers
<1>5. Held("IOMMU", r)
  BY <1>1, <1>2, <1>3, <1>4 DEF Held, IOMMUFields
<1>6. /\ d.interruptRemapping \in {"yes", None}
      /\ e.interruptRemapping \in {"yes", None}
      /\ d.model \in {"Intel", "AMD", "SMMUV3"}
      /\ e.model \in {"Intel", "AMD", "SMMUV3"}
  BY <1>2 DEF Held, Offered, IsList, IOMMUFields, Raised, Text, Number, Enum, Flag
<1>7. \A f \in DOMAIN IOMMUFields : x[f] # None => y[f] = x[f]
  BY <1>1, <1>6, NoWord DEF IOMMUSaid, IOMMUTaken, IOMMUFields, Kept, If, Address, Words
<1>8. ASSUME e = New["IOMMU"] PROVE Settles("IOMMU", e, x, r, y, q, z)
  <2>1. e.model = "Intel" /\ e.interruptRemapping = "yes" /\ e.cachingMode = None /\
        e.awBits = None /\ e.address = None /\ e.alias = None
    BY <1>2, <1>8 DEF New, Initial, IOMMUFields, Text, Enum, Flag, Raised, Number,
       Addresses, Timers
  <2>2. \A f \in DOMAIN IOMMUFields : y[f] \in {x[f], Says("IOMMU", New["IOMMU"])[f]}
    BY <1>1, <1>8, <2>1, <1>6, NoWord DEF IOMMUSaid, IOMMUTaken, IOMMUFields, Kept, If,
       Address, Words
  <2>3. \A f \in DOMAIN IOMMUFields : z[f] = y[f]
    BY <1>1, <2>1, <1>6, NoWord DEF IOMMUSaid, IOMMUTaken, IOMMUFields, Kept, If,
       Address, Words
  <2>4. z = y
    BY <1>1, <1>2, <2>3 DEF Shaped
  <2>5. QED
    BY <1>2, <1>8, <2>2, <2>4 DEF Settles, Formed
<1>9. QED
  BY <1>1, <1>2, <1>5, <1>7, <1>8 DEF Agrees, Settles, Formed, Misread, IsList,
     IOMMUFields

\* Panic: what toXML() writes, and what fromXML() takes of it.
PanicSaid(d, x) ==
  /\ x.mmioSize = If(d.mmioAddress # None, d.mmioSize)
  /\ x.address = Address(d.address, {"pci", "ccw"})
  /\ \A f \in DOMAIN PanicFields \ {"mmioSize", "address"} : x[f] = d[f]
PanicTaken(e, x, r) ==
  /\ r.mmioSize = (IF x.mmioAddress # None THEN x.mmioSize ELSE e.mmioSize)
  /\ \A f \in DOMAIN PanicFields \ {"mmioSize"} : r[f] = Kept(e, x, f)

LEMMA PanicHalves ==
  ASSUME NEW d, NEW x, Shaped("Panic", d)
  PROVE  /\ Shaped("Panic", Says("Panic", d)) /\ PanicSaid(d, Says("Panic", d))
         /\ Shaped("Panic", ReadInto("Panic", d, x))
         /\ PanicTaken(d, x, ReadInto("Panic", d, x))
<1>1. /\ Says("Panic", d) = PanicXml(d) /\ ReadInto("Panic", d, x) = PanicRead(d, x)
      /\ Fields["Panic"] = PanicFields
  BY DEF Says, ReadInto, Fields
<1>2. Shaped("Panic", PanicXml(d)) /\ PanicSaid(d, PanicXml(d))
  BY <1>1 DEF PanicSaid, PanicXml, PanicFields, AsSet, Shaped
<1> DEFINE m == Merged(d, x)
<1>3. /\ DOMAIN m = DOMAIN PanicFields /\ m = [f \in DOMAIN PanicFields |-> m[f]]
      /\ \A f \in DOMAIN PanicFields : m[f] = Kept(d, x, f)
  BY <1>1, MergedIs DEF Shaped
<1> HIDE DEF m
<1>4. Shaped("Panic", PanicRead(d, x)) /\ PanicTaken(d, x, PanicRead(d, x))
  BY <1>1, <1>3 DEF PanicTaken, PanicRead, PanicFields, Shaped, m
<1>5. QED
  BY <1>1, <1>2, <1>4

LEMMA PanicCopies ==
  ASSUME NEW d, NEW e, NEW x, NEW r, NEW y, NEW q, NEW z,
         Rounds("Panic", d, e, x, r, y, q, z)
  PROVE  Agrees("Panic", x, r, y) /\ Settles("Panic", e, x, r, y, q, z)
<1>1. /\ PanicSaid(d, x) /\ PanicTaken(e, x, r) /\ PanicSaid(r, y)
      /\ PanicTaken(e, y, q) /\ PanicSaid(q, z)
      /\ Shaped("Panic", x) /\ Shaped("Panic", r) /\ Shaped("Panic", y)
      /\ Shaped("Panic", q) /\ Shaped("Panic", z)
      /\ e = New["Panic"] => PanicSaid(e, Says("Panic", New["Panic"]))
  BY PanicHalves DEF Rounds, Held
<1>2. /\ Fields["Panic"] = PanicFields /\ "Panic" \in Classes
      /\ Held("Panic", d) /\ Held("Panic", e)
  BY DEF Fields, Rounds, Classes
<1>3. \A f \in DOMAIN PanicFields : r[f] \in {d[f], e[f]}
  BY <1>1, NoWord DEF PanicSaid, PanicTaken, PanicFields, Kept, If, Address
<1>4. Held("Panic", r)
  BY <1>1, <1>2, <1>3 DEF Held, PanicFields
<1>5. \A f \in DOMAIN PanicFields : x[f] # None => y[f] = x[f]
  BY <1>1, NoWord DEF PanicSaid, PanicTaken, PanicFields, Kept, If, Address, Words
<1>6. ASSUME e = New["Panic"] PROVE Settles("Panic", e, x, r, y, q, z)
  <2>1. e.model = "first" /\ e.ioPort = None /\ e.mmioAddress = None /\
        e.mmioSize = None /\ e.address = None /\ e.alias = None
    BY <1>2, <1>6 DEF New, Initial, PanicFields, Text, Enum, Flag, Raised, Number,
       Addresses, Timers
  <2>2. \A f \in DOMAIN PanicFields : y[f] \in {x[f], Says("Panic", New["Panic"])[f]}
    BY <1>1, <1>6, <2>1, NoWord DEF PanicSaid, PanicTaken, PanicFields, Kept, If,
       Address, Words
  <2>3. \A f \in DOMAIN PanicFields : z[f] = y[f]
    BY <1>1, <2>1, NoWord DEF PanicSaid, PanicTaken, PanicFields, Kept, If, Address, Words
  <2>4. z = y
    BY <1>1, <1>2, <2>3 DEF Shaped
  <2>5. QED
    BY <1>2, <1>6, <2>2, <2>4 DEF Settles, Formed
<1>7. QED
  BY <1>1, <1>2, <1>4, <1>5, <1>6 DEF Agrees, Settles, Formed, Misread, IsList,
     PanicFields

\* Parallel: what toXML() writes, and what fromXML() takes of it.
ParallelSaid(d, x) ==
  /\ x.sourcePath = If(d.type # "PTY", d.sourcePath)
  /\ x.address = Address(d.address, {"isa"})
  /\ \A f \in DOMAIN ParallelFields \ {"sourcePath", "address"} : x[f] = d[f]
ParallelTaken(e, x, r) ==
  /\ r.sourcePath = x.sourcePath
  /\ \A f \in DOMAIN ParallelFields \ {"sourcePath"} : r[f] = Kept(e, x, f)

LEMMA ParallelHalves ==
  ASSUME NEW d, NEW x, Shaped("Parallel", d)
  PROVE  /\ Shaped("Parallel", Says("Parallel", d))
         /\ ParallelSaid(d, Says("Parallel", d))
         /\ Shaped("Parallel", ReadInto("Parallel", d, x))
         /\ ParallelTaken(d, x, ReadInto("Parallel", d, x))
<1>1. /\ Says("Parallel", d) = ParallelXml(d)
      /\ ReadInto("Parallel", d, x) = ParallelRead(d, x)
      /\ Fields["Parallel"] = ParallelFields
  BY DEF Says, ReadInto, Fields
<1>2. Shaped("Parallel", ParallelXml(d)) /\ ParallelSaid(d, ParallelXml(d))
  BY <1>1 DEF ParallelSaid, ParallelXml, ParallelFields, AsSet, Shaped
<1> DEFINE m == Merged(d, x)
<1>3. /\ DOMAIN m = DOMAIN ParallelFields /\ m = [f \in DOMAIN ParallelFields |-> m[f]]
      /\ \A f \in DOMAIN ParallelFields : m[f] = Kept(d, x, f)
  BY <1>1, MergedIs DEF Shaped
<1> HIDE DEF m
<1>4. Shaped("Parallel", ParallelRead(d, x)) /\ ParallelTaken(d, x, ParallelRead(d, x))
  BY <1>1, <1>3 DEF ParallelTaken, ParallelRead, ParallelFields, Shaped, m
<1>5. QED
  BY <1>1, <1>2, <1>4

LEMMA ParallelCopies ==
  ASSUME NEW d, NEW e, NEW x, NEW r, NEW y, NEW q, NEW z,
         Rounds("Parallel", d, e, x, r, y, q, z)
  PROVE  Agrees("Parallel", x, r, y) /\ Settles("Parallel", e, x, r, y, q, z)
<1>1. /\ ParallelSaid(d, x) /\ ParallelTaken(e, x, r) /\ ParallelSaid(r, y)
      /\ ParallelTaken(e, y, q) /\ ParallelSaid(q, z)
      /\ Shaped("Parallel", x) /\ Shaped("Parallel", r) /\ Shaped("Parallel", y)
      /\ Shaped("Parallel", q) /\ Shaped("Parallel", z)
      /\ e = New["Parallel"] => ParallelSaid(e, Says("Parallel", New["Parallel"]))
  BY ParallelHalves DEF Rounds, Held
<1>2. /\ Fields["Parallel"] = ParallelFields /\ "Parallel" \in Classes
      /\ Held("Parallel", d) /\ Held("Parallel", e)
  BY DEF Fields, Rounds, Classes
<1>3. \A f \in DOMAIN ParallelFields :
        \/ r[f] \in {d[f], e[f]}
        \/ f = "sourcePath" /\ r[f] = None
  BY <1>1, NoWord DEF ParallelSaid, ParallelTaken, ParallelFields, Kept, If, Address
<1>4. Offered("Parallel", "sourcePath", None)
  BY <1>2 DEF Offered, IsList, ParallelFields, Text, Flag, Raised, Number, Addresses,
     Timers
<1>5. Held("Parallel", r)
  BY <1>1, <1>2, <1>3, <1>4 DEF Held, ParallelFields
<1>6. d.type \in {"PTY", "Dev"} /\ e.type \in {"PTY", "Dev"}
  BY <1>2 DEF Held, Offered, IsList, ParallelFields, Raised, Text, Number, Enum, Flag
<1>7. \A f \in DOMAIN ParallelFields : x[f] # None => y[f] = x[f]
  BY <1>1, <1>6, NoWord DEF ParallelSaid, ParallelTaken, ParallelFields, Kept, If,
     Address, Words
<1>8. ASSUME e = New["Parallel"] PROVE Settles("Parallel", e, x, r, y, q, z)
  <2>1. e.type = "PTY" /\ e.sourcePath = None /\ e.port = "zero" /\ e.address = None /\
        e.alias = None
    BY <1>2, <1>8 DEF New, Initial, ParallelFields, Text, Enum, Flag, Raised, Number,
       Addresses, Timers
  <2>2. \A f \in DOMAIN ParallelFields :
          y[f] \in {x[f], Says("Parallel", New["Parallel"])[f]}
    BY <1>1, <1>8, <2>1, <1>6, NoWord DEF ParallelSaid, ParallelTaken, ParallelFields,
       Kept, If, Address, Words
  <2>3. \A f \in DOMAIN ParallelFields : z[f] = y[f]
    BY <1>1, <2>1, <1>6, NoWord DEF ParallelSaid, ParallelTaken, ParallelFields, Kept,
       If, Address, Words
  <2>4. z = y
    BY <1>1, <1>2, <2>3 DEF Shaped
  <2>5. QED
    BY <1>2, <1>8, <2>2, <2>4 DEF Settles, Formed
<1>9. QED
  BY <1>1, <1>2, <1>5, <1>7, <1>8 DEF Agrees, Settles, Formed, Misread, IsList,
     ParallelFields

\* Serial: what toXML() writes, and what fromXML() takes of it.
SerialSaid(d, x) ==
  /\ x.sourcePath = If(d.type = "File", d.sourcePath)
  /\ x.sourceHost = If(d.type = "TCP", d.sourceHost)
  /\ x.sourceService = If(d.type = "TCP", d.sourceService)
  /\ x.targetPort = None
  /\ x.address = Address(d.address, {"pci", "isa"})
  /\ \A f \in DOMAIN SerialFields \ {"sourcePath", "sourceHost", "sourceService",
                                     "targetPort", "address"} :
       x[f] = d[f]
SerialTaken(e, x, r) ==
  /\ r.sourcePath = (IF x.type # "Nmdm" THEN x.sourcePath ELSE e.sourcePath)
  /\ r.sourceHost = (IF x.type # "Nmdm" THEN x.sourceHost ELSE e.sourceHost)
  /\ r.sourceService = (IF x.type # "Nmdm" THEN x.sourceService ELSE e.sourceService)
  /\ r.targetName = x.targetName
  /\ \A f \in DOMAIN SerialFields \ {"sourcePath", "sourceHost", "sourceService",
                                     "targetName"} :
       r[f] = Kept(e, x, f)

LEMMA SerialHalves ==
  ASSUME NEW d, NEW x, Shaped("Serial", d)
  PROVE  /\ Shaped("Serial", Says("Serial", d)) /\ SerialSaid(d, Says("Serial", d))
         /\ Shaped("Serial", ReadInto("Serial", d, x))
         /\ SerialTaken(d, x, ReadInto("Serial", d, x))
<1>1. /\ Says("Serial", d) = SerialXml(d) /\ ReadInto("Serial", d, x) = SerialRead(d, x)
      /\ Fields["Serial"] = SerialFields
  BY DEF Says, ReadInto, Fields
<1>2. Shaped("Serial", SerialXml(d)) /\ SerialSaid(d, SerialXml(d))
  BY <1>1 DEF SerialSaid, SerialXml, SerialFields, AsSet, Shaped
<1> DEFINE m == Merged(d, x)
<1>3. /\ DOMAIN m = DOMAIN SerialFields /\ m = [f \in DOMAIN SerialFields |-> m[f]]
      /\ \A f \in DOMAIN SerialFields : m[f] = Kept(d, x, f)
  BY <1>1, MergedIs DEF Shaped
<1> HIDE DEF m
<1>4. Shaped("Serial", SerialRead(d, x)) /\ SerialTaken(d, x, SerialRead(d, x))
  BY <1>1, <1>3 DEF SerialTaken, SerialRead, SerialFields, Shaped, m
<1>5. QED
  BY <1>1, <1>2, <1>4

LEMMA SerialCopies ==
  ASSUME NEW d, NEW e, NEW x, NEW r, NEW y, NEW q, NEW z,
         Rounds("Serial", d, e, x, r, y, q, z)
  PROVE  Agrees("Serial", x, r, y) /\ Settles("Serial", e, x, r, y, q, z)
<1>1. /\ SerialSaid(d, x) /\ SerialTaken(e, x, r) /\ SerialSaid(r, y)
      /\ SerialTaken(e, y, q) /\ SerialSaid(q, z)
      /\ Shaped("Serial", x) /\ Shaped("Serial", r) /\ Shaped("Serial", y)
      /\ Shaped("Serial", q) /\ Shaped("Serial", z)
      /\ e = New["Serial"] => SerialSaid(e, Says("Serial", New["Serial"]))
  BY SerialHalves DEF Rounds, Held
<1>2. /\ Fields["Serial"] = SerialFields /\ "Serial" \in Classes
      /\ Held("Serial", d) /\ Held("Serial", e)
  BY DEF Fields, Rounds, Classes
<1>3. \A f \in DOMAIN SerialFields :
        \/ r[f] \in {d[f], e[f]}
        \/ f \in {"sourcePath", "sourceHost", "sourceService"} /\ r[f] = None
  BY <1>1, NoWord DEF SerialSaid, SerialTaken, SerialFields, Kept, If, Address
<1>4. \A f \in {"sourcePath", "sourceHost", "sourceService"} : Offered("Serial", f, None)
  BY <1>2 DEF Offered, IsList, SerialFields, Text, Flag, Raised, Number, Addresses, Timers
<1>5. Held("Serial", r)
  BY <1>1, <1>2, <1>3, <1>4 DEF Held, SerialFields
<1>6. \A f \in DOMAIN SerialFields : x[f] # None => y[f] = x[f]
  BY <1>1, NoWord DEF SerialSaid, SerialTaken, SerialFields, Kept, If, Address, Words
<1>7. ASSUME e = New["Serial"] PROVE Settles("Serial", e, x, r, y, q, z)
  <2>1. e.type = "PTY" /\ e.sourcePath = None /\ e.sourceHost = None /\
        e.sourceService = None /\ e.port = "zero" /\ e.targetPort = None /\
        e.targetName = None /\ e.address = None /\ e.alias = None
    BY <1>2, <1>7 DEF New, Initial, SerialFields, Text, Enum, Flag, Raised, Number,
       Addresses, Timers
  <2>2. \A f \in DOMAIN SerialFields : y[f] \in {x[f], Says("Serial", New["Serial"])[f]}
    BY <1>1, <1>7, <2>1, NoWord DEF SerialSaid, SerialTaken, SerialFields, Kept, If,
       Address, Words
  <2>3. \A f \in DOMAIN SerialFields : z[f] = y[f]
    BY <1>1, <2>1, NoWord DEF SerialSaid, SerialTaken, SerialFields, Kept, If, Address,
       Words
  <2>4. z = y
    BY <1>1, <1>2, <2>3 DEF Shaped
  <2>5. QED
    BY <1>2, <1>7, <2>2, <2>4 DEF Settles, Formed
<1>8. QED
  BY <1>1, <1>2, <1>5, <1>6, <1>7 DEF Agrees, Settles, Formed, Misread, IsList,
     SerialFields

\* USBRedir: what toXML() writes, and what fromXML() takes of it.
USBRedirSaid(d, x) ==
  /\ x.port = If(d.bus # None, d.port)
  /\ x.address = None
  /\ \A f \in DOMAIN USBRedirFields \ {"port", "address"} : x[f] = d[f]
USBRedirTaken(e, x, r) ==
  /\ r.vendorId = (IF x.vendorId # None \/ x.productId # None THEN x.vendorId
                   ELSE e.vendorId)
  /\ r.productId = (IF x.vendorId # None \/ x.productId # None THEN x.productId
                    ELSE e.productId)
  /\ r.port = (IF x.bus # None /\ x.port = None THEN "zero" ELSE Kept(e, x, "port"))
  /\ r.address = (IF x.bus # None THEN "pci" ELSE e.address)
  /\ \A f \in DOMAIN USBRedirFields \ {"vendorId", "productId", "port", "address"} :
       r[f] = Kept(e, x, f)

LEMMA USBRedirHalves ==
  ASSUME NEW d, NEW x, Shaped("USBRedir", d)
  PROVE  /\ Shaped("USBRedir", Says("USBRedir", d))
         /\ USBRedirSaid(d, Says("USBRedir", d))
         /\ Shaped("USBRedir", ReadInto("USBRedir", d, x))
         /\ USBRedirTaken(d, x, ReadInto("USBRedir", d, x))
<1>1. /\ Says("USBRedir", d) = USBRedirXml(d)
      /\ ReadInto("USBRedir", d, x) = USBRedirRead(d, x)
      /\ Fields["USBRedir"] = USBRedirFields
  BY DEF Says, ReadInto, Fields
<1>2. Shaped("USBRedir", USBRedirXml(d)) /\ USBRedirSaid(d, USBRedirXml(d))
  BY <1>1 DEF USBRedirSaid, USBRedirXml, USBRedirFields, AsSet, Shaped
<1> DEFINE m == Merged(d, x)
<1>3. /\ DOMAIN m = DOMAIN USBRedirFields /\ m = [f \in DOMAIN USBRedirFields |-> m[f]]
      /\ \A f \in DOMAIN USBRedirFields : m[f] = Kept(d, x, f)
  BY <1>1, MergedIs DEF Shaped
<1> HIDE DEF m
<1>4. Shaped("USBRedir", USBRedirRead(d, x)) /\ USBRedirTaken(d, x, USBRedirRead(d, x))
  BY <1>1, <1>3 DEF USBRedirTaken, USBRedirRead, USBRedirFields, Shaped, m
<1>5. QED
  BY <1>1, <1>2, <1>4

LEMMA USBRedirCopies ==
  ASSUME NEW d, NEW e, NEW x, NEW r, NEW y, NEW q, NEW z,
         Rounds("USBRedir", d, e, x, r, y, q, z)
  PROVE  Agrees("USBRedir", x, r, y) /\ Settles("USBRedir", e, x, r, y, q, z)
<1>1. /\ USBRedirSaid(d, x) /\ USBRedirTaken(e, x, r) /\ USBRedirSaid(r, y)
      /\ USBRedirTaken(e, y, q) /\ USBRedirSaid(q, z)
      /\ Shaped("USBRedir", x) /\ Shaped("USBRedir", r) /\ Shaped("USBRedir", y)
      /\ Shaped("USBRedir", q) /\ Shaped("USBRedir", z)
      /\ e = New["USBRedir"] => USBRedirSaid(e, Says("USBRedir", New["USBRedir"]))
  BY USBRedirHalves DEF Rounds, Held
<1>2. /\ Fields["USBRedir"] = USBRedirFields /\ "USBRedir" \in Classes
      /\ Held("USBRedir", d) /\ Held("USBRedir", e)
  BY DEF Fields, Rounds, Classes
<1>3. \A f \in DOMAIN USBRedirFields :
        \/ r[f] \in {d[f], e[f]}
        \/ f = "port" /\ r[f] = "zero"
        \/ f = "address" /\ r[f] = "pci"
  BY <1>1, NoWord DEF USBRedirSaid, USBRedirTaken, USBRedirFields, Kept, If
<1>4. /\ Offered("USBRedir", "port", "zero")
      /\ Offered("USBRedir", "address", "pci")
  BY <1>2 DEF Offered, IsList, USBRedirFields, Text, Flag, Raised, Number, Addresses,
     Timers
<1>5. Held("USBRedir", r)
  BY <1>1, <1>2, <1>3, <1>4 DEF Held, USBRedirFields
<1>6. \A f \in DOMAIN USBRedirFields : x[f] # None => y[f] = x[f]
  BY <1>1, NoWord DEF USBRedirSaid, USBRedirTaken, USBRedirFields, Kept, If, Words
<1>7. ASSUME e = New["USBRedir"] PROVE Settles("USBRedir", e, x, r, y, q, z)
  <2>1. e.bus = None /\ e.port = None /\ e.vendorId = None /\ e.productId = None /\
        e.address = None /\ e.alias = None
    BY <1>2, <1>7 DEF New, Initial, USBRedirFields, Text, Enum, Flag, Raised, Number,
       Addresses, Timers
  <2>2. \A f \in DOMAIN USBRedirFields \ {"port"} :
          y[f] \in {x[f], Says("USBRedir", New["USBRedir"])[f]}
    BY <1>1, <1>7, <2>1, NoWord DEF USBRedirSaid, USBRedirTaken, USBRedirFields, Kept,
       If, Words
  <2>3. \A f \in DOMAIN USBRedirFields : z[f] = y[f]
    BY <1>1, <2>1, NoWord DEF USBRedirSaid, USBRedirTaken, USBRedirFields, Kept, If, Words
  <2>4. z = y
    BY <1>1, <1>2, <2>3 DEF Shaped
  <2>5. QED
    BY <1>2, <1>7, <2>2, <2>4 DEF Settles, Formed
<1>8. QED
  BY <1>1, <1>2, <1>5, <1>6, <1>7 DEF Agrees, Settles, Formed, Misread, IsList,
     USBRedirFields

\* VSock: what toXML() writes, and what fromXML() takes of it.
VSockSaid(d, x) ==
  /\ x.cid = If(d.cidAssignment = "Manual", d.cid)
  /\ x.address = Address(d.address, {"pci", "ccw"})
  /\ \A f \in DOMAIN VSockFields \ {"cid", "address"} : x[f] = d[f]
VSockTaken(e, x, r) ==
  /\ \A f \in DOMAIN VSockFields : r[f] = Kept(e, x, f)

LEMMA VSockHalves ==
  ASSUME NEW d, NEW x, Shaped("VSock", d)
  PROVE  /\ Shaped("VSock", Says("VSock", d)) /\ VSockSaid(d, Says("VSock", d))
         /\ Shaped("VSock", ReadInto("VSock", d, x))
         /\ VSockTaken(d, x, ReadInto("VSock", d, x))
<1>1. /\ Says("VSock", d) = VSockXml(d) /\ ReadInto("VSock", d, x) = VSockRead(d, x)
      /\ Fields["VSock"] = VSockFields
  BY DEF Says, ReadInto, Fields
<1>2. Shaped("VSock", VSockXml(d)) /\ VSockSaid(d, VSockXml(d))
  BY <1>1 DEF VSockSaid, VSockXml, VSockFields, AsSet, Shaped
<1> DEFINE m == Merged(d, x)
<1>3. /\ DOMAIN m = DOMAIN VSockFields /\ m = [f \in DOMAIN VSockFields |-> m[f]]
      /\ \A f \in DOMAIN VSockFields : m[f] = Kept(d, x, f)
  BY <1>1, MergedIs DEF Shaped
<1> HIDE DEF m
<1>4. Shaped("VSock", VSockRead(d, x)) /\ VSockTaken(d, x, VSockRead(d, x))
  BY <1>1, <1>3 DEF VSockTaken, VSockRead, VSockFields, Shaped, m
<1>5. QED
  BY <1>1, <1>2, <1>4

LEMMA VSockCopies ==
  ASSUME NEW d, NEW e, NEW x, NEW r, NEW y, NEW q, NEW z,
         Rounds("VSock", d, e, x, r, y, q, z)
  PROVE  Agrees("VSock", x, r, y) /\ Settles("VSock", e, x, r, y, q, z)
<1>1. /\ VSockSaid(d, x) /\ VSockTaken(e, x, r) /\ VSockSaid(r, y)
      /\ VSockTaken(e, y, q) /\ VSockSaid(q, z)
      /\ Shaped("VSock", x) /\ Shaped("VSock", r) /\ Shaped("VSock", y)
      /\ Shaped("VSock", q) /\ Shaped("VSock", z)
      /\ e = New["VSock"] => VSockSaid(e, Says("VSock", New["VSock"]))
  BY VSockHalves DEF Rounds, Held
<1>2. /\ Fields["VSock"] = VSockFields /\ "VSock" \in Classes
      /\ Held("VSock", d) /\ Held("VSock", e)
  BY DEF Fields, Rounds, Classes
<1>3. \A f \in DOMAIN VSockFields : r[f] \in {d[f], e[f]}
  BY <1>1, NoWord DEF VSockSaid, VSockTaken, VSockFields, Kept, If, Address
<1>4. Held("VSock", r)
  BY <1>1, <1>2, <1>3 DEF Held, VSockFields
<1>5. d.cid \in {"zero", "some"} /\ e.cid \in {"zero", "some"}
  BY <1>2 DEF Held, Offered, IsList, VSockFields, Raised, Text, Number, Enum, Flag
<1>6. \A f \in DOMAIN VSockFields : x[f] # None => y[f] = x[f]
  BY <1>1, <1>5, NoWord DEF VSockSaid, VSockTaken, VSockFields, Kept, If, Address, Words
<1>7. ASSUME e = New["VSock"] PROVE Settles("VSock", e, x, r, y, q, z)
  <2>1. e.cidAssignment = "Auto" /\ e.cid = "zero" /\ e.address = None /\ e.alias = None
    BY <1>2, <1>7 DEF New, Initial, VSockFields, Text, Enum, Flag, Raised, Number,
       Addresses, Timers
  <2>2. \A f \in DOMAIN VSockFields : y[f] \in {x[f], Says("VSock", New["VSock"])[f]}
    BY <1>1, <1>7, <2>1, <1>5, NoWord DEF VSockSaid, VSockTaken, VSockFields, Kept, If,
       Address, Words
  <2>3. \A f \in DOMAIN VSockFields : z[f] = y[f]
    BY <1>1, <2>1, <1>5, NoWord DEF VSockSaid, VSockTaken, VSockFields, Kept, If,
       Address, Words
  <2>4. z = y
    BY <1>1, <1>2, <2>3 DEF Shaped
  <2>5. QED
    BY <1>2, <1>7, <2>2, <2>4 DEF Settles, Formed
<1>8. QED
  BY <1>1, <1>2, <1>4, <1>6, <1>7 DEF Agrees, Settles, Formed, Misread, IsList,
     VSockFields

\* LaunchSecurity: what toXML() writes, and what fromXML() takes of it.
LaunchSecuritySaid(d, x) ==
  /\ x.policy = If(d.type = "SEV", d.policy)
  /\ x.dhCert = If(d.type = "SEV", d.dhCert)
  /\ x.sessionData = If(d.type = "SEV", d.sessionData)
  /\ x.secret = If(d.type = "SEV", d.secret)
  /\ x.amdSme = If(d.type = "SEV", d.amdSme)
  /\ x.type = d.type
LaunchSecurityTaken(e, x, r) ==
  /\ r.type = x.type
  /\ r.policy = (IF x.type = "SEV" THEN x.policy ELSE e.policy)
  /\ r.dhCert = (IF x.type = "SEV" THEN x.dhCert ELSE e.dhCert)
  /\ r.sessionData = (IF x.type = "SEV" THEN x.sessionData ELSE e.sessionData)
  /\ r.secret = (IF x.type = "SEV" THEN x.secret ELSE e.secret)
  /\ r.amdSme = (IF x.type = "SEV" THEN x.amdSme ELSE e.amdSme)

LEMMA LaunchSecurityHalves ==
  ASSUME NEW d, NEW x, Shaped("LaunchSecurity", d), Shaped("LaunchSecurity", x)
  PROVE  /\ Shaped("LaunchSecurity", Says("LaunchSecurity", d))
         /\ LaunchSecuritySaid(d, Says("LaunchSecurity", d))
         /\ Shaped("LaunchSecurity", ReadInto("LaunchSecurity", d, x))
         /\ LaunchSecurityTaken(d, x, ReadInto("LaunchSecurity", d, x))
<1>1. /\ Says("LaunchSecurity", d) = LaunchSecurityXml(d)
      /\ ReadInto("LaunchSecurity", d, x) = LaunchSecurityRead(d, x)
      /\ Fields["LaunchSecurity"] = LaunchSecurityFields
  BY DEF Says, ReadInto, Fields
<1>2. /\ Shaped("LaunchSecurity", LaunchSecurityXml(d))
      /\ LaunchSecuritySaid(d, LaunchSecurityXml(d))
  BY <1>1 DEF LaunchSecuritySaid, LaunchSecurityXml, LaunchSecurityFields, AsSet, Shaped
<1>3. /\ Shaped("LaunchSecurity", LaunchSecurityRead(d, x))
      /\ LaunchSecurityTaken(d, x, LaunchSecurityRead(d, x))
  BY <1>1 DEF LaunchSecurityTaken, LaunchSecurityRead, LaunchSecurityFields, Shaped
<1>4. QED
  BY <1>1, <1>2, <1>3

LEMMA LaunchSecurityCopies ==
  ASSUME NEW d, NEW e, NEW x, NEW r, NEW y, NEW q, NEW z,
         Rounds("LaunchSecurity", d, e, x, r, y, q, z)
  PROVE  Agrees("LaunchSecurity", x, r, y) /\ Settles("LaunchSecurity", e, x, r, y, q, z)
<1>1. /\ LaunchSecuritySaid(d, x) /\ LaunchSecurityTaken(e, x, r)
      /\ LaunchSecuritySaid(r, y)
      /\ LaunchSecurityTaken(e, y, q) /\ LaunchSecuritySaid(q, z)
      /\ Shaped("LaunchSecurity", x) /\ Shaped("LaunchSecurity", r)
      /\ Shaped("LaunchSecurity", y)
      /\ Shaped("LaunchSecurity", q) /\ Shaped("LaunchSecurity", z)
      /\ e = New["LaunchSecurity"] =>
           LaunchSecuritySaid(e, Says("LaunchSecurity", New["LaunchSecurity"]))
  BY LaunchSecurityHalves DEF Rounds, Held
<1>2. /\ Fields["LaunchSecurity"] = LaunchSecurityFields /\ "LaunchSecurity" \in Classes
      /\ Held("LaunchSecurity", d) /\ Held("LaunchSecurity", e)
      /\ Formed("LaunchSecurity", d)
  BY DEF Fields, Rounds, Classes
<1>3. \A f \in DOMAIN LaunchSecurityFields : r[f] \in {d[f], e[f]}
  BY <1>1, NoWord DEF LaunchSecuritySaid, LaunchSecurityTaken, LaunchSecurityFields,
     Kept, If
<1>4. Held("LaunchSecurity", r)
  BY <1>1, <1>2, <1>3 DEF Held, LaunchSecurityFields
<1>5. \A f \in DOMAIN LaunchSecurityFields : x[f] # None => y[f] = x[f]
  BY <1>1, NoWord DEF LaunchSecuritySaid, LaunchSecurityTaken, LaunchSecurityFields,
     Kept, If, Words
<1>6. ASSUME e = New["LaunchSecurity"] PROVE Settles("LaunchSecurity", e, x, r, y, q, z)
  <2>1. e.type = None /\ e.policy = None /\ e.dhCert = None /\ e.sessionData = None /\
        e.secret = None /\ e.amdSme = None
    BY <1>2, <1>6 DEF New, Initial, LaunchSecurityFields, Text, Enum, Flag, Raised,
       Number, Addresses, Timers
  <2>2. \A f \in DOMAIN LaunchSecurityFields : y[f] = x[f] \/ y[f] = None
    BY <1>1, <2>1, NoWord DEF LaunchSecuritySaid, LaunchSecurityTaken,
       LaunchSecurityFields, Kept, If, Words
  <2>3. \A f \in DOMAIN LaunchSecurityFields : z[f] = y[f]
    BY <1>1, <2>1, NoWord DEF LaunchSecuritySaid, LaunchSecurityTaken,
       LaunchSecurityFields, Kept, If, Words
  <2>4. ~ Formed("LaunchSecurity", e)
    BY <1>2, <2>1 DEF Formed, LaunchSecurityEmpty, Unset, Shaped, Held,
       LaunchSecurityFields
  <2>5. Formed("LaunchSecurity", r) => Formed("LaunchSecurity", q)
    BY <1>1, <1>2, <2>1, NoWord DEF Formed, LaunchSecurityEmpty, Unset, Shaped,
       LaunchSecuritySaid, LaunchSecurityTaken, LaunchSecurityFields, Kept, If, Words
  <2>6. z = y
    BY <1>1, <1>2, <2>3 DEF Shaped
  <2>7. QED
    BY <1>2, <1>6, <2>2, <2>4, <2>5, <2>6 DEF Settles
<1>7. \A f \in DOMAIN LaunchSecurityFields : x[f] # None => Formed("LaunchSecurity", r)
  BY <1>1, <1>2, NoWord DEF Formed, LaunchSecurityEmpty, Unset, Shaped,
     LaunchSecuritySaid, LaunchSecurityTaken, LaunchSecurityFields, Kept, If, Words
<1>8. QED
  BY <1>1, <1>2, <1>4, <1>5, <1>6, <1>7 DEF Agrees, Settles, Misread, IsList,
     LaunchSecurityFields

\* MemoryBacking: what toXML() writes, and what fromXML() takes of it.
MemoryBackingSaid(d, x) ==
  /\ x.pageNodeset = If(HasPage(d), d.pageNodeset)
  /\ \A f \in DOMAIN MemoryBackingFields \ {"pageNodeset"} : x[f] = d[f]
MemoryBackingTaken(e, x, r) ==
  /\ r.pageSize = (IF HasPage(x) THEN x.pageSize ELSE e.pageSize)
  /\ r.pageUnit = (IF HasPage(x) THEN x.pageUnit ELSE e.pageUnit)
  /\ r.pageNodeset = (IF HasPage(x) THEN x.pageNodeset ELSE e.pageNodeset)
  /\ \A f \in DOMAIN MemoryBackingFields \ {"pageSize", "pageUnit", "pageNodeset"} :
       r[f] = Kept(e, x, f)

LEMMA MemoryBackingHalves ==
  ASSUME NEW d, NEW x, Shaped("MemoryBacking", d)
  PROVE  /\ Shaped("MemoryBacking", Says("MemoryBacking", d))
         /\ MemoryBackingSaid(d, Says("MemoryBacking", d))
         /\ Shaped("MemoryBacking", ReadInto("MemoryBacking", d, x))
         /\ MemoryBackingTaken(d, x, ReadInto("MemoryBacking", d, x))
<1>1. /\ Says("MemoryBacking", d) = MemoryBackingXml(d)
      /\ ReadInto("MemoryBacking", d, x) = MemoryBackingRead(d, x)
      /\ Fields["MemoryBacking"] = MemoryBackingFields
  BY DEF Says, ReadInto, Fields
<1>2. /\ Shaped("MemoryBacking", MemoryBackingXml(d))
      /\ MemoryBackingSaid(d, MemoryBackingXml(d))
  BY <1>1 DEF MemoryBackingSaid, MemoryBackingXml, MemoryBackingFields, AsSet, Shaped
<1> DEFINE m == Merged(d, x)
<1>3. /\ DOMAIN m = DOMAIN MemoryBackingFields
      /\ m = [f \in DOMAIN MemoryBackingFields |-> m[f]]
      /\ \A f \in DOMAIN MemoryBackingFields : m[f] = Kept(d, x, f)
  BY <1>1, MergedIs DEF Shaped
<1> HIDE DEF m
<1>4. /\ Shaped("MemoryBacking", MemoryBackingRead(d, x))
      /\ MemoryBackingTaken(d, x, MemoryBackingRead(d, x))
  BY <1>1, <1>3 DEF MemoryBackingTaken, MemoryBackingRead, MemoryBackingFields, Shaped, m
<1>5. QED
  BY <1>1, <1>2, <1>4

LEMMA MemoryBackingCopies ==
  ASSUME NEW d, NEW e, NEW x, NEW r, NEW y, NEW q, NEW z,
         Rounds("MemoryBacking", d, e, x, r, y, q, z)
  PROVE  Agrees("MemoryBacking", x, r, y) /\ Settles("MemoryBacking", e, x, r, y, q, z)
<1>1. /\ MemoryBackingSaid(d, x) /\ MemoryBackingTaken(e, x, r) /\ MemoryBackingSaid(r, y)
      /\ MemoryBackingTaken(e, y, q) /\ MemoryBackingSaid(q, z)
      /\ Shaped("MemoryBacking", x) /\ Shaped("MemoryBacking", r)
      /\ Shaped("MemoryBacking", y)
      /\ Shaped("MemoryBacking", q) /\ Shaped("MemoryBacking", z)
      /\ e = New["MemoryBacking"] =>
           MemoryBackingSaid(e, Says("MemoryBacking", New["MemoryBacking"]))
  BY MemoryBackingHalves DEF Rounds, Held
<1>2. /\ Fields["MemoryBacking"] = MemoryBackingFields /\ "MemoryBacking" \in Classes
      /\ Held("MemoryBacking", d) /\ Held("MemoryBacking", e)
      /\ Formed("MemoryBacking", d)
  BY DEF Fields, Rounds, Classes
<1>3. \A f \in DOMAIN MemoryBackingFields : r[f] \in {d[f], e[f]}
  BY <1>1, NoWord DEF MemoryBackingSaid, MemoryBackingTaken, MemoryBackingFields, Kept,
     If, HasPage
<1>4. Held("MemoryBacking", r)
  BY <1>1, <1>2, <1>3 DEF Held, MemoryBackingFields
<1>5. \A f \in DOMAIN MemoryBackingFields : x[f] # None => y[f] = x[f]
  BY <1>1, NoWord DEF MemoryBackingSaid, MemoryBackingTaken, MemoryBackingFields, Kept,
     If, HasPage, Words
<1>6. ASSUME e = New["MemoryBacking"] PROVE Settles("MemoryBacking", e, x, r, y, q, z)
  <2>1. e.locked = None /\ e.shared = None /\ e.discard = None /\ e.pageSize = None /\
        e.pageUnit = None /\ e.pageNodeset = None
    BY <1>2, <1>6 DEF New, Initial, MemoryBackingFields, Text, Enum, Flag, Raised,
       Number, Addresses, Timers
  <2>2. \A f \in DOMAIN MemoryBackingFields : y[f] = x[f] \/ y[f] = None
    BY <1>1, <2>1, NoWord DEF MemoryBackingSaid, MemoryBackingTaken,
       MemoryBackingFields, Kept, If, HasPage, Words
  <2>3. \A f \in DOMAIN MemoryBackingFields : z[f] = y[f]
    BY <1>1, <2>1, NoWord DEF MemoryBackingSaid, MemoryBackingTaken,
       MemoryBackingFields, Kept, If, HasPage, Words
  <2>4. ~ Formed("MemoryBacking", e)
    BY <1>2, <2>1 DEF Formed, MemoryBackingEmpty, Unset, Shaped, Held,
       MemoryBackingFields, HasPage
  <2>5. \A f \in DOMAIN MemoryBackingFields \ {"pageNodeset"} : r[f] # None => q[f] # None
    BY <1>1, <2>1, NoWord DEF MemoryBackingSaid, MemoryBackingTaken,
       MemoryBackingFields, Kept, If, HasPage, Words
  <2>6. Formed("MemoryBacking", r) => Formed("MemoryBacking", q)
    BY <1>1, <1>2, <2>5 DEF Formed, MemoryBackingEmpty, Unset, Shaped
  <2>7. z = y
    BY <1>1, <1>2, <2>3 DEF Shaped
  <2>8. QED
    BY <1>2, <1>6, <2>2, <2>4, <2>6, <2>7 DEF Settles
<1>7. \A f \in DOMAIN MemoryBackingFields : x[f] # None => Formed("MemoryBacking", r)
  BY <1>1, <1>2, NoWord DEF Formed, MemoryBackingEmpty, Unset, Shaped,
     MemoryBackingSaid, MemoryBackingTaken, MemoryBackingFields, Kept, If, HasPage,
     Words
<1>8. QED
  BY <1>1, <1>2, <1>4, <1>5, <1>6, <1>7 DEF Agrees, Settles, Misread, IsList,
     MemoryBackingFields

\* Clock: what toXML() writes, and what fromXML() takes of it.
ClockSaid(d, x) ==
  /\ x.rtc = Timer(d.rtc, {"ticking", "tracked"})
  /\ x.hpet = Timer(d.hpet, {"ticking", "absent"})
  /\ x.pit = Timer(d.pit, {"ticking"})
  /\ \A f \in DOMAIN ClockFields \ {"rtc", "hpet", "pit"} : x[f] = d[f]
ClockTaken(e, x, r) ==
  /\ \A f \in DOMAIN ClockFields : r[f] = Kept(e, x, f)

LEMMA ClockHalves ==
  ASSUME NEW d, NEW x, Shaped("Clock", d)
  PROVE  /\ Shaped("Clock", Says("Clock", d)) /\ ClockSaid(d, Says("Clock", d))
         /\ Shaped("Clock", ReadInto("Clock", d, x))
         /\ ClockTaken(d, x, ReadInto("Clock", d, x))
<1>1. /\ Says("Clock", d) = ClockXml(d) /\ ReadInto("Clock", d, x) = ClockRead(d, x)
      /\ Fields["Clock"] = ClockFields
  BY DEF Says, ReadInto, Fields
<1>2. Shaped("Clock", ClockXml(d)) /\ ClockSaid(d, ClockXml(d))
  BY <1>1 DEF ClockSaid, ClockXml, ClockFields, AsSet, Shaped
<1> DEFINE m == Merged(d, x)
<1>3. /\ DOMAIN m = DOMAIN ClockFields /\ m = [f \in DOMAIN ClockFields |-> m[f]]
      /\ \A f \in DOMAIN ClockFields : m[f] = Kept(d, x, f)
  BY <1>1, MergedIs DEF Shaped
<1> HIDE DEF m
<1>4. Shaped("Clock", ClockRead(d, x)) /\ ClockTaken(d, x, ClockRead(d, x))
  BY <1>1, <1>3 DEF ClockTaken, ClockRead, ClockFields, Shaped, m
<1>5. QED
  BY <1>1, <1>2, <1>4

LEMMA ClockCopies ==
  ASSUME NEW d, NEW e, NEW x, NEW r, NEW y, NEW q, NEW z,
         Rounds("Clock", d, e, x, r, y, q, z)
  PROVE  Agrees("Clock", x, r, y) /\ Settles("Clock", e, x, r, y, q, z)
<1>1. /\ ClockSaid(d, x) /\ ClockTaken(e, x, r) /\ ClockSaid(r, y)
      /\ ClockTaken(e, y, q) /\ ClockSaid(q, z)
      /\ Shaped("Clock", x) /\ Shaped("Clock", r) /\ Shaped("Clock", y)
      /\ Shaped("Clock", q) /\ Shaped("Clock", z)
      /\ e = New["Clock"] => ClockSaid(e, Says("Clock", New["Clock"]))
  BY ClockHalves DEF Rounds, Held
<1>2. /\ Fields["Clock"] = ClockFields /\ "Clock" \in Classes
      /\ Held("Clock", d) /\ Held("Clock", e) /\ Formed("Clock", d)
  BY DEF Fields, Rounds, Classes
<1>3. \A f \in DOMAIN ClockFields :
        \/ r[f] \in {d[f], e[f]}
        \/ f \in {"rtc", "hpet", "pit"} /\ r[f] = "plain"
  BY <1>1, NoWord DEF ClockSaid, ClockTaken, ClockFields, Kept, Timer
<1>4. \A f \in {"rtc", "hpet", "pit"} : Offered("Clock", f, "plain")
  BY <1>2 DEF Offered, IsList, ClockFields, Text, Flag, Raised, Number, Addresses, Timers
<1>5. Held("Clock", r)
  BY <1>1, <1>2, <1>3, <1>4 DEF Held, ClockFields
<1>6. d.offset \in {"utc", "other"} /\ e.offset \in {"utc", "other"}
  BY <1>2 DEF Held, Offered, IsList, ClockFields, Raised, Text, Number, Enum, Flag
<1>7. \A f \in DOMAIN ClockFields : x[f] # None => y[f] = x[f]
  BY <1>1, <1>6, NoWord DEF ClockSaid, ClockTaken, ClockFields, Kept, Timer, Words
<1>8. ASSUME e = New["Clock"] PROVE Settles("Clock", e, x, r, y, q, z)
  <2>1. e.offset = "utc" /\ e.rtc = None /\ e.hpet = None /\ e.pit = None /\
        e.kvmClockOff = None
    BY <1>2, <1>8 DEF New, Initial, ClockFields, Text, Enum, Flag, Raised, Number,
       Addresses, Timers
  <2>2. \A f \in DOMAIN ClockFields : y[f] = x[f] \/ y[f] = None
    BY <1>1, <2>1, <1>6, NoWord DEF ClockSaid, ClockTaken, ClockFields, Kept, Timer, Words
  <2>3. \A f \in DOMAIN ClockFields : z[f] = y[f]
    BY <1>1, <2>1, <1>6, NoWord DEF ClockSaid, ClockTaken, ClockFields, Kept, Timer, Words
  <2>4. ~ Formed("Clock", e)
    BY <1>2, <2>1 DEF Formed, ClockEmpty, Unset, Shaped, Held, ClockFields
  <2>5. Formed("Clock", r) => Formed("Clock", q)
    BY <1>1, <1>2, <2>1, NoWord DEF Formed, ClockEmpty, Unset, Shaped, ClockSaid,
       ClockTaken, ClockFields, Kept, Timer, Words
  <2>6. z = y
    BY <1>1, <1>2, <2>3 DEF Shaped
  <2>7. QED
    BY <1>2, <1>8, <2>2, <2>4, <2>5, <2>6 DEF Settles
<1>9. \A f \in DOMAIN ClockFields : x[f] # None => Formed("Clock", r)
  BY <1>1, <1>2, NoWord DEF Formed, ClockEmpty, Unset, Shaped, ClockSaid, ClockTaken,
     ClockFields, Kept, Timer, Words
<1>10. QED
  BY <1>1, <1>2, <1>5, <1>7, <1>8, <1>9 DEF Agrees, Settles, Misread, IsList, ClockFields

\* Firmware: what toXML() writes, and what fromXML() takes of it.
FirmwareSaid(d, x) ==
  /\ x.type = If(d.type # "BIOS", d.type)
  /\ x.biosType = None
  /\ x.secureBoot = If(d.type # "BIOS", d.secureBoot)
  /\ x.nvram = (IF d.nvram # None /\ d.nvramTemplate # None THEN "mixed" ELSE d.nvram)
  /\ x.nvramTemplate = If(d.nvram = None, d.nvramTemplate)
  /\ \A f \in DOMAIN FirmwareFields \ {"type", "biosType", "secureBoot", "nvram",
                                       "nvramTemplate"} :
       x[f] = d[f]
FirmwareTaken(e, x, r) ==
  /\ r.type = (IF x.type = "UEFI" THEN "UEFI" ELSE e.type)
  /\ r.biosType = e.biosType
  /\ r.secureBoot = (IF x.type # None THEN x.secureBoot ELSE e.secureBoot)
  /\ r.loader = (IF x.type = "UEFI" \/ x.loader # None THEN x.loader ELSE e.loader)
  /\ r.nvram = (IF x.nvram # None \/ x.nvramTemplate # None THEN x.nvram ELSE e.nvram)
  /\ r.nvramTemplate = (IF x.nvram # None \/ x.nvramTemplate # None THEN None
                        ELSE e.nvramTemplate)
  /\ r.smm = Kept(e, x, "smm")

LEMMA FirmwareHalves ==
  ASSUME NEW d, NEW x, Shaped("Firmware", d)
  PROVE  /\ Shaped("Firmware", Says("Firmware", d))
         /\ FirmwareSaid(d, Says("Firmware", d))
         /\ Shaped("Firmware", ReadInto("Firmware", d, x))
         /\ FirmwareTaken(d, x, ReadInto("Firmware", d, x))
<1>1. /\ Says("Firmware", d) = FirmwareXml(d)
      /\ ReadInto("Firmware", d, x) = FirmwareRead(d, x)
      /\ Fields["Firmware"] = FirmwareFields
  BY DEF Says, ReadInto, Fields
<1>2. Shaped("Firmware", FirmwareXml(d)) /\ FirmwareSaid(d, FirmwareXml(d))
  BY <1>1 DEF FirmwareSaid, FirmwareXml, FirmwareFields, AsSet, Shaped
<1> DEFINE m == Merged(d, x)
<1>3. /\ DOMAIN m = DOMAIN FirmwareFields /\ m = [f \in DOMAIN FirmwareFields |-> m[f]]
      /\ \A f \in DOMAIN FirmwareFields : m[f] = Kept(d, x, f)
  BY <1>1, MergedIs DEF Shaped
<1> HIDE DEF m
<1>4. Shaped("Firmware", FirmwareRead(d, x)) /\ FirmwareTaken(d, x, FirmwareRead(d, x))
  BY <1>1, <1>3 DEF FirmwareTaken, FirmwareRead, FirmwareFields, Shaped, m
<1>5. QED
  BY <1>1, <1>2, <1>4

LEMMA FirmwareCopies ==
  ASSUME NEW d, NEW e, NEW x, NEW r, NEW y, NEW q, NEW z,
         Rounds("Firmware", d, e, x, r, y, q, z)
  PROVE  Agrees("Firmware", x, r, y) /\ Settles("Firmware", e, x, r, y, q, z)
<1>1. /\ FirmwareSaid(d, x) /\ FirmwareTaken(e, x, r) /\ FirmwareSaid(r, y)
      /\ FirmwareTaken(e, y, q) /\ FirmwareSaid(q, z)
      /\ Shaped("Firmware", x) /\ Shaped("Firmware", r) /\ Shaped("Firmware", y)
      /\ Shaped("Firmware", q) /\ Shaped("Firmware", z)
      /\ e = New["Firmware"] => FirmwareSaid(e, Says("Firmware", New["Firmware"]))
  BY FirmwareHalves DEF Rounds, Held
<1>2. /\ Fields["Firmware"] = FirmwareFields /\ "Firmware" \in Classes
      /\ Held("Firmware", d) /\ Held("Firmware", e) /\ Formed("Firmware", d)
  BY DEF Fields, Rounds, Classes
<1>3. \A f \in DOMAIN FirmwareFields :
        \/ r[f] \in {d[f], e[f]}
        \/ f = "nvram" /\ r[f] = "mixed"
        \/ f = "nvramTemplate" /\ r[f] = None
  BY <1>1, NoWord DEF FirmwareSaid, FirmwareTaken, FirmwareFields, Kept, If, Words
<1>4. /\ Offered("Firmware", "nvram", "mixed")
      /\ Offered("Firmware", "nvramTemplate", None)
  BY <1>2 DEF Offered, IsList, FirmwareFields, Text, Flag, Raised, Number, Addresses,
     Timers
<1>5. Held("Firmware", r)
  BY <1>1, <1>2, <1>3, <1>4 DEF Held, FirmwareFields
<1>6. \A f \in DOMAIN FirmwareFields \ {"type", "secureBoot", "nvramTemplate"} :
        x[f] # None => y[f] = x[f]
  BY <1>1, NoWord DEF FirmwareSaid, FirmwareTaken, FirmwareFields, Kept, If, Words
<1>7. ASSUME e = New["Firmware"] PROVE Settles("Firmware", e, x, r, y, q, z)
  <2>1. e.type = "BIOS" /\ e.biosType = "first" /\ e.secureBoot = None /\
        e.smm = None /\ e.loader = None /\ e.nvram = None /\ e.nvramTemplate = None
    BY <1>2, <1>7 DEF New, Initial, FirmwareFields, Text, Enum, Flag, Raised, Number,
       Addresses, Timers
  <2>2. \A f \in DOMAIN FirmwareFields : y[f] = x[f] \/ y[f] = None
    BY <1>1, <2>1, NoWord DEF FirmwareSaid, FirmwareTaken, FirmwareFields, Kept, If, Words
  <2>3. \A f \in DOMAIN FirmwareFields : z[f] = y[f]
    BY <1>1, <2>1, NoWord DEF FirmwareSaid, FirmwareTaken, FirmwareFields, Kept, If, Words
  <2>4. ~ Formed("Firmware", e)
    BY <1>2, <2>1 DEF Formed, FirmwareEmpty, Unset, Shaped, Held, FirmwareFields
  <2>5. Formed("Firmware", r) => Formed("Firmware", q) \/ \A f \in DOMAIN FirmwareFields :
          y[f] = None
    BY <1>1, <1>2, <2>1, NoWord DEF Formed, FirmwareEmpty, Unset, Shaped, FirmwareSaid,
       FirmwareTaken, FirmwareFields, Kept, If, Words
  <2>6. z = y
    BY <1>1, <1>2, <2>3 DEF Shaped
  <2>7. QED
    BY <1>2, <1>7, <2>2, <2>4, <2>5, <2>6 DEF Settles
<1>8. \A f \in DOMAIN FirmwareFields \ {"type", "secureBoot", "nvramTemplate"} :
        x[f] # None => Formed("Firmware", r)
  BY <1>1, <1>2, NoWord DEF Formed, FirmwareEmpty, Unset, Shaped, FirmwareSaid,
     FirmwareTaken, FirmwareFields, Kept, If, Words
<1>9. QED
  BY <1>1, <1>2, <1>5, <1>6, <1>7, <1>8 DEF Agrees, Settles, Misread, IsList,
     FirmwareFields

-----------------------------------------------------------------------------
(* The classes whose two halves are all of their members as they are. *)

Plain == {"Sound", "BlkIOTune", "MemTune", "CloudInit", "Features"}

LEMMA PlainHalves ==
  ASSUME NEW c \in Plain, NEW d, NEW x, Shaped(c, d)
  PROVE  /\ Says(c, d) = d /\ ReadInto(c, d, x) = Merged(d, x)
         /\ Shaped(c, Merged(d, x))
         /\ \A f \in DOMAIN Fields[c] : Merged(d, x)[f] = Kept(d, x, f)
<1>1. Says(c, d) = d
  BY DEF Plain, Says, SoundXml, BlkIOTuneXml, MemTuneXml, CloudInitXml, FeaturesXml, AsSet
<1>2. ReadInto(c, d, x) = Merged(d, x)
  BY DEF Plain, ReadInto, SoundRead, BlkIOTuneRead, MemTuneRead, CloudInitRead,
     FeaturesRead
<1>3. QED
  BY <1>1, <1>2, MergedIs DEF Shaped

\* What parses does so with more of its members set.
LEMMA PlainFormed ==
  ASSUME NEW c \in Plain, NEW d, NEW r, DOMAIN d = DOMAIN r, Formed(c, d),
         \A f \in DOMAIN d : d[f] # None => r[f] # None
  PROVE  Formed(c, r)
  BY DEF Plain, Formed, BlkIOTuneEmpty, MemTuneEmpty, CloudInitEmpty, FeaturesEmpty, Unset

LEMMA PlainNew ==
  ASSUME NEW c \in Plain
  PROVE  \/ \A p : Formed(c, p)
         \/ ~ Formed(c, New[c]) /\ \A f \in DOMAIN Fields[c] : New[c][f] = None
<1>1. c \in Classes
  BY DEF Plain, Classes, Fields
<1>2. CASE c = "Sound"
  BY <1>2 DEF Formed
<1>3. CASE c # "Sound"
  <2>1. \A f \in DOMAIN Fields[c] : Fields[c][f] \in {Text, Flag}
    BY <1>3 DEF Plain, Fields, BlkIOTuneFields, MemTuneFields, CloudInitFields,
       FeaturesFields
  <2>2. DOMAIN New[c] = DOMAIN Fields[c] /\ \A f \in DOMAIN Fields[c] : New[c][f] = None
    BY <1>1, <2>1 DEF New, Initial, Text, Flag
  <2>3. ~ Formed(c, New[c])
    BY <1>3, <2>2 DEF Plain, Formed, BlkIOTuneEmpty, MemTuneEmpty, CloudInitEmpty,
       FeaturesEmpty, Unset
  <2>4. QED
    BY <2>2, <2>3
<1>4. QED
  BY <1>2, <1>3

LEMMA PlainCopies ==
  ASSUME NEW c \in Plain, NEW d, NEW e, NEW x, NEW r, NEW y, NEW q, NEW z,
         Rounds(c, d, e, x, r, y, q, z)
  PROVE  Agrees(c, x, r, y) /\ Settles(c, e, x, r, y, q, z)
<1>1. /\ x = d /\ y = r /\ z = q
      /\ Shaped(c, d) /\ Shaped(c, r) /\ Shaped(c, q) /\ Held(c, d) /\ Held(c, e)
      /\ Formed(c, d)
      /\ \A f \in DOMAIN Fields[c] : r[f] = Kept(e, d, f) /\ q[f] = Kept(e, r, f)
  <2>1. /\ Held(c, d) /\ Held(c, e) /\ Formed(c, d) /\ x = Says(c, d)
        /\ r = ReadInto(c, e, x)
        /\ y = Says(c, r) /\ q = ReadInto(c, e, y) /\ z = Says(c, q)
        /\ Shaped(c, d) /\ Shaped(c, e)
    BY DEF Rounds, Held
  <2>2. x = d /\ r = Merged(e, d)
    BY <2>1, PlainHalves
  <2>3. Shaped(c, r) /\ \A f \in DOMAIN Fields[c] : r[f] = Kept(e, d, f)
    BY <2>1, <2>2, PlainHalves
  <2>4. \A p : Shaped(c, p) => Says(c, p) = p
    BY PlainHalves
  <2>5. \A p : ReadInto(c, e, p) = Merged(e, p)
    BY <2>1, PlainHalves
  <2>6. y = r /\ q = Merged(e, r)
    BY <2>1, <2>3, <2>4, <2>5
  <2>7. Shaped(c, q) /\ \A f \in DOMAIN Fields[c] : q[f] = Kept(e, r, f)
    BY <2>1, <2>6, PlainHalves
  <2>8. QED
    BY <2>1, <2>2, <2>3, <2>4, <2>6, <2>7
<1>2. \A f \in DOMAIN Fields[c] : q[f] = r[f] /\ r[f] \in {d[f], e[f]}
  BY <1>1 DEF Kept
<1>3. Held(c, r) /\ q = r
  BY <1>1, <1>2 DEF Held, Shaped
<1>4. Formed(c, r)
  BY <1>1, PlainFormed DEF Kept, Shaped
<1>5. \A f \in DOMAIN Fields[c] : d[f] # None => r[f] = d[f]
  BY <1>1 DEF Kept
<1>6. \A f \in DOMAIN Fields[c] : ~ IsList(c, f)
  BY DEF Plain, IsList, Fields, SoundFields, BlkIOTuneFields, MemTuneFields,
     CloudInitFields, FeaturesFields
<1>7. ASSUME e = New[c] PROVE Settles(c, e, x, r, y, q, z)
  <2>1. Says(c, e) = e
    BY PlainHalves DEF Rounds, Held
  <2>2. QED
    BY <1>1, <1>2, <1>3, <1>4, <1>7, <2>1, PlainNew DEF Settles
<1>8. QED
  BY <1>1, <1>3, <1>4, <1>5, <1>6, <1>7 DEF Agrees, Settles

\* The classes that take an element as it is.
LEMMA WholeCopies ==
  ASSUME NEW c \in {"SecLabel", "IOThread"},
         NEW d, NEW e, NEW x, NEW r, NEW y, NEW q, NEW z, Rounds(c, d, e, x, r, y, q, z)
  PROVE  Agrees(c, x, r, y) /\ Settles(c, e, x, r, y, q, z)
<1>1. \A p, s : Says(c, p) = p /\ ReadInto(c, p, s) = s
  BY DEF Says, ReadInto, SecLabelXml, SecLabelRead, IOThreadXml, IOThreadRead, AsSet
<1>2. x = d /\ r = d /\ y = d /\ q = d /\ z = d /\ Held(c, d) /\ Formed(c, d)
  BY <1>1 DEF Rounds
<1>3. \A f \in DOMAIN Fields[c] : ~ IsList(c, f)
  BY DEF IsList, Fields, SecLabelFields, IOThreadFields
<1>4. ~ Formed(c, New[c])
  <2>1. CASE c = "SecLabel"
    <3>1. New[c] = Initial(SecLabelFields)
      BY <2>1 DEF New, Classes, Fields
    <3>2. QED
      BY <2>1, <3>1 DEF Initial, SecLabelFields, Enum, Text, Flag, Formed,
         SecLabelEmpty, Unset
  <2>2. CASE c = "IOThread"
    <3>1. New[c] = Initial(IOThreadFields)
      BY <2>2 DEF New, Classes, Fields
    <3>2. QED
      BY <2>2, <3>1 DEF Initial, IOThreadFields, Text, Formed, IOThreadEmpty
  <2>3. QED
    BY <2>1, <2>2
<1>5. QED
  BY <1>2, <1>3, <1>4 DEF Agrees, Settles, Held

-----------------------------------------------------------------------------
(* The classes whose fromXML() reads nothing. *)

Silent == {"FileSystem", "Host", "Memballoon", "RNG", "Smartcard", "TPM", "Watchdog"}

LEMMA SilentShape ==
  ASSUME NEW c \in Silent, NEW d, Shaped(c, d)
  PROVE  Shaped(c, Says(c, d))
<1>1. CASE c \in {"Memballoon", "RNG", "Watchdog"}
  BY <1>1 DEF Says, MemballoonXml, RNGXml, WatchdogXml, AsSet
<1>2. CASE c = "FileSystem"
  BY <1>2 DEF Says, FileSystemXml, AsSet, Shaped
<1>3. CASE c = "Host"
  <2>1. Says(c, d) = HostXml(d) /\ Fields[c] = HostFields
    BY <1>3 DEF Says, Fields
  <2>2. QED
    BY <2>1 DEF HostXml, HostFields, Shaped
<1>4. CASE c = "Smartcard"
  BY <1>4 DEF Says, SmartcardXml, AsSet, Shaped
<1>5. CASE c = "TPM"
  BY <1>5 DEF Says, TPMXml, AsSet, Shaped
<1>6. QED
  BY <1>1, <1>2, <1>3, <1>4, <1>5 DEF Silent

LEMMA SilentCopies ==
  ASSUME NEW c \in Silent, NEW d, NEW e, NEW x, NEW r, NEW y, NEW q, NEW z,
         Rounds(c, d, e, x, r, y, q, z)
  PROVE  Agrees(c, x, r, y) /\ Settles(c, e, x, r, y, q, z)
<1>1. \A p, s : ReadInto(c, p, s) = p
  BY DEF Silent, ReadInto, ReadsNothing
<1>2. r = e /\ q = e /\ z = y /\ y = Says(c, e) /\ Held(c, e) /\ Shaped(c, x)
  BY <1>1, SilentShape DEF Rounds, Held
<1>3. Misread(c) = DOMAIN Fields[c]
  BY DEF Silent, Misread
<1>4. QED
  BY <1>2, <1>3 DEF Agrees, Settles

-----------------------------------------------------------------------------
(* Lists, whose full entries are written and added to those of the reader. *)

Lists == Seq({"full", "hollow"})

LEMMA Span ==
  ASSUME NEW a \in Nat, NEW b \in Nat
  PROVE  IsFiniteSet((a + 1) .. (a + b)) /\ Cardinality((a + 1) .. (a + b)) = b
<1> DEFINE m == a + 1
           n == a + b
<1>1. m \in Int /\ n \in Int /\ (IF m > n THEN 0 ELSE n - m + 1) = b
  OBVIOUS
<1> HIDE DEF m, n
<1>2. IsFiniteSet(m .. n) /\ Cardinality(m .. n) = b
  BY <1>1, FS_Interval
<1>3. QED
  BY <1>2 DEF m, n

LEMMA UpTo ==
  ASSUME NEW k \in Nat
  PROVE  IsFiniteSet(1 .. k) /\ Cardinality(1 .. k) = k
<1>1. IsFiniteSet((0 + 1) .. (0 + k)) /\ Cardinality((0 + 1) .. (0 + k)) = k
  BY Span
<1>2. 0 + 1 = 1 /\ 0 + k = k
  OBVIOUS
<1>3. QED
  BY <1>1, <1>2

LEMMA FullCounts ==
  ASSUME NEW s \in Lists
  PROVE  LET F == {i \in DOMAIN s : s[i] = "full"}
         IN  /\ IsFiniteSet(F) /\ Cardinality(F) \in 0 .. Len(s) /\ Len(s) \in Nat
             /\ Full(s) = IF F = {} THEN None ELSE [i \in 1 .. Cardinality(F) |-> "full"]
<1> DEFINE F == {i \in DOMAIN s : s[i] = "full"}
<1>1. Len(s) \in Nat /\ DOMAIN s = 1 .. Len(s)
  BY DEF Lists
<1>2. IsFiniteSet(1 .. Len(s)) /\ Cardinality(1 .. Len(s)) = Len(s)
  BY <1>1, UpTo
<1>3. F \subseteq 1 .. Len(s)
  BY <1>1
<1>4. IsFiniteSet(F) /\ Cardinality(F) \in Nat /\ Cardinality(F) <= Len(s)
  BY <1>2, <1>3, FS_Subset, FS_CardinalityType
<1>5. (Cardinality(F) = 0) <=> F = {}
  BY <1>4, FS_EmptySet
<1>6. QED
  BY <1>1, <1>4, <1>5 DEF Full, If

LEMMA FullOfNothing == Full(<<>>) = None
<1>1. <<>> \in Lists /\ {i \in DOMAIN <<>> : <<>>[i] = "full"} = {}
  BY DEF Lists
<1>2. QED
  BY <1>1, FullCounts

\* What is written of a list is nothing, or a list that is not nothing.
LEMMA FullIs ==
  ASSUME NEW s \in Lists
  PROVE  \/ Full(s) = None
         \/ /\ Full(s) # None /\ Full(s) \in Seq({"full"}) /\ Full(s) \in Lists
            /\ Full(s) # <<>>
<1> DEFINE F == {i \in DOMAIN s : s[i] = "full"}
           n == Cardinality(F)
<1>1. CASE F = {}
  BY <1>1, FullCounts
<1>2. CASE F # {}
  <2>1. Full(s) = [i \in 1 .. n |-> "full"] /\ n \in Nat
    BY <1>2, FullCounts
  <2>2. n # 0
    BY <1>2, FullCounts, FS_EmptySet
  <2> HIDE DEF n
  <2>3. Full(s) \in Seq({"full"}) /\ Len(Full(s)) = n
    BY <2>1
  <2>4. Full(s) \in Seq(Words) /\ Full(s) \in Lists
    BY <2>1 DEF Words, Lists
  <2>5. QED
    BY <2>2, <2>3, <2>4, NoneAssumption
<1>3. QED
  BY <1>1, <1>2

\* A list that was read says of itself what it was read from.
LEMMA FullAgain ==
  ASSUME NEW t \in Seq({"full"}), t # <<>>
  PROVE  Full(t) = t
<1>1. t \in Lists /\ Len(t) \in Nat /\ Len(t) # 0 /\ DOMAIN t = 1 .. Len(t)
  BY DEF Lists
<1>2. {i \in DOMAIN t : t[i] = "full"} = 1 .. Len(t)
  BY <1>1
<1>3. Cardinality(1 .. Len(t)) = Len(t)
  BY <1>1, UpTo
<1>4. Full(t) = [i \in 1 .. Len(t) |-> "full"]
  <2> DEFINE F == {i \in DOMAIN t : t[i] = "full"}
  <2>1. F = 1 .. Len(t)
    BY <1>2
  <2> HIDE DEF F
  <2>2. F # {} /\ Cardinality(F) = Len(t)
    BY <1>1, <1>3, <2>1
  <2> USE DEF F
  <2>3. F # {} => Full(t) = [i \in 1 .. Cardinality(F) |-> "full"]
    BY <1>1, FullCounts
  <2> HIDE DEF F
  <2>4. QED
    BY <2>2, <2>3
<1>5. QED
  BY <1>1, <1>4

\* What is added to a list comes last when it is written.
LEMMA FullEndsWith ==
  ASSUME NEW e \in Lists, NEW t \in Seq({"full"}), t # <<>>
  PROVE  IsSuffix(t, Full(e \o t)) /\ Full(e \o t) # None
<1> DEFINE s == e \o t
           F == {i \in DOMAIN s : s[i] = "full"}
           n == Cardinality(F)
           last == (Len(e) + 1) .. (Len(e) + Len(t))
<1>1. Len(e) \in Nat /\ Len(t) \in Nat /\ Len(t) > 0
  BY DEF Lists
<1>2. s \in Lists /\ Len(s) = Len(e) + Len(t)
  BY DEF Lists
<1>3. last \subseteq F
  <2>1. \A i \in last : s[i] = t[i - Len(e)] /\ i - Len(e) \in DOMAIN t /\ i \in DOMAIN s
    BY <1>1, <1>2 DEF Lists
  <2>2. QED
    BY <2>1
<1>4. IsFiniteSet(last) /\ Cardinality(last) = Len(t)
  BY <1>1, Span
<1> HIDE DEF s
<1>5. IsFiniteSet(F) /\ n \in Nat /\ (F # {} => Full(s) = [i \in 1 .. n |-> "full"])
  <2>1. IsFiniteSet(F) /\ n \in 0 .. Len(s) /\ Len(s) \in Nat
    BY <1>2, FullCounts
  <2>2. F # {} => Full(s) = [i \in 1 .. n |-> "full"]
    BY <1>2, FullCounts
  <2>3. QED
    BY <2>1, <2>2
<1>6. Len(t) <= n
  BY <1>3, <1>4, <1>5, FS_Subset
<1>7. F # {}
  <2>1. Len(e) + 1 \in last
    BY <1>1
  <2>2. QED
    BY <1>3, <2>1
<1> DEFINE u == [i \in 1 .. n |-> "full"]
<1>8. Full(s) = u
  BY <1>5, <1>7
<1> HIDE DEF n
<1>9. u \in Seq({"full"}) /\ Len(u) = n
  BY <1>5
<1>10. /\ Reverse(t) = [i \in 1 .. Len(t) |-> "full"]
       /\ Reverse(u) = [i \in 1 .. n |-> "full"]
  BY <1>1, <1>5, <1>9 DEF Reverse
<1>11. IsSuffix(t, u)
  <2>1. Len(Reverse(t)) = Len(t) /\ Len(Reverse(u)) = n
    BY <1>1, <1>5, <1>10
  <2>2. SubSeq(Reverse(t), 1, Len(t)) = SubSeq(Reverse(u), 1, Len(t))
    BY <1>1, <1>5, <1>6, <1>10
  <2>3. QED
    BY <1>6, <2>1, <2>2 DEF IsSuffix, IsPrefix
<1>12. u \in Seq(Words)
  BY <1>5 DEF Words
<1>13. QED
  BY <1>8, <1>11, <1>12, NoneAssumption DEF s

\* A list through two copies, of which the first reader is e.
LEMMA ListCopies ==
  ASSUME NEW d \in Lists, NEW e \in Lists, NEW x, NEW r, NEW y, NEW q, NEW z,
         x = Full(d), r = Appended(e, x), y = Full(r), q = Appended(e, y), z = Full(q)
  PROVE  /\ r \in Lists /\ (x # None => IsSuffix(x, y) /\ y # None)
         /\ e = <<>> => y = x /\ z = y
<1>1. CASE x = None
  <2>1. r = e
    BY <1>1 DEF Appended
  <2>2. QED
    BY <1>1, <2>1, FullOfNothing DEF Appended
<1>2. CASE x # None
  <2>1. x \in Seq({"full"}) /\ x \in Lists /\ x # <<>> /\ r = e \o x
    BY <1>2, FullIs DEF Appended
  <2>2. r \in Lists
    BY <2>1 DEF Lists
  <2>3. IsSuffix(x, y) /\ y # None
    BY <2>1, FullEndsWith
  <2>4. ASSUME e = <<>> PROVE y = x /\ z = y
    <3>1. r = x /\ y = x
      BY <2>1, <2>4, FullAgain
    <3>2. q = x
      BY <1>2, <2>1, <2>4, <3>1 DEF Appended
    <3>3. QED
      BY <2>1, <3>1, <3>2, FullAgain
  <2>5. QED
    BY <2>2, <2>3, <2>4
<1>3. QED
  BY <1>1, <1>2

\* BootConfig: what toXML() writes, and what fromXML() takes of it.
BootConfigSaid(d, x) ==
  /\ x.devices = Full(d.devices)
  /\ x.bootMenuTimeout = If(d.bootMenu # None, d.bootMenuTimeout)
  /\ x.bootMenu = d.bootMenu
BootConfigTaken(e, x, r) ==
  /\ r.devices = (Appended(e.devices, x.devices))
  /\ r.bootMenuTimeout = (IF x.bootMenu # None THEN x.bootMenuTimeout
                          ELSE e.bootMenuTimeout)
  /\ r.bootMenu = Kept(e, x, "bootMenu")

LEMMA BootConfigHalves ==
  ASSUME NEW d, NEW x, Shaped("BootConfig", d)
  PROVE  /\ Shaped("BootConfig", Says("BootConfig", d))
         /\ BootConfigSaid(d, Says("BootConfig", d))
         /\ Shaped("BootConfig", ReadInto("BootConfig", d, x))
         /\ BootConfigTaken(d, x, ReadInto("BootConfig", d, x))
<1>1. /\ Says("BootConfig", d) = BootConfigXml(d)
      /\ ReadInto("BootConfig", d, x) = BootConfigRead(d, x)
      /\ Fields["BootConfig"] = BootConfigFields
  BY DEF Says, ReadInto, Fields
<1>2. Shaped("BootConfig", BootConfigXml(d)) /\ BootConfigSaid(d, BootConfigXml(d))
  BY <1>1 DEF BootConfigSaid, BootConfigXml, BootConfigFields, AsSet, Shaped
<1> DEFINE m == Merged(d, x)
<1>3. /\ DOMAIN m = DOMAIN BootConfigFields
      /\ m = [f \in DOMAIN BootConfigFields |-> m[f]]
      /\ \A f \in DOMAIN BootConfigFields : m[f] = Kept(d, x, f)
  BY <1>1, MergedIs DEF Shaped
<1> HIDE DEF m
<1>4. /\ Shaped("BootConfig", BootConfigRead(d, x))
      /\ BootConfigTaken(d, x, BootConfigRead(d, x))
  BY <1>1, <1>3 DEF BootConfigTaken, BootConfigRead, BootConfigFields, Shaped, m
<1>5. QED
  BY <1>1, <1>2, <1>4

LEMMA BootConfigCopies ==
  ASSUME NEW d, NEW e, NEW x, NEW r, NEW y, NEW q, NEW z,
         Rounds("BootConfig", d, e, x, r, y, q, z)
  PROVE  Agrees("BootConfig", x, r, y) /\ Settles("BootConfig", e, x, r, y, q, z)
<1>1. /\ BootConfigSaid(d, x) /\ BootConfigTaken(e, x, r) /\ BootConfigSaid(r, y)
      /\ BootConfigTaken(e, y, q) /\ BootConfigSaid(q, z)
      /\ Shaped("BootConfig", x) /\ Shaped("BootConfig", r) /\ Shaped("BootConfig", y)
      /\ Shaped("BootConfig", q) /\ Shaped("BootConfig", z)
  BY BootConfigHalves DEF Rounds, Held
<1>2. /\ Fields["BootConfig"] = BootConfigFields /\ "BootConfig" \in Classes
      /\ Held("BootConfig", d) /\ Held("BootConfig", e) /\ Formed("BootConfig", d)
  BY DEF Fields, Rounds, Classes
<1>3. \A f \in DOMAIN BootConfigFields : IsList("BootConfig", f) <=> f \in {"devices"}
  BY DEF IsList, BootConfigFields
<1>4. \A f \in {"devices"} :
        /\ r[f] \in Lists /\ (x[f] # None => IsSuffix(x[f], y[f]) /\ y[f] # None)
        /\ e[f] = <<>> => y[f] = x[f] /\ z[f] = y[f]
  <2>1. /\ d.devices \in Lists /\ e.devices \in Lists
        /\ x.devices = Full(d.devices) /\ r.devices = Appended(e.devices, x.devices)
        /\ y.devices = Full(r.devices)
        /\ q.devices = Appended(e.devices, y.devices) /\ z.devices = Full(q.devices)
    BY <1>1, <1>2, <1>3 DEF Held, Offered, Lists, BootConfigSaid, BootConfigTaken,
       BootConfigFields
  <2>2. QED
    BY <2>1, ListCopies
<1>5. \A f \in DOMAIN BootConfigFields \ {"devices"} : r[f] \in {d[f], e[f]}
  BY <1>1, NoWord DEF BootConfigSaid, BootConfigTaken, BootConfigFields, Kept, If
<1>6. Held("BootConfig", r)
  <2>1. \A f \in {"devices"} : Offered("BootConfig", f, r[f])
    BY <1>3, <1>4 DEF Offered, Lists, BootConfigFields
  <2>2. \A f \in DOMAIN BootConfigFields \ {"devices"} : Offered("BootConfig", f, r[f])
    BY <1>2, <1>5 DEF Held
  <2>3. QED
    BY <1>1, <1>2, <2>1, <2>2 DEF Held
<1>7. \A f \in DOMAIN BootConfigFields \ {"devices"} : x[f] # None => y[f] = x[f]
  BY <1>1, NoWord DEF BootConfigSaid, BootConfigTaken, BootConfigFields, Kept, If, Words
<1>8. \A f \in DOMAIN BootConfigFields : x[f] # None => Formed("BootConfig", r)
  BY <1>1, <1>2, <1>4, NoWord DEF Formed, BootConfigEmpty, Unset, Shaped,
     BootConfigSaid, BootConfigTaken, BootConfigFields, Kept, If, Words
<1>9. ASSUME e = New["BootConfig"] PROVE Settles("BootConfig", e, x, r, y, q, z)
  <2>1. e.devices = <<>> /\ e.bootMenu = None /\ e.bootMenuTimeout = None
    BY <1>2, <1>9 DEF New, Initial, BootConfigFields, Text, Flag, List
  <2>2. \A f \in DOMAIN BootConfigFields : y[f] = x[f] \/ y[f] = None
    BY <1>1, <1>4, <2>1, NoWord DEF BootConfigSaid, BootConfigTaken, BootConfigFields,
       Kept, If, Words
  <2>3. \A f \in DOMAIN BootConfigFields : z[f] = y[f]
    BY <1>1, <1>4, <2>1, NoWord DEF BootConfigSaid, BootConfigTaken, BootConfigFields,
       Kept, If, Words
  <2>4. ~ Formed("BootConfig", e)
    BY <2>1, FullOfNothing DEF Formed, BootConfigEmpty, Unset
  <2>5. Formed("BootConfig", r) => Formed("BootConfig", q)
    BY <1>1, <2>1, <2>3, NoWord DEF Formed, BootConfigEmpty, Unset, Shaped,
       BootConfigSaid, BootConfigTaken, BootConfigFields, Kept, If, Words
  <2>6. z = y
    BY <1>1, <1>2, <2>3 DEF Shaped
  <2>7. QED
    BY <1>2, <1>9, <2>2, <2>4, <2>5, <2>6 DEF Settles
<1>10. QED
  BY <1>1, <1>2, <1>3, <1>4, <1>6, <1>7, <1>8, <1>9 DEF Agrees, Settles, Misread,
     BootConfigFields

\* CPUTune: what toXML() writes, and what fromXML() takes of it.
CPUTuneSaid(d, x) ==
  /\ x.vcpuPins = Full(d.vcpuPins)
  /\ x.iothreadPins = Full(d.iothreadPins)
  /\ \A f \in DOMAIN CPUTuneFields \ {"vcpuPins", "iothreadPins"} : x[f] = d[f]
CPUTuneTaken(e, x, r) ==
  /\ r.vcpuPins = (Appended(e.vcpuPins, x.vcpuPins))
  /\ r.iothreadPins = (Appended(e.iothreadPins, x.iothreadPins))
  /\ \A f \in DOMAIN CPUTuneFields \ {"vcpuPins", "iothreadPins"} : r[f] = Kept(e, x, f)

LEMMA CPUTuneHalves ==
  ASSUME NEW d, NEW x, Shaped("CPUTune", d)
  PROVE  /\ Shaped("CPUTune", Says("CPUTune", d)) /\ CPUTuneSaid(d, Says("CPUTune", d))
         /\ Shaped("CPUTune", ReadInto("CPUTune", d, x))
         /\ CPUTuneTaken(d, x, ReadInto("CPUTune", d, x))
<1>1. /\ Says("CPUTune", d) = CPUTuneXml(d)
      /\ ReadInto("CPUTune", d, x) = CPUTuneRead(d, x)
      /\ Fields["CPUTune"] = CPUTuneFields
  BY DEF Says, ReadInto, Fields
<1>2. Shaped("CPUTune", CPUTuneXml(d)) /\ CPUTuneSaid(d, CPUTuneXml(d))
  BY <1>1 DEF CPUTuneSaid, CPUTuneXml, CPUTuneFields, AsSet, Shaped
<1> DEFINE m == Merged(d, x)
<1>3. /\ DOMAIN m = DOMAIN CPUTuneFields /\ m = [f \in DOMAIN CPUTuneFields |-> m[f]]
      /\ \A f \in DOMAIN CPUTuneFields : m[f] = Kept(d, x, f)
  BY <1>1, MergedIs DEF Shaped
<1> HIDE DEF m
<1>4. Shaped("CPUTune", CPUTuneRead(d, x)) /\ CPUTuneTaken(d, x, CPUTuneRead(d, x))
  BY <1>1, <1>3 DEF CPUTuneTaken, CPUTuneRead, CPUTuneFields, Shaped, m
<1>5. QED
  BY <1>1, <1>2, <1>4

LEMMA CPUTuneCopies ==
  ASSUME NEW d, NEW e, NEW x, NEW r, NEW y, NEW q, NEW z,
         Rounds("CPUTune", d, e, x, r, y, q, z)
  PROVE  Agrees("CPUTune", x, r, y) /\ Settles("CPUTune", e, x, r, y, q, z)
<1>1. /\ CPUTuneSaid(d, x) /\ CPUTuneTaken(e, x, r) /\ CPUTuneSaid(r, y)
      /\ CPUTuneTaken(e, y, q) /\ CPUTuneSaid(q, z)
      /\ Shaped("CPUTune", x) /\ Shaped("CPUTune", r) /\ Shaped("CPUTune", y)
      /\ Shaped("CPUTune", q) /\ Shaped("CPUTune", z)
  BY CPUTuneHalves DEF Rounds, Held
<1>2. /\ Fields["CPUTune"] = CPUTuneFields /\ "CPUTune" \in Classes
      /\ Held("CPUTune", d) /\ Held("CPUTune", e) /\ Formed("CPUTune", d)
  BY DEF Fields, Rounds, Classes
<1>3. \A f \in DOMAIN CPUTuneFields :
        IsList("CPUTune", f) <=> f \in {"vcpuPins", "iothreadPins"}
  BY DEF IsList, CPUTuneFields
<1>4. \A f \in {"vcpuPins", "iothreadPins"} :
        /\ r[f] \in Lists /\ (x[f] # None => IsSuffix(x[f], y[f]) /\ y[f] # None)
        /\ e[f] = <<>> => y[f] = x[f] /\ z[f] = y[f]
  <2>1. /\ d.vcpuPins \in Lists /\ e.vcpuPins \in Lists
        /\ x.vcpuPins = Full(d.vcpuPins)
        /\ r.vcpuPins = Appended(e.vcpuPins, x.vcpuPins)
        /\ y.vcpuPins = Full(r.vcpuPins)
        /\ q.vcpuPins = Appended(e.vcpuPins, y.vcpuPins) /\ z.vcpuPins = Full(q.vcpuPins)
    BY <1>1, <1>2, <1>3 DEF Held, Offered, Lists, CPUTuneSaid, CPUTuneTaken, CPUTuneFields
  <2>2. /\ d.iothreadPins \in Lists /\ e.iothreadPins \in Lists
        /\ x.iothreadPins = Full(d.iothreadPins)
        /\ r.iothreadPins = Appended(e.iothreadPins, x.iothreadPins)
        /\ y.iothreadPins = Full(r.iothreadPins)
        /\ q.iothreadPins = Appended(e.iothreadPins, y.iothreadPins)
        /\ z.iothreadPins = Full(q.iothreadPins)
    BY <1>1, <1>2, <1>3 DEF Held, Offered, Lists, CPUTuneSaid, CPUTuneTaken, CPUTuneFields
  <2>3. QED
    BY <2>1, <2>2, ListCopies
<1>5. \A f \in DOMAIN CPUTuneFields \ {"vcpuPins", "iothreadPins"} : r[f] \in {d[f], e[f]}
  BY <1>1, NoWord DEF CPUTuneSaid, CPUTuneTaken, CPUTuneFields, Kept
<1>6. Held("CPUTune", r)
  <2>1. \A f \in {"vcpuPins", "iothreadPins"} : Offered("CPUTune", f, r[f])
    BY <1>3, <1>4 DEF Offered, Lists, CPUTuneFields
  <2>2. \A f \in DOMAIN CPUTuneFields \ {"vcpuPins", "iothreadPins"} : Offered("CPUTune", f, r[f])
    BY <1>2, <1>5 DEF Held
  <2>3. QED
    BY <1>1, <1>2, <2>1, <2>2 DEF Held
<1>7. \A f \in DOMAIN CPUTuneFields \ {"vcpuPins", "iothreadPins"} :
        x[f] # None => y[f] = x[f]
  BY <1>1, NoWord DEF CPUTuneSaid, CPUTuneTaken, CPUTuneFields, Kept, Words
<1>8. /\ ~ Formed("CPUTune", r) => \A f \in DOMAIN CPUTuneFields : y[f] = None
      /\ ~ Formed("CPUTune", q) => \A f \in DOMAIN CPUTuneFields : z[f] = None
  BY <1>1 DEF Formed, CPUTuneEmpty, Unset, CPUTuneSaid, CPUTuneFields
<1>9. \A f \in DOMAIN CPUTuneFields : x[f] # None => Formed("CPUTune", r)
  BY <1>3, <1>4, <1>7, <1>8
<1>10. ASSUME e = New["CPUTune"] PROVE Settles("CPUTune", e, x, r, y, q, z)
  <2>1. e.shares = None /\ e.period = None /\ e.quota = None /\
        e.realtimePriority = None /\ e.vcpuPins = <<>> /\ e.emulatorPin = None /\
        e.iothreadPins = <<>>
    BY <1>2, <1>10 DEF New, Initial, CPUTuneFields, Text, Flag, List
  <2>2. \A f \in DOMAIN CPUTuneFields : y[f] = x[f] \/ y[f] = None
    BY <1>1, <1>4, <2>1, NoWord DEF CPUTuneSaid, CPUTuneTaken, CPUTuneFields, Kept, Words
  <2>3. \A f \in DOMAIN CPUTuneFields : z[f] = y[f]
    BY <1>1, <1>4, <2>1, NoWord DEF CPUTuneSaid, CPUTuneTaken, CPUTuneFields, Kept, Words
  <2>4. ~ Formed("CPUTune", e)
    BY <2>1, FullOfNothing DEF Formed, CPUTuneEmpty, Unset
  <2>5. Formed("CPUTune", r) => Formed("CPUTune", q)
    <3>1. Formed("CPUTune", r) => \E f \in DOMAIN CPUTuneFields : y[f] # None
      BY <1>1 DEF Formed, CPUTuneEmpty, Unset, CPUTuneSaid, CPUTuneFields
    <3>2. QED
      BY <1>8, <2>3, <3>1
  <2>6. z = y
    BY <1>1, <1>2, <2>3 DEF Shaped
  <2>7. QED
    BY <1>2, <1>10, <2>2, <2>4, <2>5, <2>6 DEF Settles
<1>11. QED
  BY <1>1, <1>2, <1>3, <1>4, <1>6, <1>7, <1>9, <1>10 DEF Agrees, Settles, Misread,
     CPUTuneFields

\* NUMA: what toXML() writes, and what fromXML() takes of it.
NUMASaid(d, x) ==
  /\ x.cells = Full(d.cells)
  /\ \A f \in DOMAIN NUMAFields \ {"cells"} : x[f] = d[f]
NUMATaken(e, x, r) ==
  /\ r.cells = (Appended(e.cells, x.cells))
  /\ r.tuneMode = (IF HasTune(x) THEN x.tuneMode ELSE e.tuneMode)
  /\ r.tunePlacement = (IF HasTune(x) THEN x.tunePlacement ELSE e.tunePlacement)

LEMMA NUMAHalves ==
  ASSUME NEW d, NEW x, Shaped("NUMA", d)
  PROVE  /\ Shaped("NUMA", Says("NUMA", d)) /\ NUMASaid(d, Says("NUMA", d))
         /\ Shaped("NUMA", ReadInto("NUMA", d, x))
         /\ NUMATaken(d, x, ReadInto("NUMA", d, x))
<1>1. /\ Says("NUMA", d) = NUMAXml(d) /\ ReadInto("NUMA", d, x) = NUMARead(d, x)
      /\ Fields["NUMA"] = NUMAFields
  BY DEF Says, ReadInto, Fields
<1>2. Shaped("NUMA", NUMAXml(d)) /\ NUMASaid(d, NUMAXml(d))
  BY <1>1 DEF NUMASaid, NUMAXml, NUMAFields, AsSet, Shaped
<1> DEFINE m == Merged(d, x)
<1>3. /\ DOMAIN m = DOMAIN NUMAFields /\ m = [f \in DOMAIN NUMAFields |-> m[f]]
      /\ \A f \in DOMAIN NUMAFields : m[f] = Kept(d, x, f)
  BY <1>1, MergedIs DEF Shaped
<1> HIDE DEF m
<1>4. Shaped("NUMA", NUMARead(d, x)) /\ NUMATaken(d, x, NUMARead(d, x))
  BY <1>1, <1>3 DEF NUMATaken, NUMARead, NUMAFields, Shaped, m
<1>5. QED
  BY <1>1, <1>2, <1>4

LEMMA NUMACopies ==
  ASSUME NEW d, NEW e, NEW x, NEW r, NEW y, NEW q, NEW z,
         Rounds("NUMA", d, e, x, r, y, q, z)
  PROVE  Agrees("NUMA", x, r, y) /\ Settles("NUMA", e, x, r, y, q, z)
<1>1. /\ NUMASaid(d, x) /\ NUMATaken(e, x, r) /\ NUMASaid(r, y)
      /\ NUMATaken(e, y, q) /\ NUMASaid(q, z)
      /\ Shaped("NUMA", x) /\ Shaped("NUMA", r) /\ Shaped("NUMA", y)
      /\ Shaped("NUMA", q) /\ Shaped("NUMA", z)
  BY NUMAHalves DEF Rounds, Held
<1>2. /\ Fields["NUMA"] = NUMAFields /\ "NUMA" \in Classes
      /\ Held("NUMA", d) /\ Held("NUMA", e) /\ Formed("NUMA", d)
  BY DEF Fields, Rounds, Classes
<1>3. \A f \in DOMAIN NUMAFields : IsList("NUMA", f) <=> f \in {"cells"}
  BY DEF IsList, NUMAFields
<1>4. \A f \in {"cells"} :
        /\ r[f] \in Lists /\ (x[f] # None => IsSuffix(x[f], y[f]) /\ y[f] # None)
        /\ e[f] = <<>> => y[f] = x[f] /\ z[f] = y[f]
  <2>1. /\ d.cells \in Lists /\ e.cells \in Lists
        /\ x.cells = Full(d.cells) /\ r.cells = Appended(e.cells, x.cells)
        /\ y.cells = Full(r.cells)
        /\ q.cells = Appended(e.cells, y.cells) /\ z.cells = Full(q.cells)
    BY <1>1, <1>2, <1>3 DEF Held, Offered, Lists, NUMASaid, NUMATaken, NUMAFields
  <2>2. QED
    BY <2>1, ListCopies
<1>5. \A f \in DOMAIN NUMAFields \ {"cells"} : r[f] \in {d[f], e[f]}
  BY <1>1, NoWord DEF NUMASaid, NUMATaken, NUMAFields, Kept, HasTune
<1>6. Held("NUMA", r)
  <2>1. \A f \in {"cells"} : Offered("NUMA", f, r[f])
    BY <1>3, <1>4 DEF Offered, Lists, NUMAFields
  <2>2. \A f \in DOMAIN NUMAFields \ {"cells"} : Offered("NUMA", f, r[f])
    BY <1>2, <1>5 DEF Held
  <2>3. QED
    BY <1>1, <1>2, <2>1, <2>2 DEF Held
<1>7. \A f \in DOMAIN NUMAFields \ {"cells"} : x[f] # None => y[f] = x[f]
  BY <1>1, NoWord DEF NUMASaid, NUMATaken, NUMAFields, Kept, HasTune, Words
<1>8. \A f \in DOMAIN NUMAFields : x[f] # None => Formed("NUMA", r)
  BY <1>1, <1>2, <1>4, NoWord DEF Formed, NUMAEmpty, Unset, Shaped, NUMASaid, NUMATaken,
     NUMAFields, Kept, HasTune, Words
<1>9. ASSUME e = New["NUMA"] PROVE Settles("NUMA", e, x, r, y, q, z)
  <2>1. e.cells = <<>> /\ e.tuneMode = None /\ e.tunePlacement = None
    BY <1>2, <1>9 DEF New, Initial, NUMAFields, Text, Flag, List
  <2>2. \A f \in DOMAIN NUMAFields : y[f] = x[f] \/ y[f] = None
    BY <1>1, <1>4, <2>1, NoWord DEF NUMASaid, NUMATaken, NUMAFields, Kept, HasTune, Words
  <2>3. \A f \in DOMAIN NUMAFields : z[f] = y[f]
    BY <1>1, <1>4, <2>1, NoWord DEF NUMASaid, NUMATaken, NUMAFields, Kept, HasTune, Words
  <2>4. ~ Formed("NUMA", e)
    BY <2>1, FullOfNothing DEF Formed, NUMAEmpty, Unset, HasTune
  <2>5. Formed("NUMA", r) => Formed("NUMA", q)
    BY <1>1, <2>1, <2>3, NoWord DEF Formed, NUMAEmpty, Unset, Shaped, NUMASaid,
       NUMATaken, NUMAFields, Kept, HasTune, Words
  <2>6. z = y
    BY <1>1, <1>2, <2>3 DEF Shaped
  <2>7. QED
    BY <1>2, <1>9, <2>2, <2>4, <2>5, <2>6 DEF Settles
<1>10. QED
  BY <1>1, <1>2, <1>3, <1>4, <1>6, <1>7, <1>8, <1>9 DEF Agrees, Settles, Misread,
     NUMAFields

\* With a thread in it the element does not parse, and none is read.
LEMMA IOThreadConfigCopies ==
  ASSUME NEW d, NEW e, NEW x, NEW r, NEW y, NEW q, NEW z,
         Rounds("IOThreadConfig", d, e, x, r, y, q, z)
  PROVE  Agrees("IOThreadConfig", x, r, y) /\ Settles("IOThreadConfig", e, x, r, y, q, z)
<1>1. /\ Fields["IOThreadConfig"] = IOThreadConfigFields /\ "IOThreadConfig" \in Classes
      /\ Held("IOThreadConfig", d) /\ Held("IOThreadConfig", e)
      /\ Formed("IOThreadConfig", d)
  BY DEF Fields, Rounds, Classes
<1>2. \A p, s : /\ Says("IOThreadConfig", p) = IOThreadConfigXml(p)
               /\ ReadInto("IOThreadConfig", p, s) = IOThreadConfigRead(p, s)
  BY DEF Says, ReadInto
<1>3. /\ x = [threads |-> Full(d.threads)]
      /\ r = [threads |-> Appended(e.threads, x.threads)]
      /\ y = [threads |-> Full(r.threads)]
      /\ q = [threads |-> Appended(e.threads, y.threads)]
      /\ z = [threads |-> Full(q.threads)]
  BY <1>2 DEF Rounds, IOThreadConfigXml, IOThreadConfigRead
<1>4. x.threads = None
  BY <1>1, <1>3 DEF Formed, IOThreadConfigParses
<1>5. r.threads = e.threads
  BY <1>3, <1>4 DEF Appended
<1>6. Shaped("IOThreadConfig", x) /\ Shaped("IOThreadConfig", r)
  BY <1>1, <1>3 DEF Shaped, IOThreadConfigFields
<1>7. Held("IOThreadConfig", r)
  BY <1>1, <1>5, <1>6 DEF Held, IOThreadConfigFields
<1>8. ASSUME e = New["IOThreadConfig"]
      PROVE  Settles("IOThreadConfig", e, x, r, y, q, z)
  <2>1. e.threads = <<>>
    BY <1>1, <1>8 DEF New, Initial, IOThreadConfigFields, List
  <2>2. y.threads = None /\ z = y
    BY <1>3, <1>5, <2>1, FullOfNothing DEF Appended
  <2>3. ~ Formed("IOThreadConfig", e) /\ ~ Formed("IOThreadConfig", r)
    BY <1>5, <2>1 DEF Formed, IOThreadConfigEmpty
  <2>4. QED
    BY <2>2, <2>3 DEF Settles
<1>9. QED
  BY <1>1, <1>4, <1>6, <1>7, <1>8 DEF Agrees, Settles, IOThreadConfigFields

-----------------------------------------------------------------------------
(* All classes. *)

\* Of every class, what an object writes, another reads, and the two write again.
LEMMA AllCopies ==
  ASSUME NEW c \in Classes, NEW d, NEW e, NEW x, NEW r, NEW y, NEW q, NEW z,
         Rounds(c, d, e, x, r, y, q, z)
  PROVE  Agrees(c, x, r, y) /\ Settles(c, e, x, r, y, q, z)
<1>1. \/ c \in Plain \cup Silent \cup {"SecLabel", "IOThread"}
      \/ c = "Disk" \/ c = "Network" \/ c = "Controller" \/ c = "Input"
      \/ c = "Video" \/ c = "Graphics" \/ c = "Channel" \/ c = "IOMMU"
      \/ c = "Panic" \/ c = "Parallel" \/ c = "Serial" \/ c = "USBRedir"
      \/ c = "VSock" \/ c = "LaunchSecurity" \/ c = "MemoryBacking"
      \/ c = "Clock" \/ c = "Firmware" \/ c = "BootConfig" \/ c = "CPUTune"
      \/ c = "NUMA" \/ c = "IOThreadConfig"
  BY DEF Classes, Fields, Plain, Silent
<1>2. CASE c \in Plain \cup Silent \cup {"SecLabel", "IOThread"}
  BY <1>2, PlainCopies, SilentCopies, WholeCopies
<1>3. CASE c = "Disk"
  BY <1>3, DiskCopies
<1>4. CASE c = "Network"
  BY <1>4, NetworkCopies
<1>5. CASE c = "Controller"
  BY <1>5, ControllerCopies
<1>6. CASE c = "Input"
  BY <1>6, InputCopies
<1>7. CASE c = "Video"
  BY <1>7, VideoCopies
<1>8. CASE c = "Graphics"
  BY <1>8, GraphicsCopies
<1>9. CASE c = "Channel"
  BY <1>9, ChannelCopies
<1>10. CASE c = "IOMMU"
  BY <1>10, IOMMUCopies
<1>11. CASE c = "Panic"
  BY <1>11, PanicCopies
<1>12. CASE c = "Parallel"
  BY <1>12, ParallelCopies
<1>13. CASE c = "Serial"
  BY <1>13, SerialCopies
<1>14. CASE c = "USBRedir"
  BY <1>14, USBRedirCopies
<1>15. CASE c = "VSock"
  BY <1>15, VSockCopies
<1>16. CASE c = "LaunchSecurity"
  BY <1>16, LaunchSecurityCopies
<1>17. CASE c = "MemoryBacking"
  BY <1>17, MemoryBackingCopies
<1>18. CASE c = "Clock"
  BY <1>18, ClockCopies
<1>19. CASE c = "Firmware"
  BY <1>19, FirmwareCopies
<1>20. CASE c = "BootConfig"
  BY <1>20, BootConfigCopies
<1>21. CASE c = "CPUTune"
  BY <1>21, CPUTuneCopies
<1>22. CASE c = "NUMA"
  BY <1>22, NUMACopies
<1>23. CASE c = "IOThreadConfig"
  BY <1>23, IOThreadConfigCopies
<1>24. QED
  BY <1>1, <1>2, <1>3, <1>4, <1>5, <1>6, <1>7, <1>8, <1>9, <1>10, <1>11, <1>12, <1>13,
     <1>14, <1>15, <1>16, <1>17, <1>18, <1>19, <1>20, <1>21, <1>22, <1>23

\* Every member has an initial value, and a list is initially empty.
LEMMA FieldsAre ==
  ASSUME NEW c \in Classes, NEW f \in DOMAIN Fields[c]
  PROVE  /\ 1 \in DOMAIN Fields[c][f]
         /\ IsList(c, f) => Fields[c][f] = List
<1>1. /\ 1 \in DOMAIN Enum /\ 1 \in DOMAIN Text /\ 1 \in DOMAIN Free /\ 1 \in DOMAIN Flag
      /\ 1 \in DOMAIN Raised /\ 1 \in DOMAIN Number /\ 1 \in DOMAIN Addresses
      /\ 1 \in DOMAIN Timers /\ 1 \in DOMAIN List
  BY DEF Enum, Text, Free, Flag, Raised, Number, Addresses, Timers, List
<1>2. CASE c = "Disk"
  BY <1>1, <1>2 DEF Fields, DiskFields, IsList
<1>3. CASE c = "Network"
  BY <1>1, <1>3 DEF Fields, NetworkFields, IsList
<1>4. CASE c = "Controller"
  BY <1>1, <1>4 DEF Fields, ControllerFields, IsList
<1>5. CASE c = "Input"
  BY <1>1, <1>5 DEF Fields, InputFields, IsList
<1>6. CASE c = "Sound"
  BY <1>1, <1>6 DEF Fields, SoundFields, IsList
<1>7. CASE c = "Video"
  BY <1>1, <1>7 DEF Fields, VideoFields, IsList
<1>8. CASE c = "Graphics"
  BY <1>1, <1>8 DEF Fields, GraphicsFields, IsList
<1>9. CASE c = "Channel"
  BY <1>1, <1>9 DEF Fields, ChannelFields, IsList
<1>10. CASE c = "FileSystem"
  BY <1>1, <1>10 DEF Fields, FileSystemFields, IsList
<1>11. CASE c = "Host"
  BY <1>1, <1>11 DEF Fields, HostFields, IsList
<1>12. CASE c = "Memballoon"
  BY <1>1, <1>12 DEF Fields, MemballoonFields, IsList
<1>13. CASE c = "RNG"
  BY <1>1, <1>13 DEF Fields, RNGFields, IsList
<1>14. CASE c = "Smartcard"
  BY <1>1, <1>14 DEF Fields, SmartcardFields, IsList
<1>15. CASE c = "TPM"
  BY <1>1, <1>15 DEF Fields, TPMFields, IsList
<1>16. CASE c = "Watchdog"
  BY <1>1, <1>16 DEF Fields, WatchdogFields, IsList
<1>17. CASE c = "IOMMU"
  BY <1>1, <1>17 DEF Fields, IOMMUFields, IsList
<1>18. CASE c = "Panic"
  BY <1>1, <1>18 DEF Fields, PanicFields, IsList
<1>19. CASE c = "Parallel"
  BY <1>1, <1>19 DEF Fields, ParallelFields, IsList
<1>20. CASE c = "Serial"
  BY <1>1, <1>20 DEF Fields, SerialFields, IsList
<1>21. CASE c = "USBRedir"
  BY <1>1, <1>21 DEF Fields, USBRedirFields, IsList
<1>22. CASE c = "VSock"
  BY <1>1, <1>22 DEF Fields, VSockFields, IsList
<1>23. CASE c = "BlkIOTune"
  BY <1>1, <1>23 DEF Fields, BlkIOTuneFields, IsList
<1>24. CASE c = "MemTune"
  BY <1>1, <1>24 DEF Fields, MemTuneFields, IsList
<1>25. CASE c = "CloudInit"
  BY <1>1, <1>25 DEF Fields, CloudInitFields, IsList
<1>26. CASE c = "Features"
  BY <1>1, <1>26 DEF Fields, FeaturesFields, IsList
<1>27. CASE c = "LaunchSecurity"
  BY <1>1, <1>27 DEF Fields, LaunchSecurityFields, IsList
<1>28. CASE c = "SecLabel"
  BY <1>1, <1>28 DEF Fields, SecLabelFields, IsList
<1>29. CASE c = "MemoryBacking"
  BY <1>1, <1>29 DEF Fields, MemoryBackingFields, IsList
<1>30. CASE c = "BootConfig"
  BY <1>1, <1>30 DEF Fields, BootConfigFields, IsList
<1>31. CASE c = "CPUTune"
  BY <1>1, <1>31 DEF Fields, CPUTuneFields, IsList
<1>32. CASE c = "Clock"
  BY <1>1, <1>32 DEF Fields, ClockFields, IsList
<1>33. CASE c = "NUMA"
  BY <1>1, <1>33 DEF Fields, NUMAFields, IsList
<1>34. CASE c = "Firmware"
  BY <1>1, <1>34 DEF Fields, FirmwareFields, IsList
<1>35. CASE c = "IOThread"
  BY <1>1, <1>35 DEF Fields, IOThreadFields, IsList
<1>36. CASE c = "IOThreadConfig"
  BY <1>1, <1>36 DEF Fields, IOThreadConfigFields, IsList
<1>37. QED
  BY <1>2, <1>3, <1>4, <1>5, <1>6, <1>7, <1>8, <1>9, <1>10, <1>11, <1>12, <1>13, <1>14,
     <1>15, <1>16, <1>17, <1>18, <1>19, <1>20, <1>21, <1>22, <1>23, <1>24, <1>25, <1>26,
     <1>27, <1>28, <1>29, <1>30, <1>31, <1>32, <1>33, <1>34, <1>35, <1>36 DEF Classes,
     Fields

LEMMA NewHeld ==
  ASSUME NEW c \in Classes
  PROVE  Held(c, New[c])
<1>1. /\ DOMAIN New[c] = DOMAIN Fields[c]
      /\ New[c] = [f \in DOMAIN Fields[c] |-> New[c][f]]
      /\ \A f \in DOMAIN Fields[c] : New[c][f] = Fields[c][f][1]
  BY DEF New, Initial
<1>2. ASSUME NEW f \in DOMAIN Fields[c] PROVE Offered(c, f, New[c][f])
  <2>1. CASE IsList(c, f)
    <3>1. List[1] = <<>>
      BY DEF List
    <3>2. New[c][f] = <<>>
      BY <1>1, <2>1, <3>1, FieldsAre
    <3>3. QED
      BY <2>1, <3>2 DEF Offered
  <2>2. CASE ~ IsList(c, f)
    BY <1>1, <2>2, FieldsAre DEF Offered
  <2>3. QED
    BY <2>1, <2>2
<1>3. QED
  BY <1>1, <1>2 DEF Held, Shaped

\* What is written of a held object is an element of its class, and what another
\* held object reads of it leaves that one held.
LEMMA ReadHeld ==
  ASSUME NEW c \in Classes, NEW d, NEW e, Held(c, d), Held(c, e), Formed(c, d)
  PROVE  Agrees(c, Says(c, d), ReadInto(c, e, Says(c, d)),
                Says(c, ReadInto(c, e, Says(c, d))))
<1> DEFINE x == Says(c, d)
           r == ReadInto(c, e, x)
           y == Says(c, r)
           q == ReadInto(c, e, y)
           z == Says(c, q)
<1>1. Rounds(c, d, e, x, r, y, q, z)
  BY DEF Rounds
<1> HIDE DEF x, r, y, q, z
<1>2. Agrees(c, x, r, y)
  BY <1>1, AllCopies
<1>3. QED
  BY <1>2 DEF x, r, y

\* What an object of a class that does not escape writes has the class's members.
LEMMA UnescapedShape ==
  ASSUME NEW c \in Unescaped, NEW d, Shaped(c, d)
  PROVE  Shaped(c, Says(c, d))
<1>1. CASE c \in {"FileSystem", "Host", "RNG", "Smartcard", "TPM"}
  BY <1>1, SilentShape DEF Silent
<1>2. CASE c = "Disk"
  BY <1>2, DiskHalves
<1>3. CASE c = "Network"
  BY <1>3, NetworkHalves
<1>4. CASE c = "Controller"
  BY <1>4, ControllerHalves
<1>5. CASE c = "Graphics"
  BY <1>5, GraphicsHalves
<1>6. QED
  BY <1>1, <1>2, <1>3, <1>4, <1>5 DEF Unescaped

\* A new object holds no markup.
LEMMA NewEscaped ==
  ASSUME NEW c \in Classes
  PROVE  Escaped(c, Says(c, New[c]))
<1>1. c \in Unescaped => \A f \in DOMAIN Fields[c] : New[c][f] # "markup"
  <2> SUFFICES ASSUME c \in Unescaped, NEW f \in DOMAIN Fields[c]
               PROVE  New[c][f] # "markup"
    OBVIOUS
  <2>1. New[c][f] = Fields[c][f][1]
    BY DEF New, Initial
  <2>2. /\ None # "markup" /\ Enum[1] # "markup" /\ Text[1] # "markup" /\ Free[1] # "markup"
        /\ Flag[1] # "markup" /\ Raised[1] # "markup" /\ Number[1] # "markup"
        /\ Addresses[1] # "markup"
    BY NoWord DEF Enum, Text, Free, Flag, Raised, Number, Addresses, Words
  <2>3. CASE c = "Disk"
    BY <2>1, <2>2, <2>3 DEF Fields, DiskFields
  <2>4. CASE c = "Network"
    BY <2>1, <2>2, <2>4 DEF Fields, NetworkFields
  <2>5. CASE c = "Controller"
    BY <2>1, <2>2, <2>5 DEF Fields, ControllerFields
  <2>6. CASE c = "Graphics"
    BY <2>1, <2>2, <2>6 DEF Fields, GraphicsFields
  <2>7. CASE c = "FileSystem"
    BY <2>1, <2>2, <2>7 DEF Fields, FileSystemFields
  <2>8. CASE c = "Host"
    BY <2>1, <2>2, <2>8 DEF Fields, HostFields
  <2>9. CASE c = "RNG"
    BY <2>1, <2>2, <2>9 DEF Fields, RNGFields
  <2>10. CASE c = "Smartcard"
    BY <2>1, <2>2, <2>10 DEF Fields, SmartcardFields
  <2>11. CASE c = "TPM"
    BY <2>1, <2>2, <2>11 DEF Fields, TPMFields
  <2>12. QED
    BY <2>3, <2>4, <2>5, <2>6, <2>7, <2>8, <2>9, <2>10, <2>11 DEF Unescaped
<1> DEFINE e == New[c]
<1>2. Shaped(c, e)
  BY NewHeld DEF Held
<1> HIDE DEF e
<1>3. ASSUME c \in Unescaped, NEW f \in DOMAIN Says(c, e) PROVE Says(c, e)[f] # "markup"
  <2>1. \A g \in DOMAIN Fields[c] : e[g] # "markup"
    BY <1>1, <1>3 DEF e
  <2>2. None # "markup"
    BY NoWord DEF Words
  <2>3. CASE c = "Disk"
    <3>1. /\ Shaped("Disk", Says("Disk", e)) /\ DiskSaid(e, Says("Disk", e))
          /\ Fields["Disk"] = DiskFields
      BY <1>2, <2>3, DiskHalves DEF Fields
    <3>2. QED
      BY <1>3, <2>1, <2>2, <2>3, <3>1 DEF Shaped, DiskSaid, DiskFields, If
  <2>4. CASE c = "Network"
    <3>1. /\ Shaped("Network", Says("Network", e)) /\ NetworkSaid(e, Says("Network", e))
          /\ Fields["Network"] = NetworkFields
      BY <1>2, <2>4, NetworkHalves DEF Fields
    <3>2. QED
      BY <1>3, <2>1, <2>2, <2>4, <3>1 DEF Shaped, NetworkSaid, NetworkFields, If
  <2>5. CASE c = "Controller"
    <3>1. /\ Shaped("Controller", Says("Controller", e))
          /\ ControllerSaid(e, Says("Controller", e))
          /\ Fields["Controller"] = ControllerFields
      BY <1>2, <2>5, ControllerHalves DEF Fields
    <3>2. QED
      BY <1>3, <2>1, <2>2, <2>5, <3>1 DEF Shaped, ControllerSaid, ControllerFields, If
  <2>6. CASE c = "Graphics"
    <3>1. /\ Shaped("Graphics", Says("Graphics", e)) /\ GraphicsSaid(e, Says("Graphics", e))
          /\ Fields["Graphics"] = GraphicsFields
      BY <1>2, <2>6, GraphicsHalves DEF Fields
    <3>2. QED
      BY <1>3, <2>1, <2>2, <2>6, <3>1 DEF Shaped, GraphicsSaid, GraphicsFields, If
  <2>7. CASE c = "FileSystem"
    <3>1. Says(c, e) = FileSystemXml(e) /\ DOMAIN e = DOMAIN FileSystemFields
      BY <1>2, <2>7 DEF Says, Shaped, Fields
    <3>2. QED
      BY <1>2, <1>3, <2>1, <2>2, <3>1 DEF FileSystemXml, FileSystemFields, AsSet, If, Shaped
  <2>8. CASE c = "Host"
    <3>1. Says(c, e) = HostXml(e) /\ DOMAIN Fields[c] = DOMAIN HostFields
      BY <2>8 DEF Says, Fields
    <3>2. QED
      BY <1>3, <2>1, <2>2, <3>1 DEF HostXml, HostFields, If
  <2>9. CASE c = "RNG"
    <3>1. Says(c, e) = e
      BY <2>9 DEF Says, RNGXml, AsSet
    <3>2. QED
      BY <1>2, <1>3, <2>1, <3>1 DEF Shaped
  <2>10. CASE c = "Smartcard"
    <3>1. Says(c, e) = SmartcardXml(e) /\ DOMAIN e = DOMAIN SmartcardFields
      BY <1>2, <2>10 DEF Says, Shaped, Fields
    <3>2. QED
      BY <1>2, <1>3, <2>1, <2>2, <3>1 DEF SmartcardXml, SmartcardFields, AsSet, If, Shaped
  <2>11. CASE c = "TPM"
    <3>1. Says(c, e) = TPMXml(e) /\ DOMAIN e = DOMAIN TPMFields
      BY <1>2, <2>11 DEF Says, Shaped, Fields
    <3>2. QED
      BY <1>2, <1>3, <2>1, <2>2, <3>1 DEF TPMXml, TPMFields, AsSet, If, Shaped
  <2>12. QED
    BY <1>3, <2>3, <2>4, <2>5, <2>6, <2>7, <2>8, <2>9, <2>10, <2>11 DEF Unescaped
<1>4. QED
  BY <1>3 DEF Escaped, e

\* What a new object reads of an escaped element holds no markup either.
LEMMA CopyEscaped ==
  ASSUME NEW c \in Classes, NEW e, NEW x, NEW r, NEW y, NEW q, NEW z,
         e = New[c], y = Says(c, r), z = Says(c, q),
         Escaped(c, x), Agrees(c, x, r, y), Settles(c, e, x, r, y, q, z), Formed(c, r),
         Shaped(c, y)
  PROVE  Escaped(c, y) /\ Escaped(c, z)
<1>1. z = y
  BY DEF Settles
<1>2. ASSUME c \in Unescaped, NEW f \in DOMAIN y PROVE y[f] # "markup"
  <2>1. c # "USBRedir"
    BY <1>2 DEF Unescaped
  <2>2. f \in DOMAIN Fields[c] /\ f \in DOMAIN x
    BY <1>2 DEF Agrees, Shaped
  <2>3. x[f] # "markup" /\ None # "markup"
    BY <1>2, <2>2, NoWord DEF Escaped, Words
  <2>4. y[f] \in {x[f], None} \/ y[f] = Says(c, e)[f]
    BY <2>1, <2>2 DEF Settles
  <2>5. Shaped(c, Says(c, e)) /\ Escaped(c, Says(c, e))
    BY NewEscaped, NewHeld, UnescapedShape, <1>2 DEF Held
  <2>6. Says(c, e)[f] # "markup"
    BY <1>2, <2>2, <2>5 DEF Escaped, Shaped
  <2>7. QED
    BY <2>3, <2>4, <2>6
<1>3. QED
  BY <1>1, <1>2 DEF Escaped

LEMMA CopyIs ==
  ASSUME NEW c \in Classes, NEW d
  PROVE  /\ Parses(c, d) => /\ toXML(c, d).says = Says(c, d)
                            /\ Copy(c, d) = ReadInto(c, New[c], Says(c, d))
         /\ ~ Parses(c, d) => toXML(c, d).says = Blank[c] /\ Copy(c, d) = New[c]
  BY DEF Copy, fromXML, toXML

\* A copy says what the original says, or what a new object does, and a copy of it
\* says the same.
LEMMA CopyTells ==
  ASSUME NEW c \in Classes, NEW d, Held(c, d)
  PROVE  /\ toXML(c, Copy(c, Copy(c, d))).says = toXML(c, Copy(c, d)).says
         /\ \A f \in DOMAIN Fields[c] : <<c, f>> # <<"USBRedir", "port">> =>
              toXML(c, Copy(c, d)).says[f] \in
                {toXML(c, d).says[f], toXML(c, New[c]).says[f]}
<1> DEFINE W(p) == toXML(c, p).says
           e == New[c]
<1>1. Held(c, e)
  BY NewHeld
<1>2. /\ Shaped(c, Blank[c]) /\ DOMAIN Blank[c] = DOMAIN Fields[c]
      /\ \A f \in DOMAIN Fields[c] : Blank[c][f] = None
  BY DEF Blank, Shaped
<1>3. \A p :
        /\ Parses(c, p) => W(p) = Says(c, p) /\ Copy(c, p) = ReadInto(c, e, Says(c, p))
        /\ ~ Parses(c, p) => W(p) = Blank[c] /\ Copy(c, p) = e
  BY CopyIs
<1> HIDE DEF W, e
<1>4. ASSUME NEW p, Held(c, p), Formed(c, p)
      PROVE  LET x == Says(c, p)
                 r == ReadInto(c, e, x)
                 y == Says(c, r)
                 q == ReadInto(c, e, y)
             IN  /\ Agrees(c, x, r, y) /\ Settles(c, e, x, r, y, q, Says(c, q))
                 /\ Formed(c, r) => Shaped(c, y)
                 /\ Escaped(c, x) => /\ Parses(c, r) <=> Formed(c, r)
                                     /\ Formed(c, r) => (Parses(c, q) <=> Formed(c, q))
  <2> DEFINE x == Says(c, p)
             r == ReadInto(c, e, x)
             y == Says(c, r)
             q == ReadInto(c, e, y)
             z == Says(c, q)
  <2>1. Rounds(c, p, e, x, r, y, q, z)
    BY <1>1, <1>4 DEF Rounds
  <2> HIDE DEF x, r, y, q, z
  <2>2. Agrees(c, x, r, y) /\ Settles(c, e, x, r, y, q, z)
    BY <2>1, AllCopies
  <2>3. Held(c, r)
    BY <2>2 DEF Agrees
  <2>4. y = Says(c, r) /\ z = Says(c, q)
    BY DEF y, z
  <2>5. ASSUME Formed(c, r) PROVE Shaped(c, y)
    BY <1>1, <2>3, <2>4, <2>5, ReadHeld DEF Agrees
  <2>6. ASSUME Formed(c, r), Escaped(c, x) PROVE Escaped(c, y) /\ Escaped(c, z)
    BY <2>2, <2>4, <2>5, <2>6, CopyEscaped DEF e
  <2>7. /\ Parses(c, r) <=> Formed(c, r) /\ Escaped(c, y)
        /\ Parses(c, q) <=> Formed(c, q) /\ Escaped(c, z)
    BY <2>4 DEF Parses
  <2>8. /\ Escaped(c, x) => /\ Parses(c, r) <=> Formed(c, r)
                            /\ Formed(c, r) => (Parses(c, q) <=> Formed(c, q))
    BY <2>6, <2>7
  <2>9. QED
    BY <2>2, <2>5, <2>8 DEF x, r, y, q, z
<1>5. ASSUME Parses(c, d)
      PROVE  /\ W(Copy(c, Copy(c, d))) = W(Copy(c, d))
             /\ \A f \in DOMAIN Fields[c] : <<c, f>> # <<"USBRedir", "port">> =>
                  W(Copy(c, d))[f] \in {W(d)[f], W(e)[f]}
  <2> DEFINE x == Says(c, d)
             r == ReadInto(c, e, x)
             y == Says(c, r)
             q == ReadInto(c, e, y)
             z == Says(c, q)
  <2>1. /\ Agrees(c, x, r, y) /\ Settles(c, e, x, r, y, q, z)
        /\ Formed(c, r) => Shaped(c, y)
        /\ Parses(c, r) <=> Formed(c, r)
        /\ Formed(c, r) => (Parses(c, q) <=> Formed(c, q))
    BY <1>4, <1>5 DEF Parses
  <2>2. W(d) = x /\ Copy(c, d) = r
    BY <1>3, <1>5
  <2>3. Parses(c, r) => Shaped(c, y)
    BY <2>1
  <2>4. Parses(c, r) => W(r) = y /\ Copy(c, r) = q
    BY <1>3
  <2>5. Parses(c, q) => W(q) = z
    BY <1>3
  <2> HIDE DEF x, r, y, q, z
  <2>5a. /\ Formed(c, e) => W(e) = Says(c, e)
         /\ ~ Formed(c, e) => W(e) = Blank[c]
    BY <1>3, NewEscaped DEF Parses, e
  <2>6. CASE Parses(c, r)
    <3>1. z = y
      BY <2>1 DEF Settles, e
    <3>2. \A f \in DOMAIN Fields[c] :
            <<c, f>> # <<"USBRedir", "port">> => y[f] \in {x[f], W(e)[f]}
      <4>1. Formed(c, r)
        BY <2>6 DEF Parses
      <4>2. \/ ~ Formed(c, e) /\ \A f \in DOMAIN Fields[c] : y[f] \in {x[f], None}
            \/ /\ Formed(c, e)
               /\ \A f \in DOMAIN Fields[c] : <<c, f>> # <<"USBRedir", "port">> =>
                    y[f] \in {x[f], Says(c, e)[f]}
        BY <2>1, <4>1 DEF Settles, e
      <4>3. QED
        BY <1>2, <2>5a, <4>2
    <3>3. CASE Parses(c, q)
      BY <2>2, <2>4, <2>5, <2>6, <3>1, <3>2, <3>3
    <3>4. CASE ~ Parses(c, q)
      <4>1. \A f \in DOMAIN Fields[c] : y[f] = None
        BY <2>1, <2>6, <3>4 DEF Settles, e
      <4>2. y = Blank[c] /\ W(q) = Blank[c]
        BY <1>2, <1>3, <2>3, <2>6, <3>4, <4>1 DEF Shaped
      <4>3. QED
        BY <2>2, <2>4, <2>6, <3>2, <4>2
    <3>5. QED
      BY <3>3, <3>4
  <2>7. CASE ~ Parses(c, r)
    <3>1. ~ Parses(c, e)
      BY <2>1, <2>7 DEF Settles, Parses, e
    <3>2. W(r) = Blank[c] /\ Copy(c, r) = e /\ W(e) = Blank[c]
      BY <1>3, <2>7, <3>1
    <3>3. QED
      BY <2>2, <3>2
  <2>8. QED
    BY <2>6, <2>7
<1>6. ASSUME ~ Parses(c, d)
      PROVE  W(Copy(c, Copy(c, d))) = W(Copy(c, d)) /\ Copy(c, d) = e
  <2>1. Copy(c, d) = e
    BY <1>3, <1>6
  <2>2. CASE ~ Parses(c, e)
    BY <1>3, <2>1, <2>2
  <2>3. CASE Parses(c, e)
    <3> DEFINE x == Says(c, e)
               r == ReadInto(c, e, x)
               y == Says(c, r)
               q == ReadInto(c, e, y)
               z == Says(c, q)
    <3>1. /\ Agrees(c, x, r, y) /\ Settles(c, e, x, r, y, q, z)
          /\ Formed(c, r) => Shaped(c, y)
          /\ Parses(c, r) <=> Formed(c, r)
      BY <1>1, <1>4, <2>3 DEF Parses
    <3>2. W(e) = x /\ Copy(c, e) = r
      BY <1>3, <2>3
    <3>3. Parses(c, r) => Shaped(c, y) /\ W(r) = y
      BY <1>3, <3>1
    <3>4. c # "USBRedir" /\ Formed(c, e)
      BY <1>6, <2>3 DEF Parses, Formed, Escaped, Unescaped
    <3>5. x = Says(c, e)
      OBVIOUS
    <3> HIDE DEF x, r, y, q, z
    <3>6. Parses(c, r) /\ \A f \in DOMAIN Fields[c] : y[f] = x[f]
      BY <2>3, <3>1, <3>4, <3>5 DEF Settles, e
    <3>7. y = x
      BY <3>1, <3>3, <3>6 DEF Agrees, Shaped
    <3>8. QED
      BY <2>1, <3>2, <3>3, <3>6, <3>7
  <2>4. QED
    BY <2>1, <2>2, <2>3
<1>7. QED
  BY <1>5, <1>6 DEF W, e

\* What a new object says after reading an element that parses is escaped.
LEMMA ReadAnewEscaped ==
  ASSUME NEW c \in Classes, NEW d, Held(c, d), Parses(c, d),
         Formed(c, ReadInto(c, New[c], Says(c, d)))
  PROVE  Escaped(c, Says(c, ReadInto(c, New[c], Says(c, d))))
<1> DEFINE e == New[c]
           x == Says(c, d)
           r == ReadInto(c, e, x)
           y == Says(c, r)
           q == ReadInto(c, e, y)
           z == Says(c, q)
<1>1. Held(c, e) /\ Formed(c, d) /\ Escaped(c, x)
  BY NewHeld DEF Parses
<1>2. Rounds(c, d, e, x, r, y, q, z)
  BY <1>1 DEF Rounds
<1>3. y = Says(c, r) /\ z = Says(c, q) /\ e = New[c] /\ Formed(c, r)
  OBVIOUS
<1> HIDE DEF e, x, r, y, q, z
<1>4. Agrees(c, x, r, y) /\ Settles(c, e, x, r, y, q, z)
  BY <1>2, AllCopies
<1>5. Shaped(c, y)
  BY <1>1, <1>3, <1>4, ReadHeld DEF Agrees
<1>6. Escaped(c, y)
  BY <1>1, <1>3, <1>4, <1>5, CopyEscaped
<1>7. QED
  BY <1>6 DEF e, x, r, y

-----------------------------------------------------------------------------
(* The clients of the classes. *)

\* What the members of the object in hand can be, and that XML which parses was
\* written by some such object of the same class, whatever has been done with the
\* one in hand since (toXML(), fromXML() and the setters of every class).
Written == IF doc.ok THEN \E d : Held(cls, d) /\ Parses(cls, d) /\ doc.says = Says(cls, d)
           ELSE doc.says = Blank[cls]
CopiesInv ==
  /\ cls \in Classes /\ calls \in 0..MaxCalls
  /\ Held(cls, obj) /\ doc.ok \in BOOLEAN /\ Written

LEMMA ListsOffered ==
  ASSUME NEW i \in DOMAIN List
  PROVE  List[i] \in Lists
<1>1. /\ DOMAIN List = 1..3 /\ List[1] = <<>> /\ List[2] = <<"full">>
      /\ List[3] = <<"hollow">>
  BY DEF List
<1>2. <<>> \in Lists /\ <<"full">> \in Lists /\ <<"hollow">> \in Lists
  BY DEF Lists
<1>3. i = 1 \/ i = 2 \/ i = 3
  BY <1>1
<1>4. QED
  BY <1>1, <1>2, <1>3

LEMMA ParsesOrNot ==
  ASSUME NEW c, NEW d
  PROVE  Parses(c, d) \in BOOLEAN
  BY DEF Parses, Formed, Escaped, TPMParses, BlkIOTuneEmpty, MemTuneEmpty, CloudInitEmpty, FeaturesEmpty,
     LaunchSecurityEmpty, SecLabelEmpty, MemoryBackingEmpty, BootConfigEmpty,
     CPUTuneEmpty, ClockEmpty, NUMAEmpty, FirmwareEmpty, IOThreadEmpty,
     IOThreadConfigEmpty, IOThreadConfigParses, Unset

\* A setter leaves an object with one of the values of the member.
LEMMA SetHeld ==
  ASSUME NEW c \in Classes, NEW d, Held(c, d), NEW f \in DOMAIN d, NEW v \in Values(c, f)
  PROVE  Held(c, [d EXCEPT ![f] = v])
<1>1. f \in DOMAIN Fields[c] /\ Shaped(c, d)
  BY DEF Held, Shaped
<1>2. Offered(c, f, v)
  <2>1. CASE IsList(c, f)
    <3>1. Fields[c][f] = List
      BY <1>1, <2>1, FieldsAre
    <3>2. v \in Lists
      BY <3>1, ListsOffered DEF Values
    <3>3. QED
      BY <2>1, <3>2 DEF Offered, Lists
  <2>2. CASE ~ IsList(c, f)
    BY <2>2 DEF Offered, Values
  <2>3. QED
    BY <2>1, <2>2
<1> DEFINE n == [d EXCEPT ![f] = v]
<1>3. /\ DOMAIN n = DOMAIN Fields[c] /\ n = [g \in DOMAIN Fields[c] |-> n[g]]
      /\ \A g \in DOMAIN Fields[c] : n[g] = IF g = f THEN v ELSE d[g]
  BY <1>1 DEF Shaped
<1> HIDE DEF n
<1>4. Held(c, n)
  BY <1>2, <1>3 DEF Held, Shaped
<1>5. QED
  BY <1>4 DEF n

\* What is read of the XML in hand, by the object in hand or by a new one.
LEMMA DocReadHeld ==
  ASSUME CopiesInv, NEW e, Held(cls, e)
  PROVE  Held(cls, fromXML(cls, e, doc))
<1>1. CASE doc.ok
  <2>1. PICK d : Held(cls, d) /\ Parses(cls, d) /\ doc.says = Says(cls, d)
    BY <1>1 DEF CopiesInv, Written
  <2>2. Held(cls, ReadInto(cls, e, doc.says))
    BY <2>1, ReadHeld DEF CopiesInv, Agrees, Parses
  <2>3. QED
    BY <1>1, <2>2 DEF fromXML
<1>2. CASE ~ doc.ok
  BY <1>2 DEF fromXML
<1>3. QED
  BY <1>1, <1>2

LEMMA CopiesInvInit == Init => CopiesInv
<1> SUFFICES ASSUME Init PROVE CopiesInv
  OBVIOUS
<1>1. Held(cls, obj)
  BY NewHeld DEF Init
<1>2. doc.ok = FALSE /\ doc.says = Blank[cls]
  BY DEF Init
<1>3. QED
  BY <1>1, <1>2, MaxCallsAssumption DEF Init, CopiesInv, Written

LEMMA CopiesInvStep == CopiesInv /\ [Next]_vars => CopiesInv'
<1> SUFFICES ASSUME CopiesInv, [Next]_vars PROVE CopiesInv'
  OBVIOUS
<1>1. ASSUME Called PROVE cls' = cls /\ cls' \in Classes /\ calls' \in 0..MaxCalls
  BY <1>1, MaxCallsAssumption DEF Called, CopiesInv
<1>2. ASSUME cls' = cls, doc' = doc PROVE doc'.ok \in BOOLEAN /\ Written'
  BY <1>2 DEF CopiesInv, Written
<1>3. ASSUME NEW f \in DOMAIN obj, NEW v \in Values(cls, f), SetMember(f, v)
      PROVE CopiesInv'
  <2>1. Held(cls, obj')
    BY <1>3, SetHeld DEF SetMember, CopiesInv
  <2>2. QED
    BY <1>1, <1>2, <1>3, <2>1 DEF SetMember, CopiesInv
<1>4. CASE Write
  <2>1. Held(cls, obj')
    BY <1>4 DEF Write, CopiesInv
  <2>2. doc'.ok = Parses(cls, obj)
    BY <1>4 DEF Write, toXML
  <2>3. doc'.says = IF Parses(cls, obj) THEN Says(cls, obj) ELSE Blank[cls]
    BY <1>4 DEF Write, toXML
  <2>4. Parses(cls, obj) \in BOOLEAN
    BY ParsesOrNot
  <2>5. Written'
    BY <1>1, <1>4, <2>2, <2>3, <2>4 DEF Write, Written, CopiesInv
  <2>6. QED
    BY <1>1, <1>4, <2>1, <2>2, <2>4, <2>5 DEF Write, CopiesInv
<1>5. CASE Read
  <2>1. Held(cls, obj')
    BY <1>5, DocReadHeld DEF Read, CopiesInv
  <2>2. QED
    BY <1>1, <1>2, <1>5, <2>1 DEF Read, CopiesInv
<1>6. CASE ReadAnew
  <2>1. Held(cls, obj')
    BY <1>6, DocReadHeld, NewHeld DEF ReadAnew, CopiesInv
  <2>2. QED
    BY <1>1, <1>2, <1>6, <2>1 DEF ReadAnew, CopiesInv
<1>7. CASE UNCHANGED vars
  BY <1>7 DEF vars, CopiesInv, Written
<1>8. QED
  BY <1>3, <1>4, <1>5, <1>6, <1>7 DEF Next

\* XML that parses was written by an object of its class, in every state.
THEOREM CopiesInductive == Spec => []CopiesInv
<1>1. QED
  BY CopiesInvInit, CopiesInvStep, PTL DEF Spec

\* The members of an object never hold anything but what the setters and the
\* readers of its class can put there, and the XML has the class's names.
THEOREM CopiesTypeCorrect == Spec => []TypeOK
<1>1. ASSUME CopiesInv PROVE TypeOK
  <2>1. cls \in Classes /\ calls \in 0..MaxCalls /\ doc.ok \in BOOLEAN /\ Held(cls, obj)
    BY <1>1 DEF CopiesInv
  <2>2. DOMAIN obj = DOMAIN Fields[cls]
    BY <2>1 DEF Held, Shaped
  <2>3. ASSUME NEW f \in DOMAIN obj
        PROVE  IF IsList(cls, f)
               THEN \A i \in DOMAIN obj[f] : obj[f][i] \in {"full", "hollow"}
               ELSE obj[f] \in Values(cls, f) \/ (cls = "Firmware" /\ obj[f] = "mixed")
    <3>1. Offered(cls, f, obj[f])
      BY <2>1, <2>2 DEF Held
    <3>2. CASE IsList(cls, f)
      BY <3>1, <3>2 DEF Offered
    <3>3. CASE ~ IsList(cls, f)
      BY <3>1, <3>3 DEF Offered, Values
    <3>4. QED
      BY <3>2, <3>3
  <2>4. DOMAIN doc.says = DOMAIN obj
    <3>1. CASE doc.ok
      <4>1. PICK d : Held(cls, d) /\ Parses(cls, d) /\ doc.says = Says(cls, d)
        BY <1>1, <3>1 DEF CopiesInv, Written
      <4>2. Shaped(cls, doc.says)
        BY <2>1, <4>1, ReadHeld DEF Agrees, Parses
      <4>3. QED
        BY <2>2, <4>2 DEF Shaped
    <3>2. CASE ~ doc.ok
      BY <1>1, <2>1, <2>2, <3>2 DEF CopiesInv, Written, Blank
    <3>3. QED
      BY <3>1, <3>2
  <2>5. QED
    BY <2>1, <2>2, <2>3, <2>4 DEF TypeOK
<1>2. QED
  BY <1>1, CopiesInductive, PTL

\* No member of a copy says what neither the original nor a new object says: what
\* toXML() and fromXML() lose between them falls back to the initial value.
THEOREM InventsNothing == Spec => []NothingInvented
<1>1. ASSUME CopiesInv PROVE NothingInvented
  <2>1. cls \in Classes /\ Held(cls, obj) /\ DOMAIN obj = DOMAIN Fields[cls]
    BY <1>1 DEF CopiesInv, Held, Shaped
  <2>2. QED
    BY <2>1, CopyTells DEF NothingInvented, Now
<1>2. QED
  BY <1>1, CopiesInductive, PTL

\* Whatever a copy loses is lost at once: an element read and written any number
\* of times stays what the first copy made it.
THEOREM CopiesStay == Spec => []CopiesSettle
<1>1. ASSUME CopiesInv PROVE CopiesSettle
  BY <1>1, CopyTells DEF CopiesInv, CopiesSettle, Now
<1>2. QED
  BY <1>1, CopiesInductive, PTL

\* Whatever object reads an element, however it was used before, says afterwards
\* everything the element said outside the members its class misreads, if what it
\* says then is escaped; of a new object that is always so.
THEOREM SaysWhatWasSaid == Spec => ReadsWhatIsSaid
<1> DEFINE Reads == ReadAnew \/ (Read /\ Escaped(cls, Says(cls, obj')))
           Heard == Reads /\ doc.ok =>
       \A f \in DOMAIN obj \ Misread(cls) : doc.says[f] # None =>
         IF IsList(cls, f) THEN IsSuffix(doc.says[f], Now(obj')[f])
         ELSE Now(obj')[f] = doc.says[f]
<1>1. ASSUME CopiesInv, [Next]_vars PROVE [Heard]_vars
  <2> SUFFICES ASSUME Reads, doc.ok,
                      NEW f \in DOMAIN obj \ Misread(cls), doc.says[f] # None
               PROVE  IF IsList(cls, f) THEN IsSuffix(doc.says[f], Now(obj')[f])
                      ELSE Now(obj')[f] = doc.says[f]
    OBVIOUS
  <2>1. PICK d : Held(cls, d) /\ Parses(cls, d) /\ doc.says = Says(cls, d)
    BY <1>1 DEF CopiesInv, Written
  <2>2. PICK e : /\ Held(cls, e) /\ obj' = fromXML(cls, e, doc)
                 /\ e = New[cls] \/ Escaped(cls, Says(cls, obj'))
    BY <1>1, NewHeld DEF Read, ReadAnew, CopiesInv
  <2>3. obj' = ReadInto(cls, e, doc.says) /\ cls \in Classes
    BY <1>1, <2>2 DEF fromXML, CopiesInv
  <2>4. Agrees(cls, doc.says, obj', Says(cls, obj'))
    BY <2>1, <2>2, <2>3, ReadHeld DEF Parses
  <2>5. f \in DOMAIN Fields[cls] \ Misread(cls)
    BY <1>1 DEF CopiesInv, Held, Shaped
  <2>6. Formed(cls, obj')
    BY <2>4, <2>5 DEF Agrees
  <2>7. Escaped(cls, Says(cls, obj'))
    <3>1. CASE e = New[cls]
      BY <2>1, <2>3, <2>6, <3>1, ReadAnewEscaped
    <3>2. QED
      BY <2>2, <3>1
  <2>8. Now(obj') = Says(cls, obj')
    BY <2>6, <2>7 DEF Now, toXML, Parses
  <2>9. QED
    BY <2>4, <2>5, <2>8 DEF Agrees
<1>2. QED
  BY <1>1, CopiesInductive, PTL DEF Spec, ReadsWhatIsSaid
=============================================================================
