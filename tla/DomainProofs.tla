---------------------------- MODULE DomainProofs ----------------------------
(* Proofs about Domain, for any number of devices and of requests at once. *)
EXTENDS Domain, TLAPS

\* The outcome of a job is a state of the type, and depends on m_state only
\* when it is m_state.
LEMMA OutcomeType ==
  ASSUME TypeOK, NEW j \in Slots
  PROVE  Outcome(jobs[j]) \in States
BY DEF TypeOK, Outcome, JobRecs, States, HostStates

LEMMA TypeIssue ==
  ASSUME TypeOK, NEW j \in Slots, NEW k \in UserKinds \cup {"stats"}, Issue(j, k)
  PROVE  jobs' \in [Slots -> JobRecs] /\ seen' \in [Slots -> SUBSET HostStates]
<1>1. [Free EXCEPT !.kind = k, !.phase = "issued"] \in JobRecs
  BY DEF Free, JobRecs, States, UserKinds
<1>2. QED
  BY <1>1 DEF TypeOK, Issue

LEMMA TypeBecomes ==
  ASSUME TypeOK, NEW s \in HostStates, HostBecomes(s)
  PROVE  host' \in HostStates /\ seen' \in [Slots -> SUBSET HostStates]
BY DEF TypeOK, HostBecomes

LEMMA TypeSetState ==
  ASSUME TypeOK, NEW s \in States, setState(s)
  PROVE  /\ m_state' \in States
         /\ startEnabled' \in BOOLEAN /\ shutdownEnabled' \in BOOLEAN
         /\ forceOffEnabled' \in BOOLEAN
<1>1. CASE s = m_state
  BY <1>1 DEF TypeOK, setState, buttons
<1>2. CASE s # m_state
  BY <1>2 DEF setState, updateControlButtons
<1>3. QED
  BY <1>1, <1>2

\* setState keeps the buttons in line with the state shown.
LEMMA SetStateFits ==
  ASSUME ButtonsFitState, NEW s, setState(s)
  PROVE  ButtonsFitState'
BY DEF ButtonsFitState, setState, updateControlButtons, buttons

LEMMA AttemptType ==
  ASSUME TypeOK, NEW able, NEW ok, Attempt(able, ok)
  PROVE  faults' \in Nat
BY DEF TypeOK, Attempt

\* Types are kept by every step.
LEMMA TypeNext == TypeOK /\ [Next]_vars => TypeOK'
<1> SUFFICES ASSUME TypeOK, [Next]_vars PROVE TypeOK'
  OBVIOUS
<1> USE DEF buttons, hostVars
<1>1. ASSUME NEW j \in Jobs, Window(j) PROVE TypeOK'
  <2> j \in Slots
    BY DEF Slots
  <2>1. ASSUME NEW k \in UserKinds, Issue(j, k)
        PROVE  jobs' \in [Slots -> JobRecs] /\ seen' \in [Slots -> SUBSET HostStates]
    BY <2>1, TypeIssue
  <2>2. {"start", "shutdown", "destroy", "update"} = UserKinds
    BY DEF UserKinds
  <2>3. CASE onStartClicked(j)
    BY <2>1, <2>2, <2>3 DEF onStartClicked, TypeOK
  <2>4. CASE onStopClicked(j)
    BY <2>1, <2>2, <2>4 DEF onStopClicked, TypeOK
  <2>5. CASE AnswerForceOff(j)
    BY <2>1, <2>2, <2>5 DEF AnswerForceOff, TypeOK
  <2>6. CASE Request(j)
    BY <2>1, <2>6 DEF Request, TypeOK
  <2>7. CASE refresh(j)
    BY <2>1, <2>2, <2>7 DEF refresh, TypeOK, updateControlButtons
  <2>8. QED
    BY <1>1, <2>3, <2>4, <2>5, <2>6, <2>7 DEF Window
<1>2. CASE onForceOffClicked
  BY <1>2 DEF onForceOffClicked, TypeOK
<1>3. CASE Details
  <2>1. getXMLDesc(live, config) \in XML
    BY DEF TypeOK, getXMLDesc, XML
  <2>2. ASSUME NEW d \in Devices, onAddHardware(d) PROVE TypeOK'
    <3>1. PICK ok \in BOOLEAN :
            \/ /\ m_state = "Running"
               /\ Attempt(Active, ok)
               /\ live' = IF ok THEN live \cup {d} ELSE live
               /\ m_cachedXmlDesc' = getXMLDesc(live', config)
               /\ UNCHANGED <<config, promised>>
            \/ /\ m_state # "Running"
               /\ Attempt(TRUE, ok)
               /\ m_cachedXmlDesc' = getXMLDesc(live, config)
               /\ config' = IF ok THEN m_cachedXmlDesc'.devices \cup {d} ELSE config
               /\ promised' = IF ok THEN promised \cup {d} ELSE promised
               /\ UNCHANGED live
      BY <2>2 DEF onAddHardware
    <3>2. faults' \in Nat
      BY <3>1, AttemptType
    <3>3. live' \subseteq Devices /\ m_cachedXmlDesc' \in XML
      <4>1. live' \subseteq Devices
        BY <3>1 DEF TypeOK
      <4>2. getXMLDesc(live', config) \in XML
        BY <4>1 DEF TypeOK, getXMLDesc, XML
      <4>3. QED
        BY <3>1, <2>1, <4>1, <4>2
    <3>4. config' \subseteq Devices /\ promised' \subseteq Devices
      BY <3>1, <3>3 DEF TypeOK, XML
    <3>5. QED
      BY <2>2, <3>2, <3>3, <3>4 DEF onAddHardware, TypeOK
  <2>3. ASSUME NEW d \in Devices, onRemoveHardware(d) PROVE TypeOK'
    <3>1. faults' \in Nat
      BY <2>3, AttemptType DEF onRemoveHardware, TypeOK
    <3>2. live' \subseteq Devices /\ config' \subseteq Devices /\ promised' \subseteq Devices
      BY <2>3 DEF onRemoveHardware, TypeOK, XML
    <3>3. QED
      BY <2>3, <3>1, <3>2 DEF onRemoveHardware, TypeOK
  <2>4. QED
    BY <1>3, <2>2, <2>3 DEF Details
<1>4. CASE ReadXML
  BY <1>4 DEF ReadXML, TypeOK, getXMLDesc, XML
<1>5. CASE StatsTick
  BY <1>5, TypeIssue DEF StatsTick, TypeOK, Slots
<1>6. CASE updateInfo
  <2>1. PICK ok \in BOOLEAN : Attempt(TRUE, ok) /\ setState(IF ok THEN host ELSE m_state)
    BY <1>6 DEF updateInfo
  <2>2. (IF ok THEN host ELSE m_state) \in States
    BY DEF TypeOK, States
  <2>3. QED
    BY <1>6, <2>1, <2>2, TypeSetState, AttemptType DEF updateInfo, TypeOK
<1>7. ASSUME NEW j \in Slots, Call(j) PROVE TypeOK'
  <2>1. PICK ok \in BOOLEAN :
          /\ Attempt(Able(jobs[j].kind), ok)
          /\ jobs' = [jobs EXCEPT ![j].phase = "called", ![j].ok = ok, ![j].state = host]
          /\ IF ok THEN /\ HostBecomes(After(jobs[j].kind))
                        /\ live' = CASE jobs[j].kind = "start" -> config
                                     [] jobs[j].kind = "destroy" -> {}
                                     [] OTHER -> live
                   ELSE UNCHANGED <<host, seen, live>>
    BY <1>7 DEF Call
  <2>2. After(jobs[j].kind) \in HostStates
    BY DEF TypeOK, After, HostStates
  <2>3. faults' \in Nat
    BY <2>1, AttemptType
  <2>4. jobs' \in [Slots -> JobRecs]
    <3>1. [jobs[j] EXCEPT !.phase = "called", !.ok = ok, !.state = host] \in JobRecs
      BY DEF TypeOK, JobRecs, States
    <3>2. QED
      BY <2>1, <3>1 DEF TypeOK
  <2>5. host' \in HostStates /\ seen' \in [Slots -> SUBSET HostStates]
    BY <2>1, <2>2, TypeBecomes DEF TypeOK
  <2>6. live' \subseteq Devices
    BY <2>1 DEF TypeOK
  <2>7. QED
    BY <1>7, <2>3, <2>4, <2>5, <2>6 DEF Call, TypeOK
<1>8. ASSUME NEW j \in Slots, Finished(j) PROVE TypeOK'
  <2>1. Free \in JobRecs
    BY DEF Free, JobRecs, UserKinds, States
  <2>2. jobs' \in [Slots -> JobRecs] /\ seen' \in [Slots -> SUBSET HostStates]
    BY <1>8, <2>1 DEF Finished, TypeOK
  <2>3. QED
    BY <1>8, <2>2, OutcomeType, TypeSetState DEF Finished, TypeOK
<1>9. CASE HostChanges
  BY <1>9, TypeBecomes DEF HostChanges, TypeOK
<1>10. CASE UNCHANGED vars
  BY <1>10 DEF vars, TypeOK
<1>11. QED
  BY <1>1, <1>2, <1>3, <1>4, <1>5, <1>6, <1>7, <1>8, <1>9, <1>10 DEF Next

\* Every variable keeps its type.
THEOREM DomainTypeCorrect == Spec => []TypeOK
<1>1. Init => TypeOK
  <2> SUFFICES ASSUME Init PROVE TypeOK
    OBVIOUS
  <2>1. jobs \in [Slots -> JobRecs] /\ seen \in [Slots -> SUBSET HostStates]
    BY DEF Init, Free, JobRecs, UserKinds, States
  <2>2. m_state \in States /\ m_cachedXmlDesc \in XML
    <3>1. NoXML \in XML
      BY DEF NoXML, XML
    <3>2. [fetched |-> TRUE, devices |-> config] \in XML
      BY DEF Init, XML
    <3>3. QED
      BY <3>1, <3>2 DEF Init, States
  <2>3. QED
    BY <2>1, <2>2, BoundsAssumption DEF Init, TypeOK
<1>2. QED
  BY <1>1, TypeNext, PTL DEF Spec

\* The buttons of the window only offer what fits the state shown.
THEOREM ButtonsCorrect == Spec => []ButtonsFitState
<1>1. Init => ButtonsFitState
  BY DEF Init, ButtonsFitState
<1>2. ButtonsFitState /\ [Next]_vars => ButtonsFitState'
  <2> SUFFICES ASSUME ButtonsFitState, [Next]_vars PROVE ButtonsFitState'
    OBVIOUS
  <2> USE DEF buttons
  <2>1. ASSUME NEW j \in Jobs, Window(j) PROVE ButtonsFitState'
    <3>1. CASE onStartClicked(j)
      BY <3>1 DEF onStartClicked, ButtonsFitState
    <3>2. CASE onStopClicked(j) \/ Request(j)
      <4>1. UNCHANGED <<m_state, buttons>>
        BY <3>2 DEF onStopClicked, Request
      <4>2. QED
        BY <4>1 DEF ButtonsFitState
    <3>3. CASE AnswerForceOff(j)
      BY <3>3 DEF AnswerForceOff, ButtonsFitState
    <3>4. CASE refresh(j)
      BY <3>4 DEF refresh, updateControlButtons, ButtonsFitState
    <3>5. QED
      BY <2>1, <3>1, <3>2, <3>3, <3>4 DEF Window
  <2>2. CASE onForceOffClicked \/ Details \/ ReadXML \/ StatsTick \/ HostChanges
    <3>1. UNCHANGED <<m_state, buttons>>
      BY <2>2 DEF onForceOffClicked, Details, onAddHardware, onRemoveHardware,
         ReadXML, StatsTick, HostChanges
    <3>2. QED
      BY <3>1 DEF ButtonsFitState
  <2>3. CASE updateInfo
    <3>1. PICK s : setState(s)
      BY <2>3 DEF updateInfo
    <3>2. QED
      BY <3>1, SetStateFits
  <2>4. ASSUME NEW j \in Slots, Call(j) PROVE ButtonsFitState'
    BY <2>4 DEF Call, ButtonsFitState
  <2>5. ASSUME NEW j \in Slots, Finished(j) PROVE ButtonsFitState'
    BY <2>5, SetStateFits DEF Finished
  <2>6. CASE UNCHANGED vars
    BY <2>6 DEF vars, ButtonsFitState
  <2>7. QED
    BY <2>1, <2>2, <2>3, <2>4, <2>5, <2>6 DEF Next
<1>3. QED
  BY <1>1, <1>2, PTL DEF Spec

-----------------------------------------------------------------------------
\* A job whose answer is a state of the VM, still to be handled.
Answered(i) == jobs[i].phase = "called" /\ jobs[i].ok /\ jobs[i].kind # "shutdown"

\* Such an answer does not change with the state shown.
LEMMA OutcomeKept ==
  ASSUME TypeOK, NEW i \in Slots, Answered(i), jobs'[i] = jobs[i]
  PROVE  Outcome(jobs[i])' = Outcome(jobs[i])
BY DEF TypeOK, JobRecs, UserKinds, Answered, Outcome

\* A step that only issues a request keeps AnswersSeen.
LEMMA IssueSees ==
  ASSUME TypeOK, AnswersSeen, NEW j \in Slots, NEW k, Issue(j, k),
         UNCHANGED <<m_state, host>>
  PROVE  AnswersSeen'
<1> SUFFICES ASSUME NEW i \in Slots
             PROVE  /\ jobs'[i].phase = "issued" => host' \in seen'[i]
                    /\ Answered(i)' => Outcome(jobs[i])' \in seen'[i]
  BY DEF AnswersSeen, Answered
<1>1. CASE i = j
  <2>1. jobs'[i].phase = "issued" /\ seen'[i] = {host}
    BY <1>1 DEF Issue, TypeOK, Free
  <2>2. QED
    BY <2>1 DEF Answered
<1>2. CASE i # j
  <2>1. jobs'[i] = jobs[i] /\ seen'[i] = seen[i]
    BY <1>2 DEF Issue, TypeOK
  <2>2. QED
    BY <2>1, OutcomeKept DEF AnswersSeen, Answered
<1>3. QED
  BY <1>1, <1>2

\* A change of the VM leaves the requests still to be called in the know.
LEMMA BecomesSees ==
  ASSUME TypeOK, AnswersSeen, NEW s, HostBecomes(s), NEW i \in Slots
  PROVE  /\ jobs[i].phase = "issued" => s \in seen'[i]
         /\ jobs[i].phase # "issued" => seen'[i] = seen[i]
BY DEF TypeOK, HostBecomes

\* A step that leaves the jobs alone, what they saw and the VM.
LEMMA StillSees ==
  ASSUME TypeOK, AnswersSeen, UNCHANGED <<jobs, seen, host>>
  PROVE  AnswersSeen'
BY OutcomeKept DEF AnswersSeen, Answered

LEMMA SeesNext == TypeOK /\ AnswersSeen /\ [Next]_vars => AnswersSeen'
<1> SUFFICES ASSUME TypeOK, AnswersSeen, [Next]_vars PROVE AnswersSeen'
  OBVIOUS
<1> USE DEF hostVars
<1>1. ASSUME NEW j \in Jobs, Window(j) PROVE AnswersSeen'
  <2> j \in Slots
    BY DEF Slots
  <2>1. (\E k : Issue(j, k)) \/ UNCHANGED <<jobs, seen>>
    BY <1>1 DEF Window, onStartClicked, onStopClicked, AnswerForceOff, Request, refresh
  <2>2. UNCHANGED <<m_state, host>>
    BY <1>1 DEF Window, onStartClicked, onStopClicked, AnswerForceOff, Request, refresh
  <2>3. QED
    BY <2>1, <2>2, IssueSees, StillSees
<1>2. CASE onForceOffClicked \/ Details \/ ReadXML \/ updateInfo
  <2>1. UNCHANGED <<jobs, seen, host>>
    BY <1>2 DEF onForceOffClicked, Details, onAddHardware, onRemoveHardware, ReadXML,
       updateInfo
  <2>2. QED
    BY <2>1, StillSees
<1>3. CASE StatsTick
  BY <1>3, IssueSees DEF StatsTick, Slots
<1>4. ASSUME NEW j \in Slots, Call(j) PROVE AnswersSeen'
  <2>1. PICK ok \in BOOLEAN :
          /\ jobs' = [jobs EXCEPT ![j].phase = "called", ![j].ok = ok, ![j].state = host]
          /\ IF ok THEN HostBecomes(After(jobs[j].kind)) ELSE UNCHANGED <<host, seen>>
    BY <1>4 DEF Call
  <2>2. jobs[j].phase = "issued"
    BY <1>4 DEF Call
  <2> SUFFICES ASSUME NEW i \in Slots
               PROVE  /\ jobs'[i].phase = "issued" => host' \in seen'[i]
                      /\ Answered(i)' => Outcome(jobs[i])' \in seen'[i]
    BY DEF AnswersSeen, Answered
  <2>3. CASE i = j
    <3>1. /\ jobs'[i].phase = "called" /\ jobs'[i].kind = jobs[j].kind
          /\ jobs'[i].ok = ok /\ jobs'[i].state = host
      BY <2>1, <2>3 DEF TypeOK, JobRecs
    <3>2. ok => {host, After(jobs[j].kind)} \subseteq seen'[i]
      BY <2>1, <2>2, <2>3 DEF HostBecomes, AnswersSeen, TypeOK
    <3>3. Answered(i)' => ok
      BY <3>1 DEF Answered
    <3>4. Answered(i)' => Outcome(jobs[i])' \in {host, After(jobs[j].kind)}
      BY <3>1 DEF Answered, Outcome, After, TypeOK, JobRecs, UserKinds
    <3>5. QED
      BY <3>1, <3>2, <3>3, <3>4
  <2>4. CASE i # j
    <3>1. jobs'[i] = jobs[i]
      BY <2>1, <2>4 DEF TypeOK
    <3>2. jobs[i].phase = "issued" => host' \in seen'[i]
      BY <2>1 DEF HostBecomes, AnswersSeen, TypeOK
    <3>3. jobs[i].phase # "issued" => seen'[i] = seen[i]
      BY <2>1 DEF HostBecomes, TypeOK
    <3>4. QED
      BY <3>1, <3>2, <3>3, OutcomeKept DEF AnswersSeen, Answered
  <2>5. QED
    BY <2>3, <2>4
<1>5. ASSUME NEW j \in Slots, Finished(j) PROVE AnswersSeen'
  <2> SUFFICES ASSUME NEW i \in Slots
               PROVE  /\ jobs'[i].phase = "issued" => host' \in seen'[i]
                      /\ Answered(i)' => Outcome(jobs[i])' \in seen'[i]
    BY DEF AnswersSeen, Answered
  <2>1. CASE i = j
    BY <1>5, <2>1 DEF Finished, Free, Answered, TypeOK
  <2>2. CASE i # j
    <3>1. jobs'[i] = jobs[i] /\ seen'[i] = seen[i] /\ host' = host
      BY <1>5, <2>2 DEF Finished, TypeOK
    <3>2. QED
      BY <3>1, OutcomeKept DEF AnswersSeen, Answered
  <2>3. QED
    BY <2>1, <2>2
<1>6. CASE HostChanges
  <2>1. PICK s : HostBecomes(s)
    BY <1>6 DEF HostChanges
  <2> SUFFICES ASSUME NEW i \in Slots
               PROVE  /\ jobs'[i].phase = "issued" => host' \in seen'[i]
                      /\ Answered(i)' => Outcome(jobs[i])' \in seen'[i]
    BY DEF AnswersSeen, Answered
  <2>2. jobs' = jobs /\ host' = s
    BY <1>6, <2>1 DEF HostChanges, HostBecomes
  <2>3. QED
    BY <2>1, <2>2, BecomesSees, OutcomeKept DEF AnswersSeen, Answered
<1>7. CASE UNCHANGED vars
  BY <1>7, StillSees DEF vars
<1>8. QED
  BY <1>1, <1>2, <1>3, <1>4, <1>5, <1>6, <1>7 DEF Next

\* A finished handler shows a state the VM was in between request and call.
THEOREM NothingInvented == Spec => NoInventedState
<1>1. Init => AnswersSeen
  BY DEF Init, AnswersSeen, Free
<1>2. TypeOK /\ AnswersSeen /\ [Next]_vars =>
        [\A j \in Slots : Finished(j) => m_state' \in seen[j] \cup {m_state}]_vars
  <2> SUFFICES ASSUME TypeOK, AnswersSeen, NEW j \in Slots, Finished(j)
               PROVE  m_state' \in seen[j] \cup {m_state}
    OBVIOUS
  <2>1. m_state' = Outcome(jobs[j]) /\ jobs[j].phase = "called"
    BY DEF Finished, setState
  <2>2. CASE Answered(j)
    BY <2>1, <2>2 DEF Answered, AnswersSeen
  <2>3. CASE ~Answered(j)
    BY <2>1, <2>3 DEF Answered, Outcome, TypeOK, JobRecs, UserKinds
  <2>4. QED
    BY <2>2, <2>3
<1>3. QED
  BY <1>1, <1>2, DomainTypeCorrect, SeesNext, PTL DEF Spec, NoInventedState
=============================================================================
