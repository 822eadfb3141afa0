---------------------------- MODULE DialogProofs ----------------------------
(* Proofs about two dialogs of a connection: HostStats, for any number of     *)
(* dialogs, requests under way, moments and failures, and Creation, for any   *)
(* names, edits and VMs of other clients.                                     *)
EXTENDS HostStats, Creation, TLAPS

-----------------------------------------------------------------------------
(* Lemmas on the operators. *)

LEMMA ElementOf ==
  ASSUME NEW S, NEW s \in Seq(S), NEW i \in DOMAIN s
  PROVE  s[i] \in S
  OBVIOUS

LEMMA RemoveAtType ==
  ASSUME NEW S, NEW s \in Seq(S), NEW j \in DOMAIN s
  PROVE  /\ RemoveAt(s, j) \in Seq(S)
         /\ Len(RemoveAt(s, j)) = Len(s) - 1
         /\ \A k \in DOMAIN RemoveAt(s, j) : \E i \in DOMAIN s : RemoveAt(s, j)[k] = s[i]
<1>1. /\ SubSeq(s, 1, j - 1) \in Seq(S) /\ Len(SubSeq(s, 1, j - 1)) = j - 1
      /\ \A k \in 1 .. j - 1 : SubSeq(s, 1, j - 1)[k] = s[k]
  OBVIOUS
<1>2. /\ SubSeq(s, j + 1, Len(s)) \in Seq(S)
      /\ Len(SubSeq(s, j + 1, Len(s))) = Len(s) - j
      /\ \A k \in 1 .. Len(s) - j : SubSeq(s, j + 1, Len(s))[k] = s[j + k]
  OBVIOUS
<1> DEFINE a == SubSeq(s, 1, j - 1)
           b == SubSeq(s, j + 1, Len(s))
<1>3. RemoveAt(s, j) = a \o b
  BY DEF RemoveAt
<1> HIDE DEF a, b
<1>4. /\ a \in Seq(S) /\ Len(a) = j - 1 /\ \A k \in 1 .. j - 1 : a[k] = s[k]
      /\ b \in Seq(S) /\ Len(b) = Len(s) - j /\ \A k \in 1 .. Len(s) - j : b[k] = s[j + k]
  BY <1>1, <1>2 DEF a, b
<1>5. a \o b \in Seq(S) /\ Len(a \o b) = Len(s) - 1
  BY <1>4
<1>6. ASSUME NEW k \in 1 .. Len(s) - 1
      PROVE  (a \o b)[k] = IF k < j THEN s[k] ELSE s[k + 1]
  <2>1. (a \o b)[k] = IF k <= Len(a) THEN a[k] ELSE b[k - Len(a)]
    BY <1>4
  <2>2. QED
    BY <1>4, <2>1
<1>7. DOMAIN (a \o b) = 1 .. Len(s) - 1
  BY <1>5
<1>8. \A k \in DOMAIN (a \o b) : \E i \in DOMAIN s : (a \o b)[k] = s[i]
  <2>1. ASSUME NEW k \in 1 .. Len(s) - 1 PROVE \E i \in DOMAIN s : (a \o b)[k] = s[i]
    <3>1. k \in DOMAIN s /\ k + 1 \in DOMAIN s
      OBVIOUS
    <3>2. QED
      BY <1>6, <3>1
  <2>2. QED
    BY <1>7, <2>1
<1>9. QED
  BY <1>3, <1>5, <1>8

LEMMA Share ==
  ASSUME NEW d \in Nat, d > 0, NEW i \in 0..d
  PROVE  (100 * i) \div d \in 0..100
  OBVIOUS

LEMMA NoWrap ==
  ASSUME NEW w \in Nat, NEW i \in Nat, i < w
  PROVE  i % w = i
  OBVIOUS

LEMMA DifferenceIs ==
  ASSUME NEW old \in Readings, NEW new \in Readings, old.total < new.total,
         new.idle - old.idle \in 0 .. (new.total - old.total)
  PROVE  /\ Difference(old, new) \in 0..100
         /\ Difference(old, new)
              = 100 - (100 * (new.idle - old.idle)) \div (new.total - old.total)
<1> DEFINE d == new.total - old.total
           i == new.idle - old.idle
<1>1. d \in Nat /\ d > 0 /\ d <= MaxTime /\ i \in 0..d
  BY BoundsAssumption DEF Readings
<1> HIDE DEF d, i
<1>2. (100 * i) \div d \in 0..100
  BY <1>1, Share
<1>3. d % Width = d /\ i % Width = i /\ (i * 100) % Width = 100 * i
  BY <1>1, NoWrap, BoundsAssumption
<1>4. Difference(old, new) = Clamped(AsInt((100 - (100 * i) \div d) % Width))
  BY <1>3 DEF Difference, d, i
<1>5. (100 - (100 * i) \div d) % Width = 100 - (100 * i) \div d
  BY <1>2, NoWrap, BoundsAssumption
<1>6. QED
  BY <1>2, <1>4, <1>5, BoundsAssumption DEF Clamped, AsInt, d, i

-----------------------------------------------------------------------------
\* Type correctness.
LEMMA ZeroType == Zero \in Readings
  BY BoundsAssumption DEF Zero, Readings

LEMMA TypeInit == Init => TypeOK
<1> SUFFICES ASSUME Init PROVE TypeOK
  OBVIOUS
<1>1. jobs \in Seq(Job) /\ Len(jobs) <= MaxJobs
  BY BoundsAssumption DEF Init
<1>2. idle \in Seq(0..MaxTime) /\ Len(idle) \in 1..MaxTime
  <2>1. 0 \in 0..MaxTime /\ 1 \in 1..MaxTime
    BY BoundsAssumption
  <2>2. QED
    BY <2>1 DEF Init
<1>3. faults \in 0..MaxFaults
  BY BoundsAssumption DEF Init
<1>4. QED
  BY <1>1, <1>2, <1>3, ZeroType DEF Init, TypeOK

\* The moments so far.
LEMMA Moments ==
  ASSUME TypeOK
  PROVE  /\ Len(idle) \in Nat /\ Len(idle) > 0 /\ Len(idle) <= MaxTime
         /\ DOMAIN idle = 1 .. Len(idle)
         /\ \A t \in DOMAIN idle : idle[t] \in 0..MaxTime
<1>1. idle \in Seq(0..MaxTime) /\ Len(idle) \in 1..MaxTime
  BY DEF TypeOK
<1>2. \A t \in DOMAIN idle : idle[t] \in 0..MaxTime
  BY <1>1, ElementOf
<1>3. QED
  BY <1>1, <1>2, BoundsAssumption

LEMMA AskType ==
  ASSUME TypeOK, Ask
  PROVE  jobs' \in Seq(Job) /\ Len(jobs') <= MaxJobs
<1>1. Stats \in Job /\ Capabilities \in Job
  BY BoundsAssumption DEF Stats, Capabilities, Job, Zero, Readings
<1>2. Requests \in Seq(Job)
  BY <1>1 DEF Requests
<1>3. QED
  BY <1>2 DEF Ask, TypeOK

\* What the host has to say at a moment is a reading of it.
LEMMA NowType == TypeOK => Now \in Readings
  BY Moments, BoundsAssumption DEF Now, Readings

LEMMA UsageType ==
  ASSUME NEW old \in Readings, NEW new \in Readings
  PROVE  Usage(old, new) \in 0..100
<1>1. CASE old.total > 0 /\ new.total > old.total
  <2> DEFINE i == (((new.idle - old.idle) % Width) * 100) % Width
             d == (new.total - old.total) % Width
  <2>1. Usage(old, new) = Clamped(AsInt((100 - i \div d) % Width))
    BY <1>1 DEF Usage, Difference
  <2>2. d \in Nat /\ d > 0
    BY <1>1, NoWrap, BoundsAssumption DEF Readings
  <2>3. i \in Int
    BY BoundsAssumption DEF Readings
  <2> HIDE DEF i, d
  <2>4. i \div d \in Int
    BY <2>2, <2>3
  <2>5. AsInt((100 - i \div d) % Width) \in Int
    BY <2>4, BoundsAssumption DEF AsInt
  <2>6. QED
    BY <2>1, <2>5 DEF Clamped
<1>2. QED
  BY <1>1 DEF Usage

LEMMA AskedFor ==
  ASSUME TypeOK, NEW more \in Seq(Job), Len(more) \in 1..2, jobs' = jobs \o more,
         NEW j \in DOMAIN jobs'
  PROVE  \/ j \in DOMAIN jobs /\ jobs'[j] = jobs[j]
         \/ \E k \in DOMAIN more : jobs'[j] = more[k]
  BY DEF TypeOK

LEMMA GotType ==
  ASSUME TypeOK, NEW j \in DOMAIN jobs, jobs[j].what = "stats"
  PROVE  jobs[j].got \in Readings
  BY DEF TypeOK, Job

\* The host idles at most as long as time passes.
Clock == /\ idle[1] = 0
         /\ \A s, t \in DOMAIN idle : s <= t => idle[t] - idle[s] \in 0 .. (t - s)

\* Time that has passed stays as it was.
LEMMA TimeGoesOn ==
  ASSUME TypeOK, Clock, TimePasses
  PROVE  /\ idle' \in Seq(0..MaxTime) /\ Len(idle') = Len(idle) + 1
         /\ \A t \in DOMAIN idle : t \in DOMAIN idle' /\ idle'[t] = idle[t]
         /\ Len(idle') <= MaxTime /\ Clock'
<1> DEFINE n == Len(idle)
<1>1. PICK i \in {0, 1} : idle' = Append(idle, idle[n] + i)
  BY DEF TimePasses
<1>2. n \in Nat /\ n > 0 /\ n < MaxTime /\ DOMAIN idle = 1..n
  BY Moments DEF TimePasses
<1>3. \A t \in DOMAIN idle : idle[t] \in 0..MaxTime
  BY Moments
<1>4. idle[n] <= n - 1
  BY <1>2, <1>3 DEF Clock
<1>5. idle[n] + i \in 0..MaxTime
  BY <1>2, <1>3, <1>4, BoundsAssumption
<1>6. /\ idle' \in Seq(0..MaxTime) /\ Len(idle') = n + 1 /\ DOMAIN idle' = 1 .. n + 1
      /\ idle'[n + 1] = idle[n] + i /\ \A t \in 1..n : idle'[t] = idle[t]
  BY <1>1, <1>2, <1>5 DEF TypeOK
<1>7. ASSUME NEW s \in DOMAIN idle', NEW t \in DOMAIN idle', s <= t
      PROVE  idle'[t] - idle'[s] \in 0 .. (t - s)
  <2>1. CASE t \in 1..n
    BY <1>2, <1>6, <1>7, <2>1 DEF Clock
  <2>2. CASE s \in 1..n /\ t = n + 1
    <3>1. idle[n] - idle[s] \in 0 .. (n - s)
      BY <1>2, <2>2 DEF Clock
    <3>2. QED
      BY <1>2, <1>3, <1>6, <2>2, <3>1
  <2>3. CASE s = n + 1 /\ t = n + 1
    BY <1>2, <1>3, <1>6, <2>3
  <2>4. QED
    BY <1>2, <1>6, <1>7, <2>1, <2>2, <2>3
<1>8. idle'[1] = 0
  BY <1>2, <1>6 DEF Clock
<1>9. Clock'
  BY <1>7, <1>8 DEF Clock
<1>10. Len(idle') = Len(idle) + 1 /\ Len(idle') <= MaxTime
  BY <1>2, <1>6, BoundsAssumption
<1>11. \A t \in DOMAIN idle : t \in DOMAIN idle' /\ idle'[t] = idle[t]
  BY <1>2, <1>6
<1>12. QED
  BY <1>6, <1>9, <1>10, <1>11

\* What the answer to a request can be.
LEMMA AnswerType ==
  ASSUME TypeOK, NEW j, WorkerReads(j)
  PROVE  /\ jobs' \in Seq(Job) /\ Len(jobs') = Len(jobs) /\ j \in DOMAIN jobs
         /\ \A k \in DOMAIN jobs : k # j => jobs'[k] = jobs[k]
         /\ jobs'[j].what = jobs[j].what
         /\ jobs[j].what = "stats" => jobs'[j].got \in {Zero, Now}
         /\ faults' \in 0..MaxFaults
<1>1. PICK a \in Answers(j) :
        /\ a[2] <= faults /\ faults' = faults - a[2]
        /\ jobs' = [jobs EXCEPT ![j].got = a[1], ![j].done = TRUE]
  BY DEF WorkerReads
<1>2. j \in DOMAIN jobs /\ jobs[j] \in Job /\ jobs[j].what \in {"info", "stats"}
  BY DEF WorkerReads, TypeOK, Job
<1>3. /\ a[2] \in {0, 1}
      /\ jobs[j].what = "info" => a[1] \in BOOLEAN
      /\ jobs[j].what = "stats" => a[1] \in {Zero, Now}
  <2>1. CASE jobs[j].what = "info"
    <3>1. PICK x \in BOOLEAN, n \in {0, 1} : a = <<x, n>>
      BY <2>1 DEF Answers
    <3>2. a[1] = x /\ a[2] = n
      BY <3>1
    <3>3. QED
      BY <2>1, <3>2
  <2>2. CASE jobs[j].what = "stats"
    <3>1. Answers(j) \subseteq {<<Now, 0>>, <<Zero, 1>>, <<Zero, 0>>}
      BY <2>2 DEF Answers
    <3>2. a = <<Now, 0>> \/ a = <<Zero, 1>> \/ a = <<Zero, 0>>
      BY <3>1
    <3>3. QED
      BY <2>2, <3>2
  <2>3. QED
    BY <1>2, <2>1, <2>2
<1>4. Zero \in Readings /\ Now \in Readings
  BY NowType, ZeroType
<1>5. jobs' = [jobs EXCEPT ![j] = [jobs[j] EXCEPT !.got = a[1], !.done = TRUE]]
  BY <1>1
<1>6. [jobs[j] EXCEPT !.got = a[1], !.done = TRUE] \in Job
  BY <1>2, <1>3, <1>4 DEF Job
<1>7. /\ jobs' \in Seq(Job) /\ Len(jobs') = Len(jobs)
      /\ \A k \in DOMAIN jobs : k # j => jobs'[k] = jobs[k]
      /\ jobs'[j] = [jobs[j] EXCEPT !.got = a[1], !.done = TRUE]
  BY <1>2, <1>5, <1>6 DEF TypeOK
<1>8. jobs'[j].what = jobs[j].what /\ jobs'[j].got = a[1]
  BY <1>2, <1>7 DEF Job
<1>9. faults' \in 0..MaxFaults
  BY <1>1, <1>3, BoundsAssumption DEF TypeOK
<1>10. QED
  BY <1>2, <1>3, <1>7, <1>8, <1>9

LEMMA TypeStep == TypeOK /\ Clock /\ [Next]_vars => TypeOK' /\ Clock'
<1> SUFFICES ASSUME TypeOK, Clock, [Next]_vars PROVE TypeOK' /\ Clock'
  OBVIOUS
<1> USE DEF TypeOK
<1>0. UNCHANGED idle => Clock'
  BY DEF Clock
<1>1. ASSUME NEW d \in Dialogs, OpenDialog(d) PROVE TypeOK' /\ Clock'
  BY <1>0, <1>1, AskType DEF OpenDialog
<1>2. ASSUME NEW d \in Dialogs, refresh(d) PROVE TypeOK' /\ Clock'
  <2>1. CASE isOpen
    BY <1>0, <1>2, <2>1, AskType DEF refresh
  <2>2. CASE ~isOpen
    <3>1. bar' \in [Dialogs -> 0..100 \cup {Closed}]
      <4>1. bar \in [Dialogs -> 0..100 \cup {Closed}]
        OBVIOUS
      <4>2. bar' = [bar EXCEPT ![d] = 0] /\ d \in Dialogs
        BY <1>2, <2>2 DEF refresh
      <4>3. QED
        BY <4>1, <4>2
    <3>2. QED
      BY <1>0, <1>2, <2>2, <3>1 DEF refresh
  <2>3. QED
    BY <2>1, <2>2
<1>3. ASSUME NEW d \in Dialogs, CloseDialog(d) PROVE TypeOK' /\ Clock'
  BY <1>0, <1>3 DEF CloseDialog
<1>4. ASSUME NEW j, WorkerReads(j) PROVE TypeOK' /\ Clock'
  BY <1>0, <1>4, AnswerType DEF WorkerReads
<1>5. ASSUME NEW j, ConnectionInfoFetched(j) PROVE TypeOK' /\ Clock'
  <2>1. jobs[j].got \in BOOLEAN
    BY <1>5 DEF ConnectionInfoFetched, Job
  <2>2. jobs' \in Seq(Job) /\ Len(jobs') <= MaxJobs
    BY <1>5, RemoveAtType, BoundsAssumption DEF ConnectionInfoFetched
  <2>3. QED
    BY <1>0, <1>5, <2>1, <2>2 DEF ConnectionInfoFetched
<1>6. ASSUME NEW j, HostStatsFetched(j) PROVE TypeOK' /\ Clock'
  <2>1. jobs[j].got \in Readings
    BY <1>6, GotType DEF HostStatsFetched
  <2>2. jobs' \in Seq(Job) /\ Len(jobs') <= MaxJobs
    BY <1>6, RemoveAtType, BoundsAssumption DEF HostStatsFetched
  <2>3. Usage(last, jobs[j].got) \in 0..100
    BY <2>1, UsageType
  <2>4. QED
    BY <1>0, <1>6, <2>1, <2>2, <2>3 DEF HostStatsFetched
<1>7. CASE close
  <2>1. faults' \in 0..MaxFaults
    BY <1>7, BoundsAssumption DEF close
  <2>2. QED
    BY <1>0, <1>7, <2>1 DEF close
<1>8. CASE TimePasses
  <2>0. /\ idle' \in Seq(0..MaxTime) /\ Len(idle') = Len(idle) + 1
        /\ Len(idle') <= MaxTime /\ Clock'
    BY <1>8, TimeGoesOn
  <2>1. /\ idle' \in Seq(0..MaxTime) /\ Len(idle') \in 1..MaxTime /\ Clock'
    BY <2>0, BoundsAssumption
  <2>2. QED
    BY <1>8, <2>1 DEF TimePasses
<1>9. CASE UNCHANGED vars
  BY <1>0, <1>9 DEF vars
<1>10. QED
  BY <1>1, <1>2, <1>3, <1>4, <1>5, <1>6, <1>7, <1>8, <1>9 DEF Next, JobSteps

LEMMA ClockInit == Init => Clock
  BY DEF Init, Clock

\* Type correctness, with the host's CPU clock: idle time never outruns time.
THEOREM ClockCorrect == Spec => [](TypeOK /\ Clock)
  BY TypeInit, ClockInit, TypeStep, PTL DEF Spec

\* Type correctness of the requests and the dialogs: a usage shown is a percentage.
THEOREM StatsTypeCorrect == Spec => []TypeOK
  BY ClockCorrect, PTL

-----------------------------------------------------------------------------
\* A reading the host gave at one of its moments, or none.
Taken(r) ==
  r = Zero \/ \E t \in DOMAIN idle : r = [total |-> t, idle |-> idle[t]]

\* The counters and every answer under way are readings the host gave, and the
\* bars show what lies between two of them.
RealInv ==
  /\ Taken(last)
  /\ \A j \in DOMAIN jobs : jobs[j].what = "stats" => Taken(jobs[j].got)
  /\ UsageIsReal

\* Two readings of the host make a share of the time between them.
LEMMA UsageReal ==
  ASSUME TypeOK, Clock, NEW old, NEW new, Taken(old), Taken(new), Usage(old, new) # 0
  PROVE  \E s, t \in DOMAIN idle :
           s < t /\ Usage(old, new) = 100 - (100 * (idle[t] - idle[s])) \div (t - s)
<1>1. old.total > 0 /\ new.total > old.total /\ Usage(old, new) = Difference(old, new)
  BY DEF Usage
<1>2. PICK s \in DOMAIN idle : old = [total |-> s, idle |-> idle[s]]
  BY <1>1 DEF Taken, Zero
<1>3. PICK t \in DOMAIN idle : new = [total |-> t, idle |-> idle[t]]
  BY <1>1, <1>2 DEF Taken, Zero, TypeOK
<1>4. /\ old.total = s /\ old.idle = idle[s] /\ new.total = t /\ new.idle = idle[t]
      /\ s < t /\ s \in 0..MaxTime /\ t \in 0..MaxTime
  BY <1>1, <1>2, <1>3, Moments, BoundsAssumption
<1>5. idle[s] \in 0..MaxTime /\ idle[t] \in 0..MaxTime /\ idle[t] - idle[s] \in 0 .. (t - s)
  BY <1>4, Moments, BoundsAssumption DEF Clock
<1>6. old \in Readings /\ new \in Readings
  BY <1>2, <1>3, <1>4, <1>5 DEF Readings
<1>7. Difference(old, new) = 100 - (100 * (idle[t] - idle[s])) \div (t - s)
  BY <1>4, <1>5, <1>6, DifferenceIs
<1>8. QED
  BY <1>1, <1>4, <1>7

\* As long as the past stays, so does what was taken from it and what is shown.
LEMMA SamePast ==
  ASSUME RealInv, DOMAIN idle \subseteq DOMAIN idle',
         \A t \in DOMAIN idle : idle'[t] = idle[t]
  PROVE  /\ \A r : Taken(r) => Taken(r)'
         /\ \A b : (\E s, t \in DOMAIN idle :
                     s < t /\ b = 100 - (100 * (idle[t] - idle[s])) \div (t - s))
               => (\E s, t \in DOMAIN idle' :
                     s < t /\ b = 100 - (100 * (idle'[t] - idle'[s])) \div (t - s))
  BY DEF Taken

LEMMA RealStep == TypeOK /\ Clock /\ RealInv /\ [Next]_vars => RealInv'
<1> SUFFICES ASSUME TypeOK, Clock, RealInv, [Next]_vars PROVE RealInv'
  OBVIOUS
<1>0. UNCHANGED idle => \A r : Taken(r) => Taken(r)'
  BY DEF Taken
<1>1. ASSUME NEW d \in Dialogs, OpenDialog(d) \/ refresh(d) \/ CloseDialog(d)
      PROVE  RealInv'
  <2>1. UNCHANGED <<last, idle>>
    BY <1>1 DEF OpenDialog, refresh, CloseDialog
  <2>2. UsageIsReal'
    BY <1>1, <2>1 DEF OpenDialog, refresh, CloseDialog, RealInv, UsageIsReal, Shown, TypeOK
  <2>3. \A j \in DOMAIN jobs' : jobs'[j].what = "stats" =>
          \/ jobs'[j].got = Zero
          \/ j \in DOMAIN jobs /\ jobs'[j] = jobs[j]
    <3>1. jobs' = jobs \/ jobs' = jobs \o <<Stats>> \/ jobs' = jobs \o <<Capabilities, Stats>>
      BY <1>1 DEF OpenDialog, refresh, CloseDialog, Ask, Requests
    <3>2. Stats \in Job /\ Capabilities \in Job
      BY ZeroType DEF Stats, Capabilities, Job
    <3>3. /\ <<Stats>> \in Seq(Job) /\ Len(<<Stats>>) \in 1..2
          /\ <<Capabilities, Stats>> \in Seq(Job) /\ Len(<<Capabilities, Stats>>) \in 1..2
      BY <3>2
    <3>4. CASE jobs' = jobs
      BY <3>4
    <3>5. CASE jobs' = jobs \o <<Stats>>
      BY <3>3, <3>5, AskedFor DEF Stats
    <3>6. CASE jobs' = jobs \o <<Capabilities, Stats>>
      BY <3>3, <3>6, AskedFor DEF Stats, Capabilities
    <3>7. QED
      BY <3>1, <3>4, <3>5, <3>6
  <2>4. QED
    BY <1>0, <2>1, <2>2, <2>3 DEF RealInv, Taken
<1>2. ASSUME NEW j, WorkerReads(j) PROVE RealInv'
  <2>1. UNCHANGED <<last, idle, bar>>
    BY <1>2 DEF WorkerReads
  <2>2. Taken(Now) /\ Taken(Zero)
    BY Moments DEF Taken, Now
  <2>3. \A k \in DOMAIN jobs' : jobs'[k].what = "stats" => Taken(jobs'[k].got)
    <3>0. jobs' \in Seq(Job) /\ Len(jobs') = Len(jobs) /\ jobs \in Seq(Job)
      BY <1>2, AnswerType DEF TypeOK
    <3>1. /\ j \in DOMAIN jobs
          /\ \A k \in DOMAIN jobs : k # j => jobs'[k] = jobs[k]
          /\ jobs'[j].what = jobs[j].what
          /\ jobs[j].what = "stats" => jobs'[j].got \in {Zero, Now}
      BY <1>2, AnswerType
    <3>2. DOMAIN jobs' = DOMAIN jobs
      BY <3>0
    <3>3. QED
      BY <2>2, <3>1, <3>2 DEF RealInv
  <2>4. UsageIsReal'
    BY <2>1 DEF RealInv, UsageIsReal, Shown
  <2>5. QED
    BY <2>1, <2>3, <2>4 DEF RealInv, Taken
<1>3. ASSUME NEW j, ConnectionInfoFetched(j) PROVE RealInv'
  <2>1. UNCHANGED <<last, idle, bar>> /\ j \in DOMAIN jobs /\ jobs' = RemoveAt(jobs, j)
    BY <1>3 DEF ConnectionInfoFetched
  <2>2. \A k \in DOMAIN jobs' : \E i \in DOMAIN jobs : jobs'[k] = jobs[i]
    BY <2>1, RemoveAtType DEF TypeOK
  <2>3. UsageIsReal'
    BY <2>1 DEF RealInv, UsageIsReal, Shown
  <2>4. QED
    BY <2>1, <2>2, <2>3 DEF RealInv, Taken
<1>4. ASSUME NEW j, HostStatsFetched(j) PROVE RealInv'
  <2>1. /\ UNCHANGED idle /\ j \in DOMAIN jobs /\ jobs' = RemoveAt(jobs, j)
        /\ last' = jobs[j].got /\ jobs[j].what = "stats"
        /\ bar' = [d \in Dialogs |-> IF d \in Shown THEN Usage(last, jobs[j].got)
                                                      ELSE Closed]
    BY <1>4 DEF HostStatsFetched
  <2>2. \A k \in DOMAIN jobs' : \E i \in DOMAIN jobs : jobs'[k] = jobs[i]
    BY <2>1, RemoveAtType DEF TypeOK
  <2>3. Taken(last) /\ Taken(jobs[j].got)
    BY <2>1 DEF RealInv
  <2>4. ASSUME NEW d \in Shown', bar'[d] # 0
        PROVE  \E s, t \in DOMAIN idle' :
                 s < t /\ bar'[d] = 100 - (100 * (idle'[t] - idle'[s])) \div (t - s)
    <3>1. d \in Shown /\ bar'[d] = Usage(last, jobs[j].got)
      BY <2>1, <2>4 DEF Shown
    <3>2. QED
      BY <2>1, <2>3, <2>4, <3>1, UsageReal
  <2>5. QED
    BY <2>1, <2>2, <2>3, <2>4 DEF RealInv, Taken, UsageIsReal
<1>5. CASE close
  BY <1>5 DEF close, RealInv, Taken, UsageIsReal, Shown
<1>6. CASE TimePasses
  <2>1. UNCHANGED <<last, jobs, bar>>
    BY <1>6 DEF TimePasses
  <2>2. DOMAIN idle \subseteq DOMAIN idle' /\ \A t \in DOMAIN idle : idle'[t] = idle[t]
    BY <1>6, TimeGoesOn
  <2>3. \A r : Taken(r) => Taken(r)'
    BY <2>2, SamePast
  <2>4. UsageIsReal'
    BY <2>1, <2>2, SamePast DEF RealInv, UsageIsReal, Shown
  <2>5. QED
    BY <2>1, <2>3, <2>4 DEF RealInv
<1>7. CASE UNCHANGED vars
  BY <1>7 DEF vars, RealInv, Taken, UsageIsReal, Shown
<1>8. QED
  BY <1>1, <1>2, <1>3, <1>4, <1>5, <1>6, <1>7 DEF Next, JobSteps

\* Any usage a dialog shows is one the host had between two moments.
THEOREM UsageCorrect == Spec => []UsageIsReal
<1>1. Init => RealInv
  BY DEF Init, RealInv, Taken, UsageIsReal, Shown
<1>2. RealInv => UsageIsReal
  BY DEF RealInv
<1>3. QED
  BY <1>1, <1>2, ClockCorrect, RealStep, PTL DEF Spec

-----------------------------------------------------------------------------
(* The New VM wizard. *)

\* What the pages hold is something their controls can show.
Held(g) == DOMAIN g = DOMAIN Fields /\ \A x \in DOMAIN Fields : g[x] \in Fields[x]

AllPages == NameAndOS..Summary

LEMMA PageNumbers ==
  /\ AllPages = 1..6 /\ NameAndOS = 1 /\ Summary = 6 /\ Network = 5
  BY DEF AllPages, NameAndOS, Summary, Network

\* Back goes through pages that come ever earlier, so that none comes twice.
Path == /\ history \in Seq(AllPages)
        /\ \A i, j \in DOMAIN history : i < j => history[i] < history[j]

PagesInv ==
  /\ page \in 0..Summary /\ (page = 0 <=> history = <<>>)
  /\ page # 0 => Last(history) = page
  /\ ToSet(history) = inited
  /\ Held(f) /\ Path

GuestInv ==
  /\ guest \in Guests \cup {None} /\ custom \in Customs \cup {None}
  /\ (guest = None) <=> (custom = None)
  /\ guest # None => /\ page = Summary
                     /\ custom.row \in 0..Len(guest.disks)
                     /\ custom.row = 0 => guest.disks = <<>>

\* A wizard that is open has not made its VM yet.
ToldInv == /\ m_domains \subseteq Names
           /\ told \in {"nothing", "created", "failed", "invalid"}
           /\ told = "created" => page = 0

WizardInv == PagesInv /\ GuestInv /\ ToldInv

LEMMA WizardTypes == WizardInv => WizardTypeOK
  BY DEF WizardInv, PagesInv, GuestInv, ToldInv, WizardTypeOK, Held

LEMMA FieldsType ==
  /\ {"name", "os", "media", "isoPath", "memory", "maxMemory", "vcpus", "storage",
      "diskPath", "network"} \subseteq DOMAIN Fields
  /\ Suggested \in Fields["name"] /\ {1, 2} \subseteq Fields["memory"]
  /\ {1, 2} \subseteq Fields["vcpus"] /\ "abs" \in Fields["diskPath"]
  BY SuggestedAssumption DEF Fields, Sizes

LEMMA FirstHeld == Held(First)
<1> DEFINE names == {"name", "os", "media", "isoPath", "otherPath", "memory", "maxMemory",
                     "vcpus", "maxVcpus", "storage", "diskPath", "network", "customize"}
<1>1. DOMAIN First = names /\ DOMAIN Fields = names
  BY DEF First, Fields
<1>2. /\ First["name"] \in Fields["name"] /\ First["os"] \in Fields["os"]
      /\ First["media"] \in Fields["media"] /\ First["isoPath"] \in Fields["isoPath"]
      /\ First["otherPath"] \in Fields["otherPath"]
      /\ First["storage"] \in Fields["storage"]
      /\ First["diskPath"] \in Fields["diskPath"] /\ First["network"] \in Fields["network"]
      /\ First["customize"] \in Fields["customize"]
  BY DEF First, Fields
<1>3. /\ First["memory"] \in Fields["memory"] /\ First["maxMemory"] \in Fields["maxMemory"]
      /\ First["vcpus"] \in Fields["vcpus"] /\ First["maxVcpus"] \in Fields["maxVcpus"]
  BY DEF First, Fields, Sizes
<1>4. \A x \in names : First[x] \in Fields[x]
  BY <1>2, <1>3
<1>5. QED
  BY <1>1, <1>4 DEF Held

LEMMA InitializeHeld ==
  ASSUME NEW g, Held(g), NEW p
  PROVE  Held(Initialize(p, g))
<1>1. Held(InitializeName(g))
  BY FieldsType DEF Held, InitializeName
<1>2. Held(InitializeCPU(g))
  BY FieldsType DEF Held, InitializeCPU
<1>3. Held(InitializeStorage(g))
  BY FieldsType DEF Held, InitializeStorage
<1>4. QED
  BY <1>1, <1>2, <1>3 DEF Initialize

LEMMA CleanUpHeld ==
  ASSUME NEW g, Held(g), NEW p
  PROVE  Held(CleanUp(p, g))
  BY FirstHeld DEF Held, CleanUp

LEMMA SetHeld ==
  ASSUME NEW g, Held(g), NEW x \in DOMAIN Fields, NEW v \in Fields[x]
  PROVE  Held([g EXCEPT ![x] = v])
  BY DEF Held

\* One page further, and one page back.
LEMMA PathForward ==
  ASSUME PagesInv, NEW p \in AllPages, page < p
  PROVE  /\ Append(history, p) \in Seq(AllPages)
         /\ \A i, j \in DOMAIN Append(history, p) :
              i < j => Append(history, p)[i] < Append(history, p)[j]
         /\ ToSet(Append(history, p)) = ToSet(history) \cup {p}
         /\ Last(Append(history, p)) = p /\ Append(history, p) # <<>>
<1> DEFINE n == Len(history)
           h == Append(history, p)
<1>1. history \in Seq(AllPages) /\ n \in Nat /\ DOMAIN history = 1..n
  BY DEF PagesInv, Path
<1>2. /\ h \in Seq(AllPages) /\ Len(h) = n + 1 /\ DOMAIN h = 1 .. n + 1
      /\ h[n + 1] = p /\ \A i \in 1..n : h[i] = history[i]
  BY <1>1
<1>3. \A i \in 1..n : history[i] \in AllPages /\ history[i] <= page
  <2>1. ASSUME NEW i \in 1..n PROVE history[i] \in AllPages /\ history[i] <= page
    <3>1. page = history[n] /\ n > 0
      BY <1>1, <2>1 DEF PagesInv, Last
    <3>2. history[i] \in AllPages /\ history[n] \in AllPages
      BY <1>1, <3>1, ElementOf
    <3>3. i = n \/ history[i] < history[n]
      <4>1. n \in Nat /\ n > 0 /\ DOMAIN history = 1..n /\ i \in 1..n
        BY <1>1, <2>1, <3>1
      <4> HIDE DEF n
      <4>2. i \in DOMAIN history /\ n \in DOMAIN history /\ (i = n \/ i < n)
        BY <4>1
      <4>3. QED
        BY <4>2 DEF PagesInv, Path
    <3>4. QED
      BY <3>1, <3>2, <3>3, PageNumbers
  <2>2. QED
    BY <2>1
<1>4. ASSUME NEW i \in DOMAIN h, NEW j \in DOMAIN h, i < j PROVE h[i] < h[j]
  <2>1. CASE j \in 1..n
    BY <1>1, <1>2, <1>4, <2>1 DEF PagesInv, Path
  <2>2. CASE j = n + 1
    <3>1. i \in 1..n
      BY <1>1, <1>2, <1>4, <2>2
    <3>2. page \in 0..Summary /\ history[i] \in AllPages /\ history[i] <= page
      BY <1>3, <3>1 DEF PagesInv
    <3>3. QED
      BY <1>2, <2>2, <3>1, <3>2, PageNumbers
  <2>3. QED
    BY <1>1, <1>2, <2>1, <2>2
<1>5. ToSet(h) = ToSet(history) \cup {p}
  BY <1>1, <1>2 DEF ToSet
<1>6. Last(h) = p /\ h # <<>>
  BY <1>1, <1>2 DEF Last
<1>7. QED
  BY <1>2, <1>4, <1>5, <1>6

LEMMA PathBack ==
  ASSUME PagesInv, Len(history) > 1
  PROVE  /\ Front(history) \in Seq(AllPages) /\ Front(history) # <<>>
         /\ \A i, j \in DOMAIN Front(history) :
              i < j => Front(history)[i] < Front(history)[j]
         /\ ToSet(Front(history)) = ToSet(history) \ {page}
         /\ Last(Front(history)) = history[Len(history) - 1]
         /\ history[Len(history) - 1] \in AllPages
<1> DEFINE n == Len(history)
           h == Front(history)
<1>1. /\ history \in Seq(AllPages) /\ n \in Nat /\ n > 1
      /\ DOMAIN history = 1..n
  BY DEF PagesInv, Path
<1>2. /\ h \in Seq(AllPages) /\ Len(h) = n - 1 /\ DOMAIN h = 1 .. n - 1
      /\ \A i \in 1 .. n - 1 : h[i] = history[i]
  BY <1>1 DEF Front
<1>3. page = history[n]
  BY <1>1 DEF PagesInv, Last
<1>4. \A i \in 1 .. n - 1 : history[i] # page
  <2>1. ASSUME NEW i \in 1 .. n - 1 PROVE history[i] # page
    <3>1. history[i] \in AllPages /\ history[n] \in AllPages
      BY <1>1, ElementOf
    <3>2. history[i] < history[n]
      BY <1>1 DEF PagesInv, Path
    <3>3. QED
      BY <1>3, <3>1, <3>2, PageNumbers
  <2>2. QED
    BY <2>1
<1>5. ToSet(h) = ToSet(history) \ {page}
  <2>1. ToSet(h) = {history[i] : i \in 1 .. n - 1}
    BY <1>2 DEF ToSet
  <2>2. ToSet(history) = {history[i] : i \in 1 .. n - 1} \cup {history[n]}
    BY <1>1 DEF ToSet
  <2>3. QED
    BY <1>3, <1>4, <2>1, <2>2
<1>6. history[n - 1] \in AllPages
  BY <1>1, ElementOf
<1>7. \A i, j \in DOMAIN h : i < j => h[i] < h[j]
  BY <1>1, <1>2 DEF PagesInv, Path
<1>8. QED
  BY <1>1, <1>2, <1>5, <1>6, <1>7 DEF Last

-----------------------------------------------------------------------------
(* The wizard's pages. *)

LEMMA WizardInitInv == WizardInit => WizardInv
<1> SUFFICES ASSUME WizardInit PROVE WizardInv
  OBVIOUS
<1>1. PagesInv
  BY FirstHeld, PageNumbers DEF WizardInit, PagesInv, Path, ToSet
<1>2. GuestInv /\ ToldInv
  BY DEF WizardInit, GuestInv, ToldInv
<1>3. QED
  BY <1>1, <1>2 DEF WizardInv

LEMMA GoToPages ==
  ASSUME PagesInv, NEW p, p = page + 1 \/ (page # Network /\ p = Summary), GoTo(p)
  PROVE  PagesInv' /\ page' # 0 /\ page # Summary
<1>1. page \in NameAndOS..Network /\ page' = p /\ history' = Append(history, p)
      /\ inited' = inited \cup {p}
      /\ f' = IF p \in inited THEN f ELSE Initialize(p, f)
  BY DEF GoTo
<1>2. p \in AllPages /\ page < p /\ page # Summary /\ page' \in 0..Summary /\ p # 0
  BY <1>1, PageNumbers
<1>3. Held(f')
  BY <1>1, InitializeHeld DEF PagesInv
<1>4. QED
  BY <1>1, <1>2, <1>3, PathForward DEF PagesInv, Path

LEMMA BackPages ==
  ASSUME PagesInv, Back
  PROVE  PagesInv' /\ page' # 0
<1>1. /\ Len(history) > 1 /\ page' = history[Len(history) - 1]
      /\ history' = Front(history) /\ inited' = inited \ {page} /\ f' = CleanUp(page, f)
  BY DEF Back
<1>2. page' \in AllPages /\ page' \in 0..Summary /\ page' # 0
  BY <1>1, PathBack, PageNumbers
<1>3. Held(f')
  BY <1>1, CleanUpHeld DEF PagesInv
<1>4. QED
  BY <1>1, <1>2, <1>3, PathBack DEF PagesInv, Path

\* No wizard: as at first, and as it is left.
LEMMA ClosedPages ==
  ASSUME page' = 0, history' = <<>>, inited' = {}, f' = First
  PROVE  PagesInv'
  BY FirstHeld, PageNumbers DEF PagesInv, Path, ToSet

LEMMA OpenPages ==
  ASSUME OpenWizard
  PROVE  PagesInv' /\ page' # 0
<1>1. /\ page' = NameAndOS /\ history' = <<NameAndOS>> /\ inited' = {NameAndOS}
      /\ f' = Initialize(NameAndOS, First)
  BY DEF OpenWizard
<1>2. Held(f')
  BY <1>1, FirstHeld, InitializeHeld
<1>3. history' \in Seq(AllPages) /\ Last(history') = 1 /\ ToSet(history') = {1}
      /\ history' # <<>> /\ DOMAIN history' = {1}
  BY <1>1, PageNumbers DEF Last, ToSet
<1>4. QED
  BY <1>1, <1>2, <1>3, PageNumbers DEF PagesInv, Path

LEMMA SamePages == PagesInv /\ UNCHANGED wizard => PagesInv'
  BY DEF PagesInv, Path, Held, wizard

\* A define leaves the wizard, or closes it.
LEMMA DefinePages ==
  ASSUME PagesInv, NEW g, Define(g)
  PROVE  PagesInv'
<1>1. CASE told' = "created"
  BY <1>1, ClosedPages DEF Define
<1>2. CASE told' # "created"
  BY <1>2, SamePages DEF Define
<1>3. QED
  BY <1>1, <1>2

-----------------------------------------------------------------------------
(* The guest being made. *)

\* The new guest has the types of the fields it is built from.
LEMMA BuiltType ==
  ASSUME PagesInv
  PROVE  Built \in Guests
<1>1. /\ f["name"] \in Fields["name"] /\ f["memory"] \in 1..3 /\ f["vcpus"] \in 1..3
      /\ f["diskPath"] \in {None, "abs", "rel"} /\ f["isoPath"] \in {None, "abs"}
  <2>1. {"name", "memory", "vcpus", "diskPath", "isoPath"} \subseteq DOMAIN Fields
    BY FieldsType
  <2>2. /\ f["name"] \in Fields["name"] /\ f["memory"] \in Fields["memory"]
        /\ f["vcpus"] \in Fields["vcpus"] /\ f["diskPath"] \in Fields["diskPath"]
        /\ f["isoPath"] \in Fields["isoPath"]
    BY <2>1 DEF PagesInv, Held
  <2>3. /\ Fields["memory"] = 1..3 /\ Fields["vcpus"] = 1..3
        /\ Fields["diskPath"] = {None, "abs", "rel"} /\ Fields["isoPath"] = {None, "abs"}
    BY DEF Fields, Sizes
  <2>4. QED
    BY <2>2, <2>3
<1>2. /\ Disk("disk", 1, "Virtio", f.diskPath) \in DiskSet
      /\ Disk("cdrom", 0, "SATA", f.isoPath) \in DiskSet
  BY <1>1 DEF Disk, DiskSet
<1>3. /\ (IF f.storage = "No" THEN <<>> ELSE <<Disk("disk", 1, "Virtio", f.diskPath)>>)
           \in Seq(DiskSet)
      /\ (IF f.media = "ISO" THEN <<Disk("cdrom", 0, "SATA", f.isoPath)>> ELSE <<>>)
           \in Seq(DiskSet)
  BY <1>2
<1>4. Built.disks \in Seq(DiskSet)
  BY <1>3 DEF Built
<1>5. QED
  BY <1>1, <1>4 DEF Built, Guests, Sizes

LEMMA BuiltCPUs == PagesInv => Built.vcpus > 0 /\ Built.maxVcpus > 0
<1> SUFFICES ASSUME PagesInv PROVE Built.vcpus > 0 /\ Built.maxVcpus > 0
  OBVIOUS
<1>1. f["vcpus"] \in Fields["vcpus"] /\ Fields["vcpus"] = 1..3
  BY FieldsType DEF PagesInv, Held, Fields, Sizes
<1>2. QED
  BY <1>1 DEF Built

\* What Apply makes of it, and what the dialog shows of a new one.
LEMMA AppliedType ==
  ASSUME GuestInv, guest # None
  PROVE  Applied \in Guests /\ Len(Applied.disks) = Len(guest.disks)
<1>1. guest \in Guests /\ custom \in Customs
  BY DEF GuestInv
<1>2. guest.disks \in Seq(DiskSet) /\ custom.bus \in {"Virtio", "SATA"}
  BY <1>1 DEF Guests, Customs
<1>3. /\ Applied.disks \in Seq(DiskSet) /\ Len(Applied.disks) = Len(guest.disks)
  <2>1. \A i \in DOMAIN guest.disks : [guest.disks[i] EXCEPT !.bus = custom.bus] \in DiskSet
    <3>1. \A i \in DOMAIN guest.disks : guest.disks[i] \in DiskSet
      BY <1>2, ElementOf
    <3>2. \A d \in DiskSet : [d EXCEPT !.bus = custom.bus] \in DiskSet
      BY <1>2 DEF DiskSet
    <3>3. QED
      BY <3>1, <3>2
  <2>2. Applied.disks = [i \in 1 .. Len(guest.disks) |->
                          [guest.disks[i] EXCEPT !.bus = custom.bus]]
    BY <1>2 DEF Applied
  <2>3. Len(guest.disks) \in Nat /\ DOMAIN guest.disks = 1 .. Len(guest.disks)
    BY <1>2
  <2> DEFINE e(i) == [guest.disks[i] EXCEPT !.bus = custom.bus]
  <2>4. \A i \in 1 .. Len(guest.disks) : e(i) \in DiskSet
    BY <2>1, <2>3
  <2>5. Applied.disks = [i \in 1 .. Len(guest.disks) |-> e(i)]
    BY <2>2
  <2> HIDE DEF e
  <2>6. QED
    BY <2>3, <2>4, <2>5
<1>4. /\ Applied.name \in Fields.name /\ Applied.memory \in Sizes
      /\ Applied.currentMemory \in Sizes /\ Applied.nics \in {0, 1}
      /\ Applied.vcpus \in Nat /\ Applied.maxVcpus \in Nat
  BY <1>1, FieldsType, WizardBounds DEF Applied, Guests, Customs
<1>5. QED
  BY <1>3, <1>4 DEF Applied, Guests

LEMMA OpenCustomType ==
  ASSUME NEW g \in Guests, g.vcpus > 0, g.maxVcpus > 0
  PROVE  /\ OpenCustom(g) \in Customs /\ OpenCustom(g).row \in 0..Len(g.disks)
         /\ OpenCustom(g).row = 0 => g.disks = <<>>
<1>1. g.disks \in Seq(DiskSet) /\ g.vcpus \in Nat /\ g.maxVcpus \in Nat
  BY DEF Guests
<1>2. Clipped(g.vcpus) \in 1..MaxVcpus /\ Clipped(g.maxVcpus) \in 1..MaxVcpus
  BY <1>1, WizardBounds DEF Clipped
<1>3. g.disks = <<>> \/ (1 \in DOMAIN g.disks /\ Len(g.disks) >= 1)
  BY <1>1
<1>4. g.disks # <<>> => g.disks[1].bus \in {"Virtio", "SATA"}
  <2>1. g.disks # <<>> => g.disks[1] \in DiskSet
    BY <1>1, <1>3, ElementOf
  <2>2. QED
    BY <2>1 DEF DiskSet
<1>5. QED
  BY <1>1, <1>2, <1>3, <1>4 DEF OpenCustom, BusShown, Guests, Customs

LEMMA NoGuest == guest' = None /\ custom' = None => GuestInv'
  BY DEF GuestInv

LEMMA SameGuest == GuestInv /\ UNCHANGED <<guest, custom, page>> => GuestInv'
  BY DEF GuestInv

LEMMA NotNone ==
  /\ \A g \in Guests : g # None
  /\ \A c \in Customs : c # None
  BY NoneAssumption

-----------------------------------------------------------------------------
(* Every step of the wizard. *)

\* The steps that go through the pages, those that make the guest, and the rest.
PageSteps == OpenWizard \/ Forward \/ onCustomizeClicked \/ Back \/ Cancel
             \/ \E x \in DOMAIN Fields : \E v \in Fields[x] : SetField(x, v)
CustomSteps ==
  \/ \E x \in {"currentMemory", "memory"} : \E v \in Sizes : SetCustom(x, v)
  \/ \E x \in {"vcpus", "maxVcpus"} : \E v \in 1..MaxVcpus : SetCustom(x, v)
  \/ \E v \in Fields["name"] : SetCustom("name", v)
  \/ \E v \in {"Virtio", "SATA"} : SetCustom("bus", v)
  \/ custom # None /\ \E r \in DOMAIN guest.disks : onCurrentDiskChanged(r)
  \/ onDiskAdded \/ onDiskRemoved \/ ChangeNics
DefineSteps == Finish \/ onOkayClicked
OtherSteps == onCancelClicked \/ Poll \/ \E n \in Names : Other(n)

LEMMA WizardSteps ==
  WizardNext => PageSteps \/ CustomSteps \/ DefineSteps \/ OtherSteps
  BY DEF WizardNext, PageSteps, CustomSteps, DefineSteps, OtherSteps

LEMMA PageStepsKeep ==
  ASSUME WizardInv, PageSteps
  PROVE  WizardInv'
<1> USE DEF WizardInv
<1>1. ToldInv /\ UNCHANGED m_domains /\ (told' = "nothing" \/ (told' = told /\ page # 0))
        => ToldInv'
  BY DEF ToldInv
<1>2. page # Summary => guest = None /\ custom = None
  BY DEF GuestInv
<1>3. UNCHANGED <<guest, custom>> /\ guest = None => GuestInv'
  BY NoGuest DEF GuestInv
<1>4. CASE OpenWizard
  <2>1. page # Summary /\ told' = "nothing" /\ Quiet
    BY <1>4, PageNumbers DEF OpenWizard
  <2>2. UNCHANGED <<guest, custom, m_domains>>
    BY <2>1 DEF Quiet
  <2>3. PagesInv'
    BY <1>4, OpenPages
  <2>4. GuestInv'
    BY <1>2, <1>3, <2>1, <2>2
  <2>5. ToldInv'
    BY <1>1, <2>1, <2>2
  <2>6. QED
    BY <2>3, <2>4, <2>5
<1>5. CASE Forward \/ onCustomizeClicked
  <2>1. PICK p : (p = page + 1 \/ (page # Network /\ p = Summary)) /\ GoTo(p)
    BY <1>5 DEF Forward, onCustomizeClicked
  <2>2. PagesInv' /\ page # 0 /\ page # Summary
    BY <2>1, GoToPages, PageNumbers DEF GoTo
  <2>3. UNCHANGED told /\ Quiet
    BY <2>1 DEF GoTo
  <2>4. QED
    BY <1>1, <1>2, <1>3, <2>2, <2>3 DEF Quiet
<1>6. CASE Back
  <2>1. PagesInv' /\ page # 0 /\ guest = None /\ UNCHANGED told /\ Quiet
    BY <1>6, BackPages DEF Back, Busy
  <2>2. QED
    BY <1>1, <1>3, <2>1 DEF Quiet
<1>7. CASE Cancel
  <2>1. PagesInv' /\ page # 0 /\ guest = None /\ UNCHANGED told /\ Quiet
    BY <1>7, ClosedPages DEF Cancel, Busy
  <2>2. QED
    BY <1>1, <1>3, <2>1 DEF Quiet
<1>8. ASSUME NEW x \in DOMAIN Fields, NEW v \in Fields[x], SetField(x, v)
      PROVE  WizardInv'
  <2>1. page # 0 /\ guest = None /\ UNCHANGED <<page, history, inited, told>> /\ Quiet
        /\ f' = [f EXCEPT ![x] = v]
    BY <1>8 DEF SetField, Busy
  <2>2. Held(f')
    BY <2>1, SetHeld DEF PagesInv
  <2>3. PagesInv'
    BY <2>1, <2>2 DEF PagesInv, Path
  <2>4. QED
    BY <1>1, <1>3, <2>1, <2>3 DEF Quiet
<1>9. QED
  BY <1>4, <1>5, <1>6, <1>7, <1>8, PageSteps DEF PageSteps

\* A setting of the customizing dialog.
LEMMA SetCustomType ==
  ASSUME custom \in Customs, NEW x, NEW v,
         \/ x \in {"currentMemory", "memory"} /\ v \in Sizes
         \/ x \in {"vcpus", "maxVcpus"} /\ v \in 1..MaxVcpus
         \/ x = "name" /\ v \in Fields["name"]
         \/ x = "bus" /\ v \in {"Virtio", "SATA"}
  PROVE  /\ [custom EXCEPT ![x] = v] \in Customs
         /\ [custom EXCEPT ![x] = v].row = custom.row
  BY DEF Customs

LEMMA CustomStepsKeep ==
  ASSUME WizardInv, CustomSteps
  PROVE  WizardInv'
<1>1. Customizing
  BY DEF CustomSteps, SetCustom, onCurrentDiskChanged, onDiskAdded, onDiskRemoved,
     ChangeNics
<1>2. /\ custom # None /\ guest # None /\ custom \in Customs /\ guest \in Guests
      /\ page = Summary /\ guest.disks \in Seq(DiskSet)
      /\ custom.row \in 0..Len(guest.disks) /\ (custom.row = 0 => guest.disks = <<>>)
  BY <1>1 DEF Customizing, WizardInv, GuestInv, Guests
<1>3. PagesInv' /\ ToldInv' /\ UNCHANGED page
  BY <1>1, SamePages DEF Customizing, WizardInv, ToldInv, wizard
<1>4. SUFFICES /\ custom' \in Customs /\ guest' \in Guests
               /\ custom'.row \in 0..Len(guest'.disks)
               /\ custom'.row = 0 => guest'.disks = <<>>
  BY <1>2, <1>3, <1>4, NotNone DEF WizardInv, GuestInv
<1>5. ASSUME NEW x, NEW v, SetCustom(x, v),
             \/ x \in {"currentMemory", "memory"} /\ v \in Sizes
             \/ x \in {"vcpus", "maxVcpus"} /\ v \in 1..MaxVcpus
             \/ x = "name" /\ v \in Fields["name"]
             \/ x = "bus" /\ v \in {"Virtio", "SATA"}
      PROVE  /\ custom' \in Customs /\ guest' = guest /\ custom'.row = custom.row
  BY <1>2, <1>5, SetCustomType DEF SetCustom
<1>6. ASSUME NEW r \in DOMAIN guest.disks, onCurrentDiskChanged(r)
      PROVE  /\ custom' \in Customs /\ guest' = guest /\ custom'.row = r
             /\ r \in 1..Len(guest.disks)
  <2>1. guest.disks[r] \in DiskSet
    BY <1>2, <1>6, ElementOf
  <2>2. r \in 1..Len(guest.disks) /\ r \in Nat
    BY <1>2, <1>6
  <2>3. guest.disks[r].bus \in {"Virtio", "SATA"}
    BY <2>1 DEF DiskSet
  <2>4. QED
    BY <1>2, <1>6, <2>2, <2>3 DEF onCurrentDiskChanged, Customs
<1>7. CASE onDiskAdded
  <2> DEFINE n == Len(guest.disks)
             d == Disk("disk", n + 1, "Virtio", "abs")
  <2>1. /\ guest' = [guest EXCEPT !.disks = Append(@, d)]
        /\ custom' = [custom EXCEPT !.row = n + 1, !.bus = "Virtio"]
    BY <1>7 DEF onDiskAdded
  <2>2. n \in Nat /\ d \in DiskSet
    BY <1>2 DEF Disk, DiskSet
  <2> HIDE DEF d
  <2>3. Append(guest.disks, d) \in Seq(DiskSet) /\ Len(Append(guest.disks, d)) = n + 1
    BY <1>2, <2>2
  <2>4. guest' \in Guests /\ guest'.disks = Append(guest.disks, d)
    BY <1>2, <2>1, <2>3 DEF Guests
  <2>5. custom' \in Customs /\ custom'.row = n + 1
    <3>1. n + 1 \in Nat
      BY <2>2
    <3> HIDE DEF n
    <3>2. QED
      BY <1>2, <2>1, <3>1 DEF Customs
  <2>6. QED
    BY <2>2, <2>3, <2>4, <2>5
<1>8. CASE onDiskRemoved
  <2> DEFINE disks == RemoveAt(guest.disks, custom.row)
             r == IF disks = <<>> THEN 0 ELSE 1
  <2>1. custom.row \in DOMAIN guest.disks
    BY <1>2, <1>8 DEF onDiskRemoved
  <2>2. disks \in Seq(DiskSet)
    BY <1>2, <2>1, RemoveAtType
  <2>3. guest' = [guest EXCEPT !.disks = disks]
    BY <1>8 DEF onDiskRemoved
  <2>4. guest' \in Guests /\ guest'.disks = disks
    BY <1>2, <2>2, <2>3 DEF Guests
  <2>5. custom' = [custom EXCEPT !.row = r, !.bus = BusShown(guest', r, @)]
    BY <1>8, <2>4 DEF onDiskRemoved
  <2> HIDE DEF disks
  <2>6. disks # <<>> => 1 \in DOMAIN disks /\ Len(disks) >= 1
    BY <2>2
  <2>7. disks # <<>> => disks[1].bus \in {"Virtio", "SATA"}
    <3>1. disks # <<>> => disks[1] \in DiskSet
      BY <2>2, <2>6, ElementOf
    <3>2. QED
      BY <3>1 DEF DiskSet
  <2>8. custom' \in Customs /\ custom'.row = r
    BY <1>2, <2>4, <2>5, <2>7 DEF Customs, BusShown
  <2>9. QED
    BY <2>2, <2>4, <2>6, <2>8
<1>9. CASE ChangeNics
  <2>1. /\ guest' = [guest EXCEPT !.nics = IF @ = 0 THEN 1 ELSE 0] /\ custom' = custom
    BY <1>9 DEF ChangeNics
  <2>2. guest' \in Guests /\ guest'.disks = guest.disks
    BY <1>2, <2>1 DEF Guests
  <2>3. QED
    BY <1>2, <2>1, <2>2
<1>10. QED
  BY <1>2, <1>5, <1>6, <1>7, <1>8, <1>9 DEF CustomSteps

\* A define keeps the table's names and says how it went; after a success there
\* is no wizard any more.
LEMMA DefineTold ==
  ASSUME PagesInv, ToldInv, NEW g, Define(g)
  PROVE  ToldInv' /\ PagesInv' /\ guest' = None /\ custom' = None
<1>1. told' \in {"created", "failed", "invalid"}
  BY DEF Define, defineDomain
<1>2. m_domains' \subseteq Names
  BY DEF Define, defineDomain, Valid, ToldInv
<1>3. told' = "created" => page' = 0
  BY DEF Define
<1>4. guest' = None /\ custom' = None
  BY DEF Define
<1>5. QED
  BY <1>1, <1>2, <1>3, <1>4, DefinePages DEF ToldInv

LEMMA DefineStepsKeep ==
  ASSUME WizardInv, DefineSteps
  PROVE  WizardInv'
<1> USE DEF WizardInv
<1>1. ASSUME NEW g, Define(g) PROVE WizardInv'
  BY <1>1, DefineTold, NoGuest
<1>2. ASSUME Finish, f.customize, UNCHANGED <<wizard, host, m_domains, told>>,
             guest' = Built, custom' = OpenCustom(Built)
      PROVE  WizardInv'
  <2>1. page = Summary /\ page' = Summary
    BY <1>2 DEF Finish, wizard
  <2>2. Built \in Guests /\ Built.vcpus > 0 /\ Built.maxVcpus > 0
    BY BuiltType, BuiltCPUs
  <2>3. GuestInv'
    BY <1>2, <2>1, <2>2, OpenCustomType, NotNone DEF GuestInv
  <2>4. PagesInv' /\ ToldInv'
    BY <1>2, SamePages DEF ToldInv, wizard
  <2>5. QED
    BY <2>3, <2>4
<1>3. CASE Finish
  BY <1>1, <1>2, <1>3 DEF Finish
<1>4. CASE onOkayClicked
  <2>1. CASE UNCHANGED <<wizard, guest, custom, host, m_domains>> /\ told' = "invalid"
    <3>1. PagesInv' /\ GuestInv' /\ ToldInv'
      BY <2>1, SamePages, SameGuest DEF ToldInv, wizard
    <3>2. QED
      BY <3>1
  <2>2. CASE UNCHANGED <<wizard, custom, host, m_domains>> /\ told' = "invalid"
             /\ guest' = Applied
    <3>1. custom # None /\ guest # None
      BY <1>4 DEF onOkayClicked, GuestInv
    <3>2. Applied \in Guests /\ Len(Applied.disks) = Len(guest.disks)
      BY <3>1, AppliedType
    <3>3. guest.disks \in Seq(DiskSet) /\ Applied.disks \in Seq(DiskSet)
      BY <3>1, <3>2 DEF GuestInv, Guests
    <3>4. guest.disks = <<>> => Applied.disks = <<>>
      BY <3>2, <3>3
    <3>5. GuestInv'
      BY <2>2, <3>1, <3>2, <3>4, NotNone DEF GuestInv, wizard
    <3>6. PagesInv' /\ ToldInv'
      BY <2>2, SamePages DEF ToldInv, wizard
    <3>7. QED
      BY <3>5, <3>6
  <2>3. CASE Define(Applied)
    BY <1>1, <2>3
  <2>4. QED
    BY <1>4, <2>1, <2>2, <2>3 DEF onOkayClicked
<1>5. QED
  BY <1>3, <1>4, DefineSteps DEF DefineSteps

LEMMA OtherStepsKeep ==
  ASSUME WizardInv, OtherSteps
  PROVE  WizardInv'
<1> USE DEF WizardInv
<1>1. CASE onCancelClicked
  BY <1>1, NoGuest, SamePages DEF onCancelClicked, Customizing, ToldInv, wizard
<1>2. CASE Poll
  BY <1>2, SameGuest, SamePages DEF Poll, ToldInv, wizard
<1>3. ASSUME NEW n \in Names, Other(n) PROVE WizardInv'
  BY <1>3, SameGuest, SamePages DEF Other, ToldInv, wizard
<1>4. QED
  BY <1>1, <1>2, <1>3 DEF OtherSteps

LEMMA WizardSame == WizardInv /\ UNCHANGED wizardVars => WizardInv'
  BY SamePages, SameGuest DEF WizardInv, ToldInv, wizardVars, wizard

\* The inductive invariant: types, the pages behind and their fields, the guest
\* at the summary, and that "created" is said by a wizard that has closed.
THEOREM WizardInductive == WizardSpec => []WizardInv
<1>1. WizardInv /\ [WizardNext]_wizardVars => WizardInv'
  BY WizardSame, WizardSteps, PageStepsKeep, CustomStepsKeep, DefineStepsKeep,
     OtherStepsKeep
<1>2. QED
  BY <1>1, WizardInitInv, PTL DEF WizardSpec

\* Type correctness.
THEOREM WizardTypeCorrect == WizardSpec => []WizardTypeOK
  BY WizardInductive, WizardTypes, PTL

-----------------------------------------------------------------------------
(* What the wizard makes, and what it says of it. *)

\* The VM that a define puts on the host, if it puts one there.
LEMMA DefineHost ==
  ASSUME NEW g \in Guests, Define(g)
  PROVE  \/ UNCHANGED <<host, m_domains>> /\ told' \in {"invalid", "failed"}
         \/ /\ Valid(g) /\ g.name \in Names /\ host[g.name] = None
            /\ host' = [host EXCEPT ![g.name] = toXML(g)]
            /\ IF g.name \in m_domains
               THEN told' = "failed"
               ELSE told' = "created" /\ m_domains' = m_domains \cup {g.name}
  BY DEF Define, defineDomain, Valid

\* Only Finish and Apply define a VM, one whose types they know.
LEMMA WhoDefines ==
  ASSUME WizardInv, [WizardNext]_wizardVars
  PROVE  \/ UNCHANGED host /\ (told' = told \/ told' \in {"nothing", "invalid"})
         \/ /\ \E n \in Names : host' = [host EXCEPT ![n] = IF @ = None THEN Foreign ELSE None]
            /\ UNCHANGED <<told, page>>
         \/ page = Summary /\ \E g \in Guests : Define(g)
<1>1. CASE PageSteps
  BY <1>1 DEF PageSteps, OpenWizard, Forward, onCustomizeClicked, GoTo, Back, Cancel,
     SetField, Quiet
<1>2. CASE CustomSteps
  BY <1>2 DEF CustomSteps, SetCustom, onCurrentDiskChanged, onDiskAdded, onDiskRemoved,
     ChangeNics, Customizing
<1>3. CASE Finish
  <2>1. Built \in Guests
    BY BuiltType DEF WizardInv
  <2>2. QED
    BY <1>3, <2>1 DEF Finish
<1>4. CASE onOkayClicked
  <2>1. guest # None /\ page = Summary
    BY <1>4 DEF onOkayClicked, WizardInv, GuestInv
  <2>2. Applied \in Guests
    BY <2>1, AppliedType DEF WizardInv
  <2>3. QED
    BY <1>4, <2>1, <2>2 DEF onOkayClicked
<1>5. CASE OtherSteps
  BY <1>5 DEF OtherSteps, onCancelClicked, Customizing, Poll, Other, wizard
<1>6. CASE UNCHANGED wizardVars
  BY <1>6 DEF wizardVars
<1>7. QED
  BY <1>1, <1>2, <1>3, <1>4, <1>5, <1>6, WizardSteps DEF DefineSteps

LEMMA toXMLIs ==
  ASSUME NEW g \in Guests
  PROVE  /\ toXML(g).name = g.name /\ toXML(g).currentMemory = g.currentMemory
         /\ toXML(g).memory = g.memory /\ toXML(g).disks = g.disks
         /\ g.name \in Names => toXML(g) \in Written
  BY DEF toXML, Guests, Written

\* The host keeps one entry for each name.
HostInv == DOMAIN host = Names /\ DefinedIsSane

LEMMA HostStep ==
  ASSUME WizardInv, HostInv, [WizardNext]_wizardVars
  PROVE  HostInv'
<1> USE DEF HostInv
<1>1. CASE UNCHANGED host
  BY <1>1 DEF DefinedIsSane, Ours
<1>2. CASE \E n \in Names : host' = [host EXCEPT ![n] = IF @ = None THEN Foreign ELSE None]
  BY <1>2 DEF DefinedIsSane, Ours
<1>3. ASSUME NEW g \in Guests, Define(g), ~ UNCHANGED host PROVE HostInv'
  <2>1. /\ Valid(g) /\ g.name \in Names
        /\ host' = [host EXCEPT ![g.name] = toXML(g)]
    BY <1>3, DefineHost
  <2>2. /\ toXML(g).name = g.name /\ toXML(g).currentMemory <= toXML(g).memory
        /\ \A i \in DOMAIN toXML(g).disks : toXML(g).disks[i].source # "rel"
    BY <2>1, toXMLIs DEF Valid
  <2>3. QED
    BY <2>1, <2>2 DEF DefinedIsSane, Ours
<1>4. QED
  BY <1>1, <1>2, <1>3, WhoDefines

\* A VM of ours on the host is the one it is known as, starts within its memory
\* and opens no disk image by a relative path.
THEOREM DefinedSane == WizardSpec => []DefinedIsSane
<1>1. WizardInit => HostInv
  BY DEF WizardInit, HostInv, DefinedIsSane, Ours
<1>2. HostInv => DefinedIsSane
  BY DEF HostInv
<1>3. QED
  BY <1>1, <1>2, WizardInductive, HostStep, PTL DEF WizardSpec

\* What the wizard tells the user of one step.
Gained == {n \in Names : host[n] = None /\ host'[n] \notin {None, Foreign}}
Made == page # 0 /\ page' = 0 /\ told' = "created"
ToldNow ==
  /\ Made => \E n \in Names : Gained = {n} /\ m_domains' = m_domains \cup Gained
                              /\ n \notin m_domains
  /\ \A n \in Gained : Made \/ (told' = "failed" /\ n \in m_domains)

LEMMA TellsNow ==
  ASSUME WizardInv, HostInv, [WizardNext]_wizardVars
  PROVE  ToldNow
<1>0. told = "created" => page = 0
  BY DEF WizardInv, ToldInv
<1>1. CASE UNCHANGED host /\ (told' = told \/ told' \in {"nothing", "invalid"})
  BY <1>0, <1>1 DEF ToldNow, Gained, Made
<1>2. CASE /\ \E n \in Names : host' = [host EXCEPT ![n] = IF @ = None THEN Foreign ELSE None]
           /\ UNCHANGED <<told, page>>
  <2>1. Gained = {}
    BY <1>2 DEF Gained, HostInv
  <2>2. QED
    BY <1>2, <2>1 DEF ToldNow, Made
<1>3. ASSUME NEW g \in Guests, Define(g), page = Summary PROVE ToldNow
  <2>1. CASE UNCHANGED <<host, m_domains>> /\ told' \in {"invalid", "failed"}
    BY <2>1 DEF ToldNow, Gained, Made
  <2>2. CASE /\ g.name \in Names /\ host[g.name] = None
             /\ host' = [host EXCEPT ![g.name] = toXML(g)]
             /\ IF g.name \in m_domains
                THEN told' = "failed"
                ELSE told' = "created" /\ m_domains' = m_domains \cup {g.name}
    <3>1. toXML(g) \notin {None, Foreign}
      BY <2>2, toXMLIs, NoneAssumption
    <3>2. Gained = {g.name}
      BY <2>2, <3>1 DEF Gained, HostInv
    <3>3. told' = "created" => page' = 0
      BY <1>3 DEF Define
    <3>4. page # 0
      BY <1>3, PageNumbers
    <3>5. QED
      BY <2>2, <3>2, <3>3, <3>4 DEF ToldNow, Made
  <2>3. QED
    BY <1>3, <2>1, <2>2, DefineHost
<1>4. QED
  BY <1>1, <1>2, <1>3, WhoDefines

\* The user is told "created" exactly when host and table have gained one VM.
THEOREM TellsTruth == WizardSpec => ToldTheTruth
<1>1. WizardInit => HostInv
  BY DEF WizardInit, HostInv, DefinedIsSane, Ours
<1>2. WizardInv /\ HostInv /\ [WizardNext]_wizardVars =>
        LET gained == {n \in Names : host[n] = None /\ host'[n] \notin {None, Foreign}}
            made == page # 0 /\ page' = 0 /\ told' = "created"
        IN  /\ made => \E n \in Names : gained = {n} /\ m_domains' = m_domains \cup gained
                                        /\ n \notin m_domains
            /\ \A n \in gained : made \/ (told' = "failed" /\ n \in m_domains)
  BY TellsNow DEF ToldNow, Gained, Made
<1>3. QED
  BY <1>1, <1>2, WizardInductive, HostStep, PTL DEF WizardSpec, ToldTheTruth
=============================================================================
