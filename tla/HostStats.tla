------------------------------ MODULE HostStats ------------------------------
(***************************************************************************)
(* The Host Details dialogs of one connection                               *)
(* (src/src/ui/dialogs/HostDialog.cpp) and what they have the connection do *)
(* on the thread pool: fetchConnectionInfoAsync() and fetchHostStatsAsync() *)
(* (src/src/libvirt/Connection.cpp).                                        *)
(*                                                                          *)
(* Each dialog asks every two seconds, whether or not the answers to its    *)
(* earlier requests are there, and answers come back in any order.  All of  *)
(* them are for all dialogs, and all share the counters that the CPU usage  *)
(* is computed from.                                                        *)
(*                                                                          *)
(* Time is the host's: at its moment t its processors have spent t units,   *)
(* and idle[t] of them idle.  Left out: memory figures, the counts of VMs   *)
(* and networks and the devices, which a dialog reads at once, and the      *)
(* host's name and version, which come with the capabilities, and stay away *)
(* if their calls fail and that of the capabilities does not.               *)
(*                                                                          *)
(* A definition marked "Slip:" is not the code: it is the form an easy      *)
(* mistake would give to the definition after it, kept to show that the     *)
(* properties tell the two apart.                                           *)
(***************************************************************************)
EXTENDS Integers, Sequences, SequencesExt

CONSTANTS Dialogs,    \* HostDialog objects that may be shown at a time
          Closed,     \* the bar of a dialog that is not shown
          MaxJobs,    \* bound: requests to the host under way at one time
          Width,      \* unsigned long long wraps around at this number
          MaxTime,    \* bound: moments
          MaxFaults   \* bound: calls that fail, links that die

ASSUME BoundsAssumption ==
  /\ MaxJobs \in Nat /\ MaxTime \in Nat \ {0} /\ MaxFaults \in Nat
  /\ Width \in Nat /\ Width > 100 * MaxTime /\ Width \div 2 > 100
ASSUME ClosedAssumption == Closed \notin 0..100

VARIABLES isOpen,  \* of the connection
          cached,  \* m_cachedCapabilities is not empty
          last,    \* m_lastCPUTime, m_lastIdleTime
          jobs,    \* the requests under way, in the order they were made
          bar,     \* m_cpuUsageBar of each dialog
          idle,    \* the host's idle time at each moment so far
          faults   \* budget left
vars == <<isOpen, cached, last, jobs, bar, idle, faults>>

Zero == [total |-> 0, idle |-> 0]
Readings == [total : 0..MaxTime, idle : 0..MaxTime]
Job == [what : {"info"}, got : BOOLEAN, done : BOOLEAN]
       \cup [what : {"stats"}, got : Readings, done : BOOLEAN]

TypeOK ==
  /\ isOpen \in BOOLEAN /\ cached \in BOOLEAN
  /\ last \in Readings
  /\ jobs \in Seq(Job) /\ Len(jobs) <= MaxJobs
  /\ bar \in [Dialogs -> 0..100 \cup {Closed}]
  /\ idle \in Seq(0..MaxTime) /\ Len(idle) \in 1..MaxTime
  /\ faults \in 0..MaxFaults

Shown == {d \in Dialogs : bar[d] # Closed}

-----------------------------------------------------------------------------
(* The dialogs. *)

Stats == [what |-> "stats", got |-> Zero, done |-> FALSE]
Capabilities == [what |-> "info", got |-> FALSE, done |-> FALSE]

\* Slip: the capabilities are not asked for while usage is known.
RequestsOnce == IF cached \/ last # Zero THEN <<Stats>> ELSE <<Capabilities, Stats>>

\* What refresh() asks for: the usage every time, the rest as long as there are
\* no capabilities.
Requests == IF cached THEN <<Stats>> ELSE <<Capabilities, Stats>>

Ask == /\ Len(jobs) + Len(Requests) <= MaxJobs
       /\ jobs' = jobs \o Requests

\* The constructor refreshes; the bar of a new dialog is empty.
OpenDialog(d) ==
  /\ bar[d] = Closed /\ bar' = [bar EXCEPT ![d] = 0]
  /\ IF isOpen THEN Ask ELSE UNCHANGED jobs
  /\ UNCHANGED <<isOpen, cached, last, idle, faults>>

\* m_refreshTimer, or the Refresh button.
refresh(d) ==
  /\ d \in Shown
  /\ IF isOpen THEN Ask /\ UNCHANGED bar
               ELSE bar' = [bar EXCEPT ![d] = 0] /\ UNCHANGED jobs
  /\ UNCHANGED <<isOpen, cached, last, idle, faults>>

CloseDialog(d) ==
  /\ d \in Shown /\ bar' = [bar EXCEPT ![d] = Closed]
  /\ UNCHANGED <<isOpen, cached, last, jobs, idle, faults>>

-----------------------------------------------------------------------------
(* The workers and their finished handlers. *)

Now == [total |-> Len(idle), idle |-> idle[Len(idle)]]

\* What a worker gets from the host, with the failures it used up: nothing on a
\* link that is closed or if the call fails.
Answers(j) ==
  LET nothing == IF jobs[j].what = "info" THEN FALSE ELSE Zero
      all     == IF jobs[j].what = "info" THEN TRUE ELSE Now
  IN  IF isOpen THEN {<<all, 0>>} \cup {<<nothing, 1>>} ELSE {<<nothing, 0>>}

WorkerReads(j) ==
  /\ j \in DOMAIN jobs /\ ~jobs[j].done
  /\ \E a \in Answers(j) :
       /\ a[2] <= faults /\ faults' = faults - a[2]
       /\ jobs' = [jobs EXCEPT ![j].got = a[1], ![j].done = TRUE]
  /\ UNCHANGED <<isOpen, cached, last, bar, idle>>

\* An empty answer empties the cache as well.  onConnectionInfoFetched shows what
\* is cached, which asks for nothing.
ConnectionInfoFetched(j) ==
  /\ j \in DOMAIN jobs /\ jobs[j].done /\ jobs[j].what = "info"
  /\ cached' = jobs[j].got
  /\ jobs' = RemoveAt(jobs, j)
  /\ UNCHANGED <<isOpen, last, bar, idle, faults>>

\* An unsigned number taken for an int, and brought between 0 and 100.
AsInt(u) == IF u >= Width \div 2 THEN u - Width ELSE u
Clamped(i) == IF i < 0 THEN 0 ELSE IF i > 100 THEN 100 ELSE i

Difference(old, new) ==
  LET spent == (new.total - old.total) % Width
      idled == (new.idle - old.idle) % Width
  IN  Clamped(AsInt((100 - ((idled * 100) % Width) \div spent) % Width))

\* Slip: answers are taken to come in the order of their requests.
UsageInOrder(old, new) ==
  IF old.total > 0 /\ new.total # old.total THEN Difference(old, new) ELSE 0

Usage(old, new) ==
  IF old.total > 0 /\ new.total > old.total THEN Difference(old, new) ELSE 0

\* Slip: what was read is added to the counters.
HostStatsAdded(j) ==
  /\ j \in DOMAIN jobs /\ jobs[j].done /\ jobs[j].what = "stats"
  /\ last' = [f \in DOMAIN last |-> last[f] + jobs[j].got[f]]
  /\ bar' = [d \in Dialogs |-> IF d \in Shown THEN Usage(last, jobs[j].got) ELSE Closed]
  /\ jobs' = RemoveAt(jobs, j)
  /\ UNCHANGED <<isOpen, cached, idle, faults>>

HostStatsFetched(j) ==
  /\ j \in DOMAIN jobs /\ jobs[j].done /\ jobs[j].what = "stats"
  /\ last' = jobs[j].got
  /\ bar' = [d \in Dialogs |-> IF d \in Shown THEN Usage(last, jobs[j].got) ELSE Closed]
  /\ jobs' = RemoveAt(jobs, j)
  /\ UNCHANGED <<isOpen, cached, idle, faults>>

-----------------------------------------------------------------------------
(* Around them. *)

\* tick() finds a dead link and closes it.
close ==
  /\ isOpen /\ isOpen' = FALSE
  /\ faults > 0 /\ faults' = faults - 1
  /\ UNCHANGED <<cached, last, jobs, bar, idle>>

\* The host works, or idles, for one unit.
TimePasses ==
  /\ Len(idle) < MaxTime
  /\ \E i \in {0, 1} : idle' = Append(idle, idle[Len(idle)] + i)
  /\ UNCHANGED <<isOpen, cached, last, jobs, bar, faults>>

Init ==
  /\ isOpen = TRUE /\ cached = FALSE /\ last = Zero
  /\ jobs = <<>> /\ bar = [d \in Dialogs |-> Closed]
  /\ idle = <<0>> /\ faults = MaxFaults

JobSteps(j) == WorkerReads(j) \/ ConnectionInfoFetched(j) \/ HostStatsFetched(j)

Next ==
  \/ \E d \in Dialogs : OpenDialog(d) \/ refresh(d) \/ CloseDialog(d)
  \/ \E j \in 1..MaxJobs : JobSteps(j)
  \/ close \/ TimePasses

Spec == Init /\ [][Next]_vars

\* A task of the thread pool runs to its end, its handler is delivered, and the
\* timer of a dialog goes on.
FairSpec ==
  /\ Spec
  /\ \A j \in 1..MaxJobs : WF_vars(JobSteps(j))
  /\ \A d \in Dialogs : WF_vars(refresh(d))

-----------------------------------------------------------------------------
(* Properties. *)

\* Any usage a dialog shows is one the host really had between two moments, in
\* whatever order the answers came, whichever of them were lost, and whoever
\* asked: last is not always what was read just before the present answer.
UsageIsReal ==
  \A d \in Shown : bar[d] # 0 =>
    \E s, t \in DOMAIN idle :
      s < t /\ bar[d] = 100 - (100 * (idle[t] - idle[s])) \div (t - s)

\* If a dialog stays up over an open link, the capabilities come and stay, although
\* each answer overwrites the ones before, a late empty one too.
CapabilitiesCome ==
  <>[](isOpen /\ Shown # {}) => <>[]cached
=============================================================================
