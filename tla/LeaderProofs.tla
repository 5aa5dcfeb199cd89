----------------------------- MODULE LeaderProofs -----------------------------
(***************************************************************************)
(* LeaderElection for any number of replicas and any durations that meet   *)
(* its assumptions: types, no lease that expires under a leader unless an  *)
(* attempt hung, and how long nobody may lead.                             *)
(***************************************************************************)
EXTENDS LeaderElection, TLAPS

(***************************************************************************)
(* Types.  Countdowns and ages stay bounded because Tick waits for a sleep *)
(* that is over and for an attempt that has taken Latency.                 *)
(***************************************************************************)
LEMMA LatencyBelowOld == Latency \in Nat /\ Old \in Nat /\ Latency < Old
  BY DurationsAssumption, LatencyAssumption DEF Old

LEMMA InitType == Init => TypeOK
<1> SUFFICES ASSUME Init PROVE TypeOK
  OBVIOUS
<1>1. \A r \in Replicas : timer[r] = 0 /\ age[r] = 0 /\ step[r] = "sleep"
  BY DEF Init
<1>2. \A r \in Replicas : timer[r] <= Longest(step[r]) /\ age[r] <= Oldest(r)
  BY <1>1, DurationsAssumption, LatencyBelowOld DEF Longest, Oldest
<1>3. /\ step \in [Replicas -> Steps]
      /\ age \in [Replicas -> 0 .. Old]
      /\ timer \in [Replicas -> Nat]
      /\ gap \in [Replicas -> 0 .. FailoverLimit + 1]
      /\ faults \in 0 .. MaxFaults
  BY DurationsAssumption, LatencyBelowOld DEF Init, Steps, Waiting
<1>4. lease \in Lease \cup {NoLease} /\ late \in BOOLEAN /\ stalled \in SUBSET Replicas
  BY DEF Init
<1> QED
  BY <1>2, <1>3, <1>4 DEF TypeOK

\* What any write leaves in the Lease: its writer, and the age of its stamp.
LEMMA WrittenLease ==
  ASSUME TypeOK, NEW r \in Replicas, Write(r)
  PROVE  lease' \in Lease /\ late' \in BOOLEAN
  BY LatencyBelowOld, DurationsAssumption DEF TypeOK, Write, Lease

\* What every end of an attempt, or of a process, leaves.
LEMMA LeaveType ==
  ASSUME TypeOK, NEW r \in Replicas, NEW s \in {"sleep", "lead", "off"},
         Leave(r, s, Longest(s))
  PROVE  /\ step' = [step EXCEPT ![r] = s]
         /\ timer' = [timer EXCEPT ![r] = Longest(s)]
         /\ step' \in [Replicas -> Steps]
         /\ age' \in [Replicas -> 0 .. Old]
         /\ timer' \in [Replicas -> Nat]
         /\ stalled' \in SUBSET Replicas
         /\ \A q \in Replicas : timer'[q] <= Longest(step'[q]) /\ age'[q] <= Oldest(q)'
<1>1. Longest(s) \in Nat
  BY DurationsAssumption DEF Longest
<1>2. /\ step' = [step EXCEPT ![r] = s] /\ timer' = [timer EXCEPT ![r] = Longest(s)]
      /\ age' = [age EXCEPT ![r] = 0] /\ stalled' = stalled \ {r}
  BY DEF Leave, Goto
<1>3. /\ step' \in [Replicas -> Steps]
      /\ age' \in [Replicas -> 0 .. Old]
      /\ timer' \in [Replicas -> Nat]
      /\ stalled' \in SUBSET Replicas
  BY <1>1, <1>2, LatencyBelowOld DEF TypeOK, Steps, Waiting
<1>4. ASSUME NEW q \in Replicas
      PROVE  timer'[q] <= Longest(step'[q]) /\ age'[q] <= Oldest(q)'
  <2>1. CASE q = r
    <3>1. step'[r] = s /\ timer'[r] = Longest(s) /\ age'[r] = 0
      BY <1>2 DEF TypeOK
    <3> QED
      BY <1>1, <2>1, <3>1, LatencyBelowOld DEF Oldest
  <2>2. CASE q # r
    <3>1. step'[q] = step[q] /\ timer'[q] = timer[q] /\ age'[q] = age[q]
          /\ (q \in stalled' <=> q \in stalled)
      BY <1>2, <2>2 DEF TypeOK
    <3>2. timer[q] <= Longest(step[q]) /\ age[q] <= Oldest(q)
      BY DEF TypeOK
    <3> QED
      BY <3>1, <3>2 DEF Oldest
  <2> QED
    BY <2>1, <2>2
<1> QED
  BY <1>2, <1>3, <1>4

LEMMA RetryType ==
  ASSUME TypeOK, NEW r \in Replicas, Retry(r),
         lease' \in Lease \cup {NoLease}, late' \in BOOLEAN, faults' \in 0 .. MaxFaults
  PROVE  TypeOK'
<1>1. Leave(r, "sleep", Longest("sleep"))
  BY DEF Retry, Longest
<1> QED
  BY <1>1, LeaveType DEF TypeOK, Retry

LEMMA LeadType ==
  ASSUME TypeOK, NEW r \in Replicas, Lead(r),
         lease' \in Lease \cup {NoLease}, late' \in BOOLEAN, faults' \in 0 .. MaxFaults
  PROVE  TypeOK'
<1>1. Leave(r, "lead", Longest("lead"))
  BY DEF Lead, Longest
<1> QED
  BY <1>1, LeaveType, DurationsAssumption DEF TypeOK, Lead

LEMMA StopType ==
  ASSUME TypeOK, NEW r \in Replicas, Stop(r),
         lease' \in Lease \cup {NoLease}, late' \in BOOLEAN, faults' \in 0 .. MaxFaults
  PROVE  TypeOK'
<1>1. Leave(r, "off", Longest("off"))
  BY DEF Stop, Longest
<1> QED
  BY <1>1, LeaveType, DurationsAssumption DEF TypeOK, Stop

LEMMA FaultType ==
  ASSUME TypeOK, Fault
  PROVE  faults' \in 0 .. MaxFaults
  BY DurationsAssumption DEF TypeOK, Fault

\* A step with which only r's place changes.
LEMMA GotoType ==
  ASSUME TypeOK, NEW r \in Replicas, NEW s \in Steps, Goto(r, s), timer[r] = 0,
         UNCHANGED <<lease, late, age, timer, stalled, gap, faults>>
  PROVE  TypeOK'
<1>1. \A q \in Replicas : timer[q] <= Longest(step'[q])
  <2>1. Longest(s) \in Nat
    BY DurationsAssumption DEF Longest
  <2> QED
    BY <2>1 DEF Goto, TypeOK
<1> QED
  BY <1>1 DEF Goto, TypeOK, Oldest

LEMMA IdleTimer ==
  ASSUME TypeOK, NEW r \in Replicas, step[r] \notin Waiting
  PROVE  timer[r] = 0
  BY DEF TypeOK, Longest, Waiting

LEMMA ReplicaStepType ==
  ASSUME TypeOK, NEW r \in Replicas, ReplicaStep(r)
  PROVE  TypeOK'
<1>a. /\ lease \in Lease \cup {NoLease} /\ late \in BOOLEAN
      /\ faults \in 0 .. MaxFaults
  BY DEF TypeOK
<1>b. {"off", "sleep", "lead", "get", "create", "acquire"} = Steps
  BY DEF Steps, Waiting, Calling
<1>1. CASE StartAttempt(r)
  <2>1. \A q \in Replicas : age'[q] <= Oldest(q)' /\ timer'[q] <= Longest(step'[q])
    BY <1>1, LatencyBelowOld, DurationsAssumption
       DEF StartAttempt, Goto, TypeOK, Oldest, Longest
  <2> QED
    BY <1>1, <1>b, <2>1, LatencyBelowOld DEF StartAttempt, Goto, TypeOK
<1>2. CASE GetLease(r)
  <2>1. CASE Retry(r)
    BY <1>2, <1>a, <2>1, RetryType DEF GetLease
  <2>2. CASE Call(r, "create") \/ Call(r, "acquire")
    <3>1. timer[r] = 0
      BY <1>2, IdleTimer DEF GetLease, Waiting
    <3> QED
      BY <1>2, <1>b, <2>2, <3>1, GotoType DEF GetLease, Call
  <2> QED
    BY <1>2, <2>1, <2>2 DEF GetLease
<1>3. CASE CreateLease(r)
  BY <1>3, <1>a, WrittenLease, LeadType, RetryType DEF CreateLease
<1>4. CASE AcquireLease(r)
  BY <1>4, <1>a, WrittenLease, LeadType DEF AcquireLease
<1>5. CASE AttemptFails(r)
  BY <1>5, <1>a, WrittenLease, RetryType, FaultType DEF AttemptFails
<1>6. CASE Stall(r)
  <2>1. \A q \in Replicas : age[q] <= Oldest(q)'
    BY <1>6, LatencyBelowOld DEF Stall, Oldest, TypeOK
  <2> QED
    BY <1>6, <2>1, FaultType, DurationsAssumption DEF Stall, TypeOK
<1>7. CASE RenewalRefused(r)
  BY <1>7, <1>a, StopType DEF RenewalRefused
<1>8. CASE Crash(r)
  BY <1>8, <1>a, StopType, FaultType DEF Crash
<1>9. CASE Restart(r)
  BY <1>9, <1>b, IdleTimer, GotoType DEF Restart, Waiting
<1> QED
  BY <1>1, <1>2, <1>3, <1>4, <1>5, <1>6, <1>7, <1>8, <1>9 DEF ReplicaStep

LEMMA TickType ==
  ASSUME TypeOK, Tick
  PROVE  TypeOK'
<1> USE DurationsAssumption, LatencyBelowOld
<1>1. lease' \in Lease \cup {NoLease}
  BY DEF Lease, Old, TypeOK, Tick
<1>2. timer' \in [Replicas -> Nat]
  BY DEF TypeOK, Tick
<1>3. age' \in [Replicas -> 0 .. Old]
  BY DEF TypeOK, Tick
<1>4. gap' \in [Replicas -> 0 .. FailoverLimit + 1]
  BY DEF TypeOK, Tick
<1>5. ASSUME NEW r \in Replicas
      PROVE  timer'[r] <= Longest(step'[r]) /\ age'[r] <= Oldest(r)'
  <2>1. /\ timer[r] \in Nat /\ timer[r] <= Longest(step[r])
        /\ age[r] \in 0 .. Old /\ age[r] <= Oldest(r)
    BY DEF TypeOK
  <2>2. step' = step /\ stalled' = stalled /\ Longest(step[r]) \in Nat
    BY DEF Tick, Longest
  <2>3. timer'[r] <= Longest(step[r])
    BY <2>1, <2>2 DEF Tick
  <2>4. age'[r] <= Oldest(r)
    BY <2>1 DEF Tick, Oldest
  <2> QED
    BY <2>2, <2>3, <2>4 DEF Oldest
<1> QED
  BY <1>1, <1>2, <1>3, <1>4, <1>5 DEF TypeOK, Tick

(* Every variable of the election keeps its type; a retry is at most the   *)
(* retry interval away, a renewal at most the renew interval, and a        *)
(* timestamp is older than Latency only in an attempt that hangs.          *)
THEOREM ElectionTypes == Spec => []TypeOK
<1>1. TypeOK /\ [Next]_vars => TypeOK'
  <2>1. TypeOK /\ UNCHANGED vars => TypeOK'
    BY DEF TypeOK, Oldest, vars
  <2> QED
    BY <2>1, ReplicaStepType, TickType DEF Next
<1> QED
  BY <1>1, InitType, PTL DEF Spec

-----------------------------------------------------------------------------
(***************************************************************************)
(* No lease expires under a leader: unless the last write came from an     *)
(* attempt that had hung, the age of its stamp and what a leader has left  *)
(* are bounded together by the time it leads and one attempt.              *)
(***************************************************************************)
Covers(q) ==
    step[q] = "lead" => lease # NoLease /\ lease.age + timer[q] <= RenewInterval + Latency

Fresh == \A q \in Replicas : IsLeader(q) => lease # NoLease /\ (~late => Covers(q))

LEMMA LeaseFields ==
  ASSUME TypeOK, lease # NoLease
  PROVE  lease \in Lease /\ lease.holder \in Replicas /\ lease.age \in Nat
  BY DurationsAssumption DEF TypeOK, Lease, Old

\* What a second does to the Lease.
LEMMA TickLease ==
  ASSUME TypeOK, Tick
  PROVE  /\ lease' # NoLease <=> lease # NoLease
         /\ lease # NoLease =>
              /\ lease'.holder = lease.holder
              /\ lease'.age = IF lease.age = Old THEN Old ELSE lease.age + 1
<1>1. CASE lease = NoLease
  BY <1>1 DEF Tick
<1>2. CASE lease # NoLease
  <2>1. lease \in Lease /\ lease.age \in Nat
    BY <1>2, LeaseFields
  <2>2. CASE lease' = [lease EXCEPT !.age = @ + 1] /\ lease.age # Old
    <3>1. /\ lease' \in [holder : Replicas, age : Nat]
          /\ lease'.holder = lease.holder /\ lease'.age = lease.age + 1
      BY <2>1, <2>2 DEF Lease
    <3> QED
      BY <1>2, <2>2, <3>1, NoLeaseAssumption
  <2> QED
    BY <1>2, <2>2 DEF Tick
<1> QED
  BY <1>1, <1>2

LEMMA LeaseIsThere ==
  ASSUME TypeOK, NEW r \in Replicas, Write(r)
  PROVE  /\ lease' # NoLease /\ lease'.holder = r /\ lease'.age = age[r]
         /\ ~late' => age[r] <= Latency
<1>1. lease' \in Lease
  BY WrittenLease
<1>2. Lease \subseteq [holder : Replicas, age : Nat]
  BY LatencyBelowOld DEF Lease
<1>3. ~late' => ~(age[r] > Latency)
  <2>1. late' = (age[r] > Latency)
    BY DEF Write
  <2> QED
    BY <2>1, Zenon
<1>4. age[r] \in Nat
  BY LatencyBelowOld DEF TypeOK
<1>5. lease' # NoLease /\ lease'.holder = r /\ lease'.age = age[r]
  BY <1>1, <1>2, NoLeaseAssumption DEF Write
<1> QED
  BY <1>3, <1>4, <1>5, LatencyBelowOld

LEMMA NotExpired ==
  ASSUME TypeOK, Fresh, ~late, NEW q \in Replicas, IsLeader(q)
  PROVE  lease # NoLease /\ ~expired
<1>1. lease # NoLease /\ timer[q] \in Nat /\ lease.age + timer[q] <= RenewInterval + Latency
  BY DEF TypeOK, Fresh, Covers, IsLeader
<1>2. lease.age \in Nat
  BY <1>1, LeaseFields
<1> QED
  BY <1>1, <1>2, LatencyAssumption, DurationsAssumption DEF expired

\* A leader that a step of another leaves where it was stays covered.
LEMMA OthersKeepFresh ==
  ASSUME TypeOK, Fresh, NEW r \in Replicas,
         UNCHANGED <<lease, late>> \/ Write(r),
         NEW q \in Replicas, step'[q] = step[q], timer'[q] = timer[q], IsLeader(q)
  PROVE  lease' # NoLease /\ (~late' => Covers(q)')
<1>1. CASE UNCHANGED <<lease, late>>
  BY <1>1 DEF Fresh, Covers, IsLeader
<1>2. CASE Write(r)
  <2>1. /\ lease' # NoLease /\ lease'.age \in Nat
        /\ ~late' => lease'.age <= Latency
    BY <1>2, LeaseIsThere, LatencyBelowOld DEF TypeOK
  <2>2. timer[q] \in Nat /\ timer[q] <= RenewInterval
    BY DEF TypeOK, Longest, IsLeader
  <2> QED
    BY <2>1, <2>2, DurationsAssumption DEF Covers
<1> QED
  BY <1>1, <1>2

\* A step of r after which r does not lead.
LEMMA FollowerKeepsFresh ==
  ASSUME TypeOK, Fresh, NEW r \in Replicas,
         UNCHANGED <<lease, late>> \/ Write(r),
         \A q \in Replicas \ {r} : step'[q] = step[q] /\ timer'[q] = timer[q],
         step'[r] # "lead"
  PROVE  Fresh'
<1> SUFFICES ASSUME NEW q \in Replicas, IsLeader(q)'
             PROVE  lease' # NoLease /\ (~late' => Covers(q)')
  BY DEF Fresh
<1>1. q # r
  BY DEF IsLeader
<1> QED
  BY <1>1, OthersKeepFresh DEF IsLeader

\* A write that makes r lead.
LEMMA LeadKeepsFresh ==
  ASSUME TypeOK, Fresh, NEW r \in Replicas, Lead(r), Write(r)
  PROVE  Fresh'
<1> SUFFICES ASSUME NEW q \in Replicas, IsLeader(q)'
             PROVE  lease' # NoLease /\ (~late' => Covers(q)')
  BY DEF Fresh
<1>1. step' = [step EXCEPT ![r] = "lead"] /\ timer' = [timer EXCEPT ![r] = RenewInterval]
  BY DEF Lead, Leave, Goto
<1>2. CASE q = r
  <2>1. timer'[r] = RenewInterval
    BY <1>1 DEF TypeOK
  <2>2. /\ lease' # NoLease /\ lease'.age \in Nat
        /\ ~late' => lease'.age <= Latency
    BY LeaseIsThere, LatencyBelowOld DEF TypeOK
  <2> QED
    BY <1>2, <2>1, <2>2, DurationsAssumption DEF Covers
<1>3. CASE q # r
  BY <1>1, <1>3, OthersKeepFresh DEF IsLeader, TypeOK
<1> QED
  BY <1>2, <1>3

LEMMA ReplicaStepKeepsFresh ==
  ASSUME TypeOK, Fresh, NEW r \in Replicas, ReplicaStep(r)
  PROVE  Fresh'
<1>1. CASE StartAttempt(r)
  BY <1>1, FollowerKeepsFresh DEF StartAttempt, Goto, TypeOK
<1>2. CASE GetLease(r)
  BY <1>2, FollowerKeepsFresh DEF GetLease, Call, Retry, Leave, Goto, TypeOK
<1>3. CASE CreateLease(r)
  <2>1. CASE Lead(r) /\ Write(r)
    BY <2>1, LeadKeepsFresh
  <2>2. CASE Retry(r) /\ UNCHANGED <<lease, late>>
    BY <2>2, FollowerKeepsFresh DEF Retry, Leave, Goto, TypeOK
  <2> QED
    BY <1>3, <2>1, <2>2 DEF CreateLease
<1>4. CASE AcquireLease(r)
  BY <1>4, LeadKeepsFresh DEF AcquireLease
<1>5. CASE AttemptFails(r)
  BY <1>5, FollowerKeepsFresh DEF AttemptFails, Retry, Leave, Goto, TypeOK
<1>6. CASE Stall(r)
  BY <1>6, FollowerKeepsFresh DEF Stall, Calling
<1>7. CASE RenewalRefused(r) \/ Crash(r)
  BY <1>7, FollowerKeepsFresh DEF RenewalRefused, Crash, Stop, Leave, Goto, TypeOK
<1>8. CASE Restart(r)
  BY <1>8, FollowerKeepsFresh DEF Restart, Goto, TypeOK
<1> QED
  BY <1>1, <1>2, <1>3, <1>4, <1>5, <1>6, <1>7, <1>8 DEF ReplicaStep

\* A second makes the lease older and what the leader has left shorter.
LEMMA TickKeepsFresh ==
  ASSUME TypeOK, Fresh, Tick
  PROVE  Fresh'
<1> SUFFICES ASSUME NEW q \in Replicas, IsLeader(q)
             PROVE  lease' # NoLease /\ (~late' => Covers(q)')
  BY DEF Fresh, IsLeader, Tick
<1>1. lease # NoLease /\ lease.age \in Nat
  BY LeaseFields DEF Fresh
<1>2. lease' # NoLease /\ lease'.age \in Nat /\ lease'.age <= lease.age + 1
  BY <1>1, TickLease, LatencyBelowOld
<1>3. timer[q] \in Nat \ {0} /\ timer'[q] = timer[q] - 1 /\ step' = step /\ late' = late
  BY DEF Tick, TypeOK, Waiting, IsLeader
<1> QED
  BY <1>1, <1>2, <1>3, DurationsAssumption DEF Fresh, Covers, IsLeader

LEMMA FreshHolds == Spec => []Fresh
<1>1. Init => Fresh
  BY DEF Init, Fresh, IsLeader
<1>2. TypeOK /\ Fresh /\ [Next]_vars => Fresh'
  <2>1. Fresh /\ UNCHANGED vars => Fresh'
    BY DEF Fresh, Covers, IsLeader, vars
  <2> QED
    BY <2>1, ReplicaStepKeepsFresh, TickKeepsFresh DEF Next
<1> QED
  BY <1>1, <1>2, ElectionTypes, PTL DEF Spec

(* At the moment at which a replica reads the lease of another as expired  *)
(* nobody leads, for any number of replicas, crashes, failed writes and    *)
(* takeovers, unless an attempt that had hung wrote that lease.            *)
THEOREM NoTakeover == Spec => NoTakeoverFromLeader
<1>1. ASSUME TypeOK, Fresh, [Next]_vars,
             NEW r \in Replicas, step[r] = "get", step'[r] = "acquire", ~we_hold(r), ~late,
             NEW q \in Replicas
      PROVE  ~IsLeader(q)
  <2>1. PICK p \in Replicas : ReplicaStep(p)
    BY <1>1 DEF Next, Tick, vars
  <2>2. GetLease(r)
    BY <1>1, <2>1 DEF TypeOK, ReplicaStep, StartAttempt, GetLease, CreateLease, AcquireLease,
         AttemptFails, Stall, RenewalRefused, Crash, Restart, Call, Retry, Lead,
         Stop, Leave, Goto
  <2>3. lease # NoLease => expired
    BY <1>1, <2>2 DEF GetLease, Call, Retry, Leave, Goto, TypeOK
  <2> QED
    BY <1>1, <2>3, NotExpired
<1>2. TypeOK /\ Fresh /\ [Next]_vars =>
        [\A r \in Replicas :
           step[r] = "get" /\ step'[r] = "acquire" /\ ~we_hold(r) =>
              late \/ \A q \in Replicas : ~IsLeader(q)]_vars
  BY <1>1
<1> QED
  BY <1>2, ElectionTypes, FreshHolds, PTL DEF Spec, NoTakeoverFromLeader

-----------------------------------------------------------------------------
(***************************************************************************)
(* How long nobody leads.  Every fault may undo the attempt that was about *)
(* to succeed.  If it leaves a Lease that is still valid, the replicas     *)
(* wait until that expires and then for one attempt; the fault that writes *)
(* such a Lease and the fault that ends the attempt after it come in turn, *)
(* so the second of each pair costs a lease duration.  The exit of a       *)
(* leader at its first renewal, which needs no fault, is like the first.   *)
(***************************************************************************)
Spent == MaxFaults - faults + 1

(* From now to the end of an attempt of one's own: a create that another   *)
(* was faster than, the sleep after it and the attempt after that.         *)
Attempt == RetryInterval + 2 * Latency

Outage == Old + Attempt              \* from a write to the end of the attempt after it expired

\* Seconds without a leader after n faults.
Within(n) == ((n + 1) \div 2) * Outage + (IF n % 2 = 0 THEN Attempt ELSE 0)

NoLeader == \A q \in Replicas : ~IsLeader(q)

Valid == lease # NoLease /\ ~expired

\* FailoverInTime says nothing of a replica that is down or whose attempt hangs.
Exempt(q) == step[q] = "off" \/ q \in stalled

\* An attempt of h, at the latest its next one, succeeds unless something fails.
Due(h) ==
    /\ h \notin stalled
    /\ \/ step[h] = "acquire"
       \/ lease = NoLease /\ step[h] \in {"sleep", "get", "create"}
       \/ lease # NoLease /\ (we_hold(h) \/ expired) /\ step[h] \in {"sleep", "get", "create"}

Ahead(h) ==
    CASE step[h] = "sleep" -> timer[h] + Latency
      [] step[h] = "create" /\ lease # NoLease -> Attempt - age[h]
      [] OTHER -> Latency - age[h]

AfterExpiry == Old - lease.age + Attempt

\* Without further faults some attempt ends q's wait in time, ...
Near(q) ==
    \/ \E h \in Replicas : Due(h) /\ gap[q] + Ahead(h) <= Within(Spent)
    \/ Valid /\ gap[q] + AfterExpiry <= Within(Spent)

\* ... and after one more the Lease does so by expiring.
Far(q) == Valid => gap[q] + AfterExpiry <= Within(Spent + 1)

Bridged(q) ==
    /\ ~NoLeader \/ Exempt(q) => gap[q] = 0
    /\ NoLeader /\ ~Exempt(q) => Near(q) /\ Far(q)

Bounded == \A q \in Replicas : Bridged(q)

LEMMA Products ==
  ASSUME NEW a \in Nat, NEW c \in Nat
  PROVE  a * c \in Nat /\ (a + 1) * c = a * c + c
  OBVIOUS

LEMMA Outages ==
  /\ Old \in Nat /\ Attempt \in Nat /\ Outage \in Nat
  /\ Outage = Old + Attempt /\ Attempt = RetryInterval + 2 * Latency
  BY DurationsAssumption DEF Old, Attempt, Outage

\* What Within(n) gains with one fault, and with two.
LEMMA WithinGrows ==
  ASSUME RetryInterval + 2 * Latency <= LeaseDuration + 1, NEW n \in Nat
  PROVE  /\ Within(n) \in Nat
         /\ Within(n + 1) \in Nat
         /\ Within(n) >= Attempt
         /\ Within(n + 1) >= Within(n) + Attempt
         /\ Within(n + 2) = Within(n) + Outage
         /\ Within(n + 1) >= Outage
<1> DEFINE k == (n + 1) \div 2
<1>1. /\ k \in Nat
      /\ (n + 2 + 1) \div 2 = k + 1
      /\ (n + 2) % 2 = n % 2
  OBVIOUS
<1>2. \/ /\ n % 2 = 0 /\ (n + 1) % 2 # 0 /\ (n + 1 + 1) \div 2 = k + 1
      \/ /\ n % 2 # 0 /\ (n + 1) % 2 = 0 /\ (n + 1 + 1) \div 2 = k /\ k # 0
  OBVIOUS
<1>3. Attempt <= Old
  BY Outages DEF Old
<1> DEFINE kC == k * Outage
           kC1 == (k + 1) * Outage
<1>4. kC \in Nat /\ kC1 = kC + Outage /\ kC1 \in Nat
  BY <1>1, Outages, Products
<1>5. k # 0 => kC >= Outage
  <2> SUFFICES ASSUME k # 0 PROVE kC >= Outage
    OBVIOUS
  <2>1. k - 1 \in Nat /\ (k - 1) + 1 = k
    BY <1>1
  <2> HIDE DEF k
  <2>2. (k - 1) * Outage \in Nat /\ ((k - 1) + 1) * Outage = (k - 1) * Outage + Outage
    BY <2>1, Outages, Products
  <2> QED
    BY <2>1, <2>2, Outages
<1>6. /\ Within(n) = kC + (IF n % 2 = 0 THEN Attempt ELSE 0)
      /\ Within(n + 2) = kC1 + (IF n % 2 = 0 THEN Attempt ELSE 0)
  BY <1>1 DEF Within
<1>7. Within(n + 1) = IF n % 2 = 0 THEN kC1 ELSE kC + Attempt
  <2>1. CASE n % 2 = 0
    <3>1. Within(n + 1) = kC1 + 0
      BY <1>2, <2>1 DEF Within
    <3> QED
      BY <1>4, <2>1, <3>1
  <2>2. CASE n % 2 # 0
    BY <1>2, <2>2 DEF Within
  <2> QED
    BY <2>1, <2>2
<1> HIDE DEF k, kC, kC1
<1>8. n % 2 # 0 => k # 0
  BY <1>2
<1> QED
  BY <1>3, <1>4, <1>5, <1>6, <1>7, <1>8, Outages

LEMMA Distributes ==
  ASSUME NEW a \in Nat, NEW b \in Nat, NEW c \in Nat
  PROVE  b * c \in Nat /\ (a + b) * c = a * c + b * c
  OBVIOUS

LEMMA WithinMonotone ==
  ASSUME RetryInterval + 2 * Latency <= LeaseDuration + 1,
         NEW m \in Nat, NEW n \in Nat, m <= n
  PROVE  Within(m) <= Within(n)
<1> DEFINE k == (m + 1) \div 2
           d == ((n + 1) \div 2) - k
<1>1. k \in Nat /\ d \in Nat /\ k + d = (n + 1) \div 2
  OBVIOUS
<1>2. d = 0 => m % 2 # 0 \/ m = n
  OBVIOUS
<1>3. Within(n) = (k + d) * Outage + (IF n % 2 = 0 THEN Attempt ELSE 0)
  BY <1>1 DEF Within
<1>4. Within(m) = k * Outage + (IF m % 2 = 0 THEN Attempt ELSE 0)
  BY DEF Within
<1> HIDE DEF k, d
<1>5. /\ k * Outage \in Nat
      /\ d * Outage \in Nat
      /\ (k + d) * Outage = k * Outage + d * Outage
  BY <1>1, Outages, Products, Distributes
<1>6. d # 0 => d * Outage >= Outage
  <2> SUFFICES ASSUME d # 0 PROVE d * Outage >= Outage
    OBVIOUS
  <2>1. d - 1 \in Nat /\ (d - 1) + 1 = d
    BY <1>1
  <2>2. (d - 1) * Outage \in Nat /\ ((d - 1) + 1) * Outage = (d - 1) * Outage + Outage
    BY <2>1, Outages, Products
  <2> QED
    BY <2>1, <2>2, Outages
<1> DEFINE kC == k * Outage
           dC == d * Outage
<1>7. /\ kC \in Nat /\ dC \in Nat /\ (d # 0 => dC >= Outage)
      /\ Within(n) = kC + dC + (IF n % 2 = 0 THEN Attempt ELSE 0)
      /\ Within(m) = kC + (IF m % 2 = 0 THEN Attempt ELSE 0)
  BY <1>3, <1>4, <1>5, <1>6
<1> HIDE DEF kC, dC
<1>8. CASE d = 0 /\ m = n
  BY <1>7, <1>8, Outages
<1>9. CASE d = 0 /\ m % 2 # 0
  BY <1>7, <1>9, Outages
<1>10. CASE d # 0
  BY <1>7, <1>10, Outages
<1> QED
  BY <1>2, <1>8, <1>9, <1>10

LEMMA SpentType ==
  ASSUME TypeOK
  PROVE  Spent \in Nat \ {0} /\ Spent <= MaxFaults + 1
  BY DurationsAssumption DEF TypeOK, Spent

LEMMA FaultSpends ==
  ASSUME TypeOK, Fault
  PROVE  Spent' = Spent + 1
  BY DurationsAssumption DEF TypeOK, Spent, Fault

\* The bounds that TypeOK gives for one replica.
LEMMA Countdown ==
  ASSUME TypeOK, NEW h \in Replicas
  PROVE  /\ age[h] \in Nat /\ (h \notin stalled => age[h] <= Latency)
         /\ timer[h] \in Nat /\ (step[h] = "sleep" => timer[h] <= RetryInterval)
  BY LatencyBelowOld DEF TypeOK, Longest, Oldest

AheadBounds ==
  TypeOK => \A h \in Replicas \ stalled : Ahead(h) \in Nat /\ Ahead(h) <= Attempt

LEMMA AheadType == AheadBounds
<1> SUFFICES ASSUME TypeOK, NEW h \in Replicas, h \notin stalled
             PROVE  Ahead(h) \in Nat /\ Ahead(h) <= Attempt
  BY DEF AheadBounds
<1>1. /\ age[h] \in Nat /\ age[h] <= Latency
      /\ timer[h] \in Nat /\ (step[h] = "sleep" => timer[h] <= RetryInterval)
  BY Countdown
<1>2. /\ Attempt \in Nat /\ Attempt = RetryInterval + 2 * Latency
      /\ RetryInterval \in Nat /\ Latency \in Nat
  BY Outages, DurationsAssumption
<1> QED
  BY <1>1, <1>2 DEF Ahead

LEMMA AheadTypeAfter == AheadBounds'
  BY AheadType, PTL

LEMMA AfterExpiryType ==
  ASSUME TypeOK, lease # NoLease
  PROVE  AfterExpiry \in Nat /\ AfterExpiry <= Outage
<1>1. lease.age \in 0 .. Old
  BY DEF TypeOK, Lease
<1> QED
  BY <1>1, Outages DEF AfterExpiry

\* No replica has waited longer than the faults so far account for.
LEMMA GapBound ==
  ASSUME RetryInterval + 2 * Latency <= LeaseDuration + 1, TypeOK, Bounded, NEW q \in Replicas
  PROVE  gap[q] <= Within(Spent)
<1>1. Spent \in Nat /\ Within(Spent) \in Nat /\ gap[q] \in Nat
  BY SpentType, WithinGrows, DurationsAssumption DEF TypeOK
<1>2. CASE gap[q] = 0
  BY <1>1, <1>2
<1>3. CASE Near(q)
  <2>1. CASE Valid /\ gap[q] + AfterExpiry <= Within(Spent)
    BY <1>1, <2>1, AfterExpiryType DEF Valid
  <2>2. ASSUME NEW h \in Replicas, Due(h), gap[q] + Ahead(h) <= Within(Spent)
        PROVE  gap[q] <= Within(Spent)
    BY <1>1, <2>2, AheadType DEF Due, AheadBounds
  <2> QED
    BY <1>3, <2>1, <2>2 DEF Near
<1> QED
  BY <1>2, <1>3 DEF Bounded, Bridged

-----------------------------------------------------------------------------
\* With no valid Lease about, every replica that is not exempt has its attempt due.
OwnAttemptDue ==
  TypeOK /\ NoLeader /\ ~Valid =>
    \A q \in Replicas : ~Exempt(q) => Due(q) /\ Ahead(q) \in Nat /\ Ahead(q) <= Attempt

LEMMA OwnAttempt == OwnAttemptDue
<1> SUFFICES ASSUME TypeOK, NEW q \in Replicas, NoLeader, ~Exempt(q), ~Valid
             PROVE  Due(q) /\ Ahead(q) \in Nat /\ Ahead(q) <= Attempt
  BY DEF OwnAttemptDue
<1>1. step[q] \in {"sleep", "get", "create", "acquire"} /\ q \notin stalled
  BY DEF TypeOK, Steps, Waiting, Calling, NoLeader, IsLeader, Exempt
<1>2. Due(q)
  BY <1>1 DEF Due, Valid
<1> QED
  BY <1>1, <1>2, AheadType DEF AheadBounds

LEMMA OwnAttemptAfter == OwnAttemptDue'
  BY OwnAttempt, PTL

\* A replica that has not waited at all has the time of a whole outage.
NoWaitSuffices ==
  RetryInterval + 2 * Latency <= LeaseDuration + 1 /\ TypeOK /\ NoLeader =>
    \A q \in Replicas : gap[q] = 0 /\ ~Exempt(q) => Near(q) /\ Far(q)

LEMMA NoWait == NoWaitSuffices
<1> SUFFICES ASSUME RetryInterval + 2 * Latency <= LeaseDuration + 1, TypeOK,
                    NEW q \in Replicas, gap[q] = 0, NoLeader, ~Exempt(q)
             PROVE  Near(q) /\ Far(q)
  BY DEF NoWaitSuffices
<1>1. /\ Spent - 1 \in Nat /\ Spent - 1 + 1 = Spent /\ Spent \in Nat
  BY SpentType
<1>2. /\ Within(Spent) \in Nat /\ Within(Spent + 1) \in Nat
      /\ Within(Spent) >= Outage /\ Within(Spent + 1) >= Outage
  <2>1. Within(Spent - 1 + 1) >= Outage
    BY <1>1, WithinGrows
  <2> QED
    BY <1>1, <2>1, WithinGrows
<1>3. Valid => gap[q] + AfterExpiry \in Nat /\ gap[q] + AfterExpiry <= Outage
  BY AfterExpiryType DEF Valid
<1>4. Far(q)
  BY <1>2, <1>3, Outages DEF Far
<1>5. CASE Valid
  BY <1>2, <1>3, <1>4, <1>5, Outages DEF Near
<1>6. CASE ~Valid
  <2>1. Due(q) /\ Ahead(q) \in Nat /\ Ahead(q) <= Attempt
    BY <1>6, OwnAttempt DEF OwnAttemptDue
  <2>2. gap[q] + Ahead(q) <= Within(Spent)
    BY <1>2, <2>1, Outages
  <2> QED
    BY <1>4, <2>1, <2>2 DEF Near
<1> QED
  BY <1>5, <1>6

LEMMA NoWaitAfter == NoWaitSuffices'
  BY NoWait, PTL

(* Once a fault has happened: it is enough that q had not waited too long  *)
(* before it, and that an attempt is due or the Lease expires in time.     *)
LEMMA FaultBridges ==
  ASSUME RetryInterval + 2 * Latency <= LeaseDuration + 1,
         TypeOK, TypeOK', Spent' = Spent + 1,
         NEW q \in Replicas, gap'[q] <= Within(Spent),
         \/ \E h \in Replicas : Due(h)' /\ Ahead(h)' <= Attempt
         \/ Valid' /\ gap'[q] + AfterExpiry' <= Within(Spent + 1)
  PROVE  Near(q)' /\ Far(q)'
<1>1. /\ Spent \in Nat /\ gap'[q] \in Nat
      /\ Within(Spent) \in Nat /\ Within(Spent + 1) \in Nat
      /\ Within(Spent + 1) >= Within(Spent) + Attempt
      /\ Within(Spent + 2) = Within(Spent) + Outage
  BY SpentType, WithinGrows, DurationsAssumption DEF TypeOK
<1>2. Within(Spent)' = Within(Spent + 1) /\ Within(Spent + 1)' = Within(Spent + 2)
  BY <1>1 DEF Within
<1>3. Near(q)'
  <2>1. ASSUME NEW h \in Replicas, Due(h)', Ahead(h)' <= Attempt
        PROVE  Near(q)'
    <3>1. Ahead(h)' \in Nat
      BY <2>1, AheadTypeAfter DEF AheadBounds, Due
    <3>2. gap'[q] + Ahead(h)' <= Within(Spent + 1)
      BY <1>1, <2>1, <3>1, Outages
    <3> QED
      BY <1>2, <2>1, <3>2 DEF Near
  <2> QED
    BY <1>2, <2>1 DEF Near
<1>4. Far(q)'
  <2> SUFFICES ASSUME Valid' PROVE gap'[q] + AfterExpiry' <= Within(Spent + 2)
    BY <1>2 DEF Far
  <2>1. lease'.age \in 0 .. Old
    BY DEF TypeOK, Lease, Valid
  <2>2. AfterExpiry' \in Nat /\ AfterExpiry' <= Outage
    BY <2>1, Outages DEF AfterExpiry
  <2> QED
    BY <1>1, <2>2, Outages
<1> QED
  BY <1>3, <1>4

(* A step that fails nothing and leads nobody: attempts that are due stay  *)
(* due, and not later; it may end the exemption of a replica.              *)
LEMMA QuietStep ==
  ASSUME RetryInterval + 2 * Latency <= LeaseDuration + 1,
         TypeOK, TypeOK', Bounded, NEW q \in Replicas,
         UNCHANGED <<lease, gap, faults>>, NoLeader' <=> NoLeader,
         \A h \in Replicas : Due(h) => Due(h)' /\ Ahead(h)' <= Ahead(h),
         Exempt(q)' => Exempt(q)
  PROVE  Bridged(q)'
<1>1. Bridged(q)
  BY DEF Bounded
<1>2. CASE ~NoLeader \/ Exempt(q)
  <2>1. gap'[q] = 0
    BY <1>1, <1>2 DEF Bridged
  <2> QED
    BY <2>1, NoWaitAfter DEF Bridged, NoWaitSuffices
<1>3. CASE NoLeader /\ ~Exempt(q)
  <2>1. Near(q) /\ Far(q)
    BY <1>1, <1>3 DEF Bridged
  <2>2. Within(Spent)' = Within(Spent) /\ Within(Spent + 1)' = Within(Spent + 1)
    BY DEF Within, Spent
  <2>3. Far(q)'
    BY <2>1, <2>2 DEF Far, Valid, expired, AfterExpiry
  <2>4. ASSUME NEW h \in Replicas, Due(h), gap[q] + Ahead(h) <= Within(Spent)
        PROVE  Near(q)'
    <3>1. Due(h)' /\ Ahead(h)' <= Ahead(h)
      BY <2>4
    <3>2. Ahead(h) \in Nat /\ Ahead(h)' \in Nat
      BY <2>4, <3>1, AheadType, AheadTypeAfter DEF Due, AheadBounds
    <3>3. gap[q] \in Nat /\ Within(Spent) \in Nat
      BY SpentType, WithinGrows, DurationsAssumption DEF TypeOK
    <3>4. gap'[q] + Ahead(h)' <= Within(Spent)
      BY <2>4, <3>1, <3>2, <3>3
    <3> QED
      BY <2>2, <3>1, <3>4 DEF Near
  <2>5. Valid /\ gap[q] + AfterExpiry <= Within(Spent) => Near(q)'
    BY <2>2 DEF Near, Valid, expired, AfterExpiry
  <2>6. Near(q)'
    BY <2>1, <2>4, <2>5 DEF Near
  <2> QED
    BY <1>3, <2>3, <2>6 DEF Bridged
<1> QED
  BY <1>2, <1>3

\* A fault that leaves the Lease alone costs q the attempt that was due.
LEMMA FaultKeepsBridged ==
  ASSUME RetryInterval + 2 * Latency <= LeaseDuration + 1,
         TypeOK, TypeOK', Bounded, Spent' = Spent + 1,
         NEW q \in Replicas, gap'[q] = gap[q], UNCHANGED lease,
         NoLeader, ~Exempt(q), NoLeader', ~Exempt(q)'
  PROVE  Near(q)' /\ Far(q)'
<1>1. gap'[q] <= Within(Spent)
  BY GapBound
<1>2. CASE Valid'
  <2>1. Far(q) /\ Valid /\ AfterExpiry' = AfterExpiry
    BY <1>2 DEF Bounded, Bridged, Valid, expired, AfterExpiry
  <2>2. gap'[q] + AfterExpiry' <= Within(Spent + 1)
    BY <2>1 DEF Far
  <2> QED
    BY <1>1, <1>2, <2>2, FaultBridges
<1>3. CASE ~Valid'
  BY <1>1, <1>3, OwnAttemptAfter, FaultBridges DEF OwnAttemptDue
<1> QED
  BY <1>2, <1>3

\* A step of r that is none of a leader leads nobody, and no leader stops.
LEMMA SameLeaders ==
  ASSUME TypeOK, NEW r \in Replicas, NEW s, Goto(r, s),
         IsLeader(r) <=> s = "lead"
  PROVE  NoLeader' <=> NoLeader
  BY DEF TypeOK, NoLeader, IsLeader, Goto

\* From the moment somebody leads nobody is without a leader.
LEMMA LeadBridges ==
  ASSUME TypeOK, NEW r \in Replicas, Lead(r), NEW q \in Replicas
  PROVE  Bridged(q)'
<1>1. gap'[q] = 0 /\ ~NoLeader'
  BY DEF TypeOK, Lead, Leave, Goto, NoLeader, IsLeader
<1> QED
  BY <1>1 DEF Bridged

LEMMA ReplicaStepBridged ==
  ASSUME RetryInterval + 2 * Latency <= LeaseDuration + 1,
         TypeOK, TypeOK', Bounded, NEW r \in Replicas, ReplicaStep(r), NEW q \in Replicas
  PROVE  Bridged(q)'
<1>1. Bridged(q)
  BY DEF Bounded
<1>2. \A h \in Replicas : /\ age[h] \in Nat /\ (h \notin stalled => age[h] <= Latency)
                          /\ timer[h] \in Nat
  BY Countdown
<1>3. /\ Attempt = RetryInterval + 2 * Latency
      /\ RetryInterval \in Nat /\ Latency \in Nat
  BY Outages, DurationsAssumption
<1>4. CASE StartAttempt(r)
  <2>1. NoLeader' <=> NoLeader
    BY <1>4, SameLeaders DEF StartAttempt, IsLeader
  <2>2. \A h \in Replicas : Due(h) => Due(h)' /\ Ahead(h)' <= Ahead(h)
    BY <1>2, <1>3, <1>4 DEF StartAttempt, Goto, TypeOK, Due, we_hold, expired, Ahead
  <2>3. Exempt(q)' => Exempt(q)
    BY <1>4 DEF StartAttempt, Goto, TypeOK, Exempt
  <2> QED
    BY <1>4, <2>1, <2>2, <2>3, QuietStep DEF StartAttempt
<1>5. CASE GetLease(r)
  <2>1. NoLeader' <=> NoLeader
    BY <1>5, SameLeaders DEF GetLease, Call, Retry, Leave, IsLeader
  <2>2. \A h \in Replicas : Due(h) => Due(h)' /\ Ahead(h)' <= Ahead(h)
    BY <1>2, <1>3, <1>5
       DEF GetLease, Call, Retry, Leave, Goto, TypeOK, Due, we_hold, expired, Ahead
  <2>3. Exempt(q)' => Exempt(q)
    BY <1>5 DEF GetLease, Call, Retry, Leave, Goto, TypeOK, Exempt
  <2> QED
    BY <1>5, <2>1, <2>2, <2>3, QuietStep DEF GetLease, Call, Retry
<1>6. CASE CreateLease(r)
  <2>1. CASE Lead(r)
    BY <2>1, LeadBridges
  <2>2. CASE lease # NoLease /\ UNCHANGED <<lease, late>> /\ Retry(r)
    <3>1. NoLeader' <=> NoLeader
      BY <1>6, <2>2, SameLeaders DEF CreateLease, Retry, Leave, IsLeader
    <3>2. \A h \in Replicas : Due(h) => Due(h)' /\ Ahead(h)' <= Ahead(h)
      BY <1>2, <1>3, <1>6, <2>2
         DEF CreateLease, Retry, Leave, Goto, TypeOK, Due, we_hold, expired, Ahead
    <3>3. Exempt(q)' => Exempt(q)
      BY <2>2 DEF Retry, Leave, Goto, TypeOK, Exempt
    <3> QED
      BY <1>6, <2>2, <3>1, <3>2, <3>3, QuietStep DEF CreateLease, Retry
  <2> QED
    BY <1>6, <2>1, <2>2 DEF CreateLease
<1>7. CASE AcquireLease(r)
  BY <1>7, LeadBridges DEF AcquireLease
<1>8. CASE AttemptFails(r)
  <2>1. /\ NoLeader' <=> NoLeader
        /\ Exempt(q)' => Exempt(q)
        /\ gap' = gap /\ Spent' = Spent + 1
    BY <1>8, SameLeaders, FaultSpends
       DEF AttemptFails, Retry, Leave, Goto, TypeOK, IsLeader, Calling, Exempt
  <2>2. CASE gap[q] = 0
    BY <2>1, <2>2, NoWaitAfter DEF Bridged, NoWaitSuffices
  <2>3. CASE gap[q] # 0
    <3>1. NoLeader /\ NoLeader' /\ ~Exempt(q) /\ ~Exempt(q)'
      BY <1>1, <2>1, <2>3 DEF Bridged
    <3>2. CASE UNCHANGED <<lease, late>>
      BY <2>1, <3>1, <3>2, FaultKeepsBridged DEF Bridged
    <3>3. CASE Write(r)
      <4>1. /\ lease' # NoLease /\ lease'.holder = r /\ step'[r] = "sleep"
            /\ r \notin stalled'
        BY <1>8, <3>3, LeaseIsThere DEF AttemptFails, Retry, Leave, Goto, TypeOK
      <4>2. Due(r)' /\ Ahead(r)' <= Attempt
        BY <4>1, AheadTypeAfter DEF Due, we_hold, AheadBounds
      <4>3. gap'[q] <= Within(Spent)
        BY <2>1, GapBound
      <4> QED
        BY <2>1, <3>1, <4>2, <4>3, FaultBridges DEF Bridged
    <3> QED
      BY <1>8, <3>2, <3>3 DEF AttemptFails
  <2> QED
    BY <2>2, <2>3
<1>9. CASE Stall(r)
  <2>1. /\ NoLeader' <=> NoLeader
        /\ lease' = lease /\ Spent' = Spent + 1
        /\ gap' = [gap EXCEPT ![r] = 0]
        /\ Exempt(r)' /\ (q # r => (Exempt(q)' <=> Exempt(q)))
    BY <1>9, FaultSpends DEF Stall, TypeOK, NoLeader, IsLeader, Exempt
  <2>2. CASE q = r
    BY <2>1, <2>2 DEF Bridged, TypeOK
  <2>3. CASE q # r
    <3>1. gap'[q] = gap[q]
      BY <2>1, <2>3 DEF TypeOK
    <3> QED
      BY <1>1, <2>1, <2>3, <3>1, FaultKeepsBridged DEF Bridged
  <2> QED
    BY <2>2, <2>3
<1>10. CASE RenewalRefused(r) \/ Crash(r)
  <2>1. /\ step' = [step EXCEPT ![r] = "off"]
        /\ stalled' = stalled \ {r}
        /\ gap' = [gap EXCEPT ![r] = 0]
        /\ lease' = lease
    BY <1>10 DEF RenewalRefused, Crash, Stop, Leave, Goto
  <2>2. CASE q = r
    BY <2>1, <2>2 DEF Bridged, Exempt, TypeOK
  <2>3. CASE q # r /\ gap[q] = 0
    BY <2>1, <2>3, NoWaitAfter DEF Bridged, TypeOK, NoWaitSuffices
  <2>4. CASE q # r /\ gap[q] # 0
    <3>1. /\ NoLeader /\ ~Exempt(q)
          /\ gap'[q] = gap[q] /\ NoLeader' /\ ~Exempt(q)'
      BY <1>1, <2>1, <2>4 DEF Bridged, NoLeader, IsLeader, Exempt, TypeOK
    <3>2. Spent' = Spent + 1
      BY <1>10, <3>1, FaultSpends DEF RenewalRefused, Crash, NoLeader, IsLeader
    <3> QED
      BY <2>1, <3>1, <3>2, FaultKeepsBridged DEF Bridged
  <2> QED
    BY <2>2, <2>3, <2>4
<1>11. CASE Restart(r)
  <2>1. NoLeader' <=> NoLeader
    BY <1>11, SameLeaders DEF Restart, IsLeader
  <2>2. \A h \in Replicas : Due(h) => Due(h)' /\ Ahead(h)' <= Ahead(h)
    BY <1>2, <1>3, <1>11 DEF Restart, Goto, TypeOK, Due, we_hold, expired, Ahead
  <2>3. Exempt(q)' => Exempt(q)
    BY <1>11 DEF Restart, Goto, TypeOK, Exempt
  <2> QED
    BY <1>11, <2>1, <2>2, <2>3, QuietStep DEF Restart
<1> QED
  BY <1>4, <1>5, <1>6, <1>7, <1>8, <1>9, <1>10, <1>11 DEF ReplicaStep

(* A second of waiting is a second less ahead of the attempt that ends it. *)
LEMMA TickBridged ==
  ASSUME RetryInterval + 2 * Latency <= LeaseDuration + 1,
         TypeOK, TypeOK', Bounded, Tick, NEW q \in Replicas
  PROVE  Bridged(q)'
<1>1. /\ step' = step /\ stalled' = stalled /\ faults' = faults
      /\ NoLeader' <=> NoLeader
      /\ Exempt(q)' <=> Exempt(q)
  BY DEF Tick, NoLeader, IsLeader, Exempt
<1>2. Bridged(q)
  BY DEF Bounded
<1>3. CASE ~NoLeader \/ Exempt(q)
  <2>1. gap'[q] = gap[q]
    BY <1>3 DEF Tick, TypeOK, NoLeader, Exempt
  <2> QED
    BY <1>1, <1>2, <1>3, <2>1 DEF Bridged
<1>4. CASE NoLeader /\ ~Exempt(q)
  <2>1. gap[q] \in Nat /\ gap'[q] \in Nat /\ gap'[q] <= gap[q] + 1
    BY DurationsAssumption DEF Tick, TypeOK
  <2>2. /\ Spent \in Nat /\ Within(Spent) \in Nat /\ Within(Spent + 1) \in Nat
        /\ Within(Spent)' = Within(Spent) /\ Within(Spent + 1)' = Within(Spent + 1)
    BY <1>1, SpentType, WithinGrows DEF Within, Spent
  <2>3. ASSUME Valid
        PROVE  /\ AfterExpiry \in Nat /\ AfterExpiry > Attempt
               /\ Valid' => AfterExpiry' = AfterExpiry - 1
               /\ ~Valid' => AfterExpiry = Attempt + 1
    <3>1. lease # NoLease /\ lease.age \in Nat /\ lease.age < Old
      BY <2>3, LeaseFields, DurationsAssumption DEF Valid, expired, Old
    <3>2. lease' # NoLease /\ lease'.age = lease.age + 1
      BY <3>1, TickLease
    <3>3. Valid' => lease'.age < Old
      BY <3>1, <3>2, DurationsAssumption DEF Valid, expired, Old
    <3>4. ~Valid' => lease'.age = Old
      BY <3>1, <3>2, DurationsAssumption DEF Valid, expired, Old
    <3> QED
      BY <3>1, <3>2, <3>3, <3>4, Outages DEF AfterExpiry
  <2>4. Valid' => Valid
    <3> SUFFICES ASSUME Valid' PROVE Valid
      OBVIOUS
    <3>1. lease # NoLease
      BY TickLease DEF Valid
    <3>2. lease.age \in Nat /\ lease'.age \in Nat /\ lease'.age >= lease.age
      BY <3>1, LeaseFields, TickLease, DurationsAssumption DEF Old
    <3> QED
      BY <3>1, <3>2, DurationsAssumption DEF Valid, expired
  <2>5. Far(q)'
    BY <1>2, <1>4, <2>1, <2>2, <2>3, <2>4, Outages DEF Bridged, Far
  <2>6. ASSUME Valid, gap[q] + AfterExpiry <= Within(Spent)
        PROVE  Near(q)'
    <3>1. CASE Valid'
      BY <2>1, <2>2, <2>3, <2>6, <3>1, Outages DEF Near
    <3>2. CASE ~Valid'
      <4>1. Due(q)' /\ Ahead(q)' <= Attempt
        BY <1>1, <1>4, <3>2, OwnAttemptAfter DEF OwnAttemptDue
      <4>2. Ahead(q)' \in Nat
        BY <4>1, AheadTypeAfter DEF Due, AheadBounds
      <4>3. gap'[q] + Ahead(q)' <= Within(Spent)
        BY <2>1, <2>2, <2>3, <2>6, <3>2, <4>1, <4>2, Outages
      <4> QED
        BY <2>2, <4>1, <4>3 DEF Near
    <3> QED
      BY <3>1, <3>2
  <2>7. ASSUME NEW h \in Replicas, Due(h), gap[q] + Ahead(h) <= Within(Spent)
        PROVE  Near(q)'
    <3>1. Due(h)'
      BY <1>1, <2>4, <2>7, TickLease DEF Due, we_hold, Valid
    <3>2. step[h] \in {"sleep", "get", "create", "acquire"}
      BY <2>7 DEF Due
    <3>3. Ahead(h) \in Nat /\ Ahead(h)' = Ahead(h) - 1
      <4>1. h \notin stalled /\ age[h] \in Nat /\ timer[h] \in Nat /\ age[h] <= Latency
        BY <2>7, Countdown DEF Due
      <4>2. /\ step[h] = "sleep" => timer'[h] = timer[h] - 1
            /\ step[h] # "sleep" => age'[h] = age[h] + 1
        BY <3>2, <4>1, LatencyBelowOld DEF Tick, TypeOK, Waiting, Calling
      <4>3. lease' = NoLease <=> lease = NoLease
        BY TickLease
      <4>4. Attempt \in Nat /\ Latency \in Nat
        BY Outages, DurationsAssumption
      <4> QED
        BY <1>1, <2>7, <4>1, <4>2, <4>3, <4>4, AheadType DEF Ahead, Due, AheadBounds
    <3>4. gap'[q] + Ahead(h)' <= Within(Spent)
      BY <2>1, <2>2, <2>7, <3>3
    <3> QED
      BY <2>2, <3>1, <3>4 DEF Near
  <2>8. Near(q)'
    BY <1>2, <1>4, <2>6, <2>7 DEF Bridged, Near
  <2> QED
    BY <1>1, <1>4, <2>5, <2>8 DEF Bridged
<1> QED
  BY <1>3, <1>4

(* A replica that stays up, and whose own attempts do not hang, sees a     *)
(* leader in time, for any durations, any number of replicas and any       *)
(* faults of which the limit allows for: in the code one, whose 30 seconds *)
(* are those of FR-008 (LEASE_DURATION_SECONDS, ACQUIRE_RETRY_INTERVAL and *)
(* an attempt of two seconds), besides every exit of a leader.             *)
THEOREM LeaderIsReplaced ==
  ASSUME RetryInterval + 2 * Latency <= LeaseDuration + 1,
         FailoverLimit >= Within(MaxFaults + 1)
  PROVE  Spec => []FailoverInTime
<1>1. TypeOK /\ Init => Bounded
  <2> SUFFICES ASSUME TypeOK, Init, NEW q \in Replicas PROVE Bridged(q)
    BY DEF Bounded
  <2>1. gap[q] = 0 /\ NoLeader /\ ~Exempt(q)
    BY DEF Init, NoLeader, IsLeader, Exempt
  <2> QED
    BY <2>1, NoWait DEF Bridged, NoWaitSuffices
<1>2. TypeOK /\ TypeOK' /\ Bounded /\ [Next]_vars => Bounded'
  <2> SUFFICES ASSUME TypeOK, TypeOK', Bounded, [Next]_vars, NEW q \in Replicas
               PROVE  Bridged(q)'
    BY DEF Bounded
  <2>1. CASE Tick
    BY <2>1, TickBridged
  <2>2. ASSUME NEW r \in Replicas, ReplicaStep(r) PROVE Bridged(q)'
    BY <2>2, ReplicaStepBridged
  <2>3. CASE UNCHANGED vars
    BY <2>3 DEF vars, Bounded, Bridged, Near, Far, Due, Ahead, AfterExpiry, Valid,
       Exempt, expired, we_hold, NoLeader, IsLeader, Spent, Within
  <2> QED
    BY <2>1, <2>2, <2>3 DEF Next
<1>3. TypeOK /\ Bounded => FailoverInTime
  <2> SUFFICES ASSUME TypeOK, Bounded, NEW q \in Replicas PROVE gap[q] <= FailoverLimit
    BY DEF FailoverInTime
  <2>1. gap[q] <= Within(Spent)
    BY GapBound
  <2>2. Within(Spent) <= Within(MaxFaults + 1)
    BY SpentType, WithinMonotone, DurationsAssumption
  <2>3. gap[q] \in Nat /\ Within(Spent) \in Nat /\ Within(MaxFaults + 1) \in Nat
    BY SpentType, WithinGrows, DurationsAssumption DEF TypeOK
  <2> QED
    BY <2>1, <2>2, <2>3, DurationsAssumption
<1> QED
  BY <1>1, <1>2, <1>3, ElectionTypes, PTL DEF Spec
=============================================================================
