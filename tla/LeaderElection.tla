---------------------------- MODULE LeaderElection ----------------------------
(***************************************************************************)
(* The hand-rolled leader election of leader.rs: replicas compete for one  *)
(* coordination.k8s.io Lease.  Reading the Lease and patching it are two   *)
(* API calls, and the patch carries no resourceVersion: it overwrites      *)
(* whatever is stored.  The renewer sends a merge patch with               *)
(* PatchParams::force(), which kube refuses before any call is made: every *)
(* leader's process exits at its first renewal.                            *)
(*                                                                         *)
(* Time passes in ticks of one second.  Instead of timestamps the model    *)
(* keeps ages and countdowns, so time needs no bound.  The replicas'       *)
(* clocks agree.  Nobody deletes the Lease object.                         *)
(***************************************************************************)
EXTENDS Integers, FiniteSets

CONSTANTS
    Replicas,         \* operator pods, each with its own holder identity
    LeaseDuration,    \* LEASE_DURATION_SECONDS
    RenewInterval,    \* RENEW_INTERVAL
    RetryInterval,    \* ACQUIRE_RETRY_INTERVAL
    Latency,          \* an attempt that does not stall is over after that time
    FailoverLimit,    \* seconds in which a lost leader must be replaced
    MaxFaults,        \* bound on crashes, API errors and stalled attempts
    NoLease           \* the Lease object does not exist

ASSUME DurationsAssumption ==
    /\ LeaseDuration \in Nat \ {0}
    /\ RenewInterval \in Nat \ {0}
    /\ RetryInterval \in Nat \ {0}
    /\ Latency \in Nat \ {0}
    /\ FailoverLimit \in Nat
    /\ MaxFaults \in Nat

\* The lease outlives the age of its stamp and the time its holder leads.
ASSUME LatencyAssumption == RenewInterval + Latency <= LeaseDuration

ASSUME NoLeaseAssumption == NoLease \notin [holder : Replicas, age : Nat]

VARIABLES
    lease,     \* the Lease: who holds it and how old its renewTime is
    late,      \* its renewTime was older than Latency when written (history)
    step,      \* where every replica is in run_with_leadership
    age,       \* how long ago it took the timestamp it will write
    timer,     \* what is left of its sleep
    stalled,   \* the replicas whose attempt may take longer than Latency
    gap,       \* how long it has been up without any leader (history)
    faults     \* what is left of MaxFaults

vars == <<lease, late, step, age, timer, stalled, gap, faults>>

-----------------------------------------------------------------------------
Old == LeaseDuration + 1   \* ages saturate once they stand for an expired Lease

Lease == [holder : Replicas, age : 0 .. Old]

Waiting == {"sleep", "lead"}              \* in a tokio sleep
Calling == {"get", "create", "acquire"}   \* an API call is out

Steps == {"off"} \cup Waiting \cup Calling

IsLeader(r) == step[r] = "lead"           \* the body runs

Init ==
    /\ lease = NoLease
    /\ late  = FALSE
    /\ step  = [r \in Replicas |-> "sleep"]
    /\ age   = [r \in Replicas |-> 0]
    /\ timer = [r \in Replicas |-> 0]
    /\ stalled = {}
    /\ gap   = [r \in Replicas |-> 0]
    /\ faults = MaxFaults

Fault == faults > 0 /\ faults' = faults - 1

Goto(r, s) == step' = [step EXCEPT ![r] = s]

\* The attempt is over, or the process is.
Leave(r, s, sleep) ==
    /\ Goto(r, s)
    /\ timer' = [timer EXCEPT ![r] = sleep]
    /\ age'   = [age EXCEPT ![r] = 0]
    /\ stalled' = stalled \ {r}

\* Mutant: the next attempt waits for a whole lease duration.
RetryLate(r) == Leave(r, "sleep", LeaseDuration) /\ UNCHANGED gap

\* An attempt that fails is repeated after ACQUIRE_RETRY_INTERVAL.
Retry(r) == Leave(r, "sleep", RetryInterval) /\ UNCHANGED gap

\* Nobody is without a leader from now on.
Lead(r) == Leave(r, "lead", RenewInterval) /\ gap' = [q \in Replicas |-> 0]

Stop(r) == Leave(r, "off", 0) /\ gap' = [gap EXCEPT ![r] = 0]

\* The stamp is the time at which the attempt began.
Write(r) == /\ lease' = [holder |-> r, age |-> age[r]]
            /\ late'  = (age[r] > Latency)

-----------------------------------------------------------------------------
(* try_acquire *)

\* The timestamp is taken first, then the Lease is read.
StartAttempt(r) ==
    /\ step[r] = "sleep"
    /\ timer[r] = 0
    /\ Goto(r, "get")
    /\ age' = [age EXCEPT ![r] = 0]
    /\ UNCHANGED <<lease, late, timer, stalled, gap, faults>>

we_hold(r) == lease.holder = r

\* Mutant: the lease is up for grabs from its first renewal interval on.
expired_early == lease.age > RenewInterval

\* Mutant: an old renewTime never expires the lease.
expired_never == FALSE

\* (now - renewTime).num_seconds() > leaseDurationSeconds
expired == lease.age > LeaseDuration

\* The next call of an attempt, with the same timestamp.
Call(r, s) == Goto(r, s) /\ UNCHANGED <<age, timer, stalled, gap>>

GetLease(r) ==
    /\ step[r] = "get"
    /\ \/ lease = NoLease /\ Call(r, "create")
       \/ lease # NoLease /\ (we_hold(r) \/ expired) /\ Call(r, "acquire")
       \/ lease # NoLease /\ ~we_hold(r) /\ ~expired /\ Retry(r)
    /\ UNCHANGED <<lease, late, faults>>

\* The create call fails with 409 when another replica was faster.
CreateLease(r) ==
    /\ step[r] = "create"
    /\ \/ lease = NoLease /\ Write(r) /\ Lead(r)
       \/ lease # NoLease /\ UNCHANGED <<lease, late>> /\ Retry(r)
    /\ UNCHANGED faults

\* An unconditional merge patch with the timestamp of the attempt's start.
AcquireLease(r) ==
    /\ step[r] = "acquire"
    /\ Write(r)
    /\ Lead(r)
    /\ UNCHANGED faults

\* A call fails; the write may have been applied all the same.
AttemptFails(r) ==
    /\ step[r] \in Calling
    /\ Fault
    /\ \/ UNCHANGED <<lease, late>>
       \/ step[r] = "create" /\ lease = NoLease /\ Write(r)
       \/ step[r] = "acquire" /\ Write(r)
    /\ Retry(r)

\* No call has a timeout: an attempt may hang, for as long as it likes.
Stall(r) ==
    /\ step[r] \in Calling
    /\ r \notin stalled
    /\ Fault
    /\ stalled' = stalled \cup {r}
    /\ gap' = [gap EXCEPT ![r] = 0]
    /\ UNCHANGED <<lease, late, step, age, timer>>

-----------------------------------------------------------------------------
(* spawn_renewer, while the body runs *)

(* The first renewal, after RENEW_INTERVAL, is refused by kube's           *)
(* validation, without a call, and the process exits.                      *)
RenewalRefused(r) ==
    /\ step[r] = "lead"
    /\ timer[r] = 0
    /\ Stop(r)
    /\ UNCHANGED <<lease, late, faults>>

-----------------------------------------------------------------------------
Crash(r) ==
    /\ step[r] # "off"
    /\ Fault
    /\ Stop(r)
    /\ UNCHANGED <<lease, late>>

\* Kubernetes restarts the container in its pod: the identity stays.
Restart(r) ==
    /\ step[r] = "off"
    /\ Goto(r, "sleep")
    /\ UNCHANGED <<lease, late, age, timer, stalled, gap, faults>>

(* A second passes.  Sleeps end on time, and so do attempts that do not    *)
(* stall; a process that is off may stay so.                               *)
Tick ==
    /\ \A r \in Replicas :
          /\ step[r] \in Waiting => timer[r] > 0
          /\ step[r] \in Calling /\ r \notin stalled => age[r] < Latency
    /\ lease' = IF lease = NoLease \/ lease.age = Old THEN lease
                ELSE [lease EXCEPT !.age = @ + 1]
    /\ timer' = [r \in Replicas |-> IF step[r] \in Waiting THEN timer[r] - 1 ELSE timer[r]]
    /\ age'   = [r \in Replicas |-> IF step[r] \in Calling /\ age[r] < Old
                                    THEN age[r] + 1 ELSE age[r]]
    /\ gap'   = [r \in Replicas |->
                   IF step[r] = "off" \/ r \in stalled \/ gap[r] > FailoverLimit
                      \/ \E q \in Replicas : IsLeader(q)
                   THEN gap[r] ELSE gap[r] + 1]
    /\ UNCHANGED <<late, step, stalled, faults>>

ReplicaStep(r) ==
    \/ StartAttempt(r) \/ GetLease(r) \/ CreateLease(r) \/ AcquireLease(r)
    \/ AttemptFails(r) \/ Stall(r) \/ RenewalRefused(r)
    \/ Crash(r) \/ Restart(r)

Next == Tick \/ \E r \in Replicas : ReplicaStep(r)

Spec == Init /\ [][Next]_vars

-----------------------------------------------------------------------------
\* The longest countdown at a step, and the oldest timestamp of a replica.
Longest(s) == CASE s = "sleep" -> RetryInterval
                [] s = "lead"  -> RenewInterval
                [] OTHER       -> 0

Oldest(r) == IF r \in stalled THEN Old ELSE Latency

(* The types of the variables; every countdown stays within the sleep it   *)
(* belongs to, and the age of a timestamp within Latency unless its        *)
(* attempt stalls.                                                         *)
TypeOK ==
    /\ lease \in Lease \cup {NoLease}
    /\ late \in BOOLEAN
    /\ step \in [Replicas -> Steps]
    /\ age \in [Replicas -> 0 .. Old]
    /\ timer \in [Replicas -> Nat]
    /\ stalled \in SUBSET Replicas
    /\ gap \in [Replicas -> 0 .. FailoverLimit + 1]
    /\ faults \in 0 .. MaxFaults
    /\ \A r \in Replicas : /\ timer[r] <= Longest(step[r])
                           /\ age[r] <= Oldest(r)

(* At most one replica runs the controller at any moment (leader.rs:6,     *)
(* FR-007 of feature 002).                                                 *)
AtMostOneLeader ==
    \A q, r \in Replicas : IsLeader(q) /\ IsLeader(r) => q = r

(* At the moment at which a replica reads another's lease as expired       *)
(* nobody leads, whoever else acquires, crashes, restarts, overwrites or   *)
(* hangs (the check in try_acquire): only a lease written by an attempt    *)
(* that had hung carries a renewTime that expires under its holder.        *)
NoTakeoverFromLeader ==
    [][\A r \in Replicas :
         step[r] = "get" /\ step'[r] = "acquire" /\ ~we_hold(r) =>
            late \/ \A q \in Replicas : ~IsLeader(q)]_vars

(* A replica that stays up, and whose own attempts do not hang, sees a     *)
(* leader, itself or another, within FailoverLimit seconds of losing one   *)
(* (FR-008 of feature 002).                                                *)
FailoverInTime == \A r \in Replicas : gap[r] <= FailoverLimit
=============================================================================
