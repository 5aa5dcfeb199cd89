------------------------------- MODULE Cadence -------------------------------
(***************************************************************************)
(* When the controller reconciles one NamespaceScan, in seconds: the       *)
(* requeue delays of reconcile and error_policy (namespace_scan.rs), the   *)
(* watch events of the CR and of its Jobs (main.rs), and what waits for    *)
(* the next reconcile.  A reconcile is cut down to what moves the scan     *)
(* on; Reconciler has the rest of it.                                      *)
(***************************************************************************)
EXTENDS Integers

CONSTANTS
    REQUEUE_INTERVAL,  \* heartbeat
    ERROR_REQUEUE,     \* delay after an error
    Imminent,          \* a scan due in less than this gets a requeue of its own
    FireRequeue,       \* delay after the clean-up of a due schedule
    Interval,          \* spec.schedule.interval
    Latency,           \* bound on the duration of a reconcile's calls
    MaxFaults,         \* bound on failing calls
    MaxDeletes,        \* bound on deletions of the CR
    Never              \* no reconcile is queued

ASSUME DelaysAssumption ==
    /\ {REQUEUE_INTERVAL, ERROR_REQUEUE, Imminent, FireRequeue, Interval} \subseteq Nat \ {0}
    /\ {Latency, MaxFaults, MaxDeletes} \subseteq Nat
    /\ ERROR_REQUEUE <= REQUEUE_INTERVAL
    /\ FireRequeue <= REQUEUE_INTERVAL
    /\ Imminent <= REQUEUE_INTERVAL

ASSUME NeverAssumption == Never \notin Int

VARIABLES
    local,   \* the CR lives in the operator's namespace
    alive,   \* the CR exists
    status,  \* its reason: Scanning, or a terminal one
    jobs,    \* its Jobs: absent, running or finished
    next,    \* its nextScheduledScanAt: seconds until then, or Never
    toDue,   \* while its Jobs are finished: seconds until Interval has passed
    queue,   \* seconds until the queued reconcile starts, or Never
    run,     \* the reconcile in flight
    event,   \* seconds the CR's watch event has been under way, or Never
    late,    \* seconds for which the present work has waited for a reconcile
    budget   \* what is left of the bounds

cluster == <<local, alive, status, next, jobs, toDue>>
vars == <<local, alive, status, next, jobs, toDue, queue, run, event, late, budget>>

-----------------------------------------------------------------------------
(* The queue of the controller runtime: one entry for an object, at the    *)
(* earliest moment asked for.  It waits while a reconcile of the object is *)
(* in flight.                                                              *)
Schedule(delay) ==
    IF queue = Never THEN delay
    ELSE IF delay = Never \/ queue <= delay THEN queue ELSE delay

\* A watch event asks for a reconcile at once.
Triggered == 0

\* Job events name the CR by label, within the operator's namespace.
job_to_cr_request == IF local THEN Triggered ELSE Never

\* Countdowns stop where no reconcile in flight began before they ended.
CountDown(n) == IF n = -Latency THEN n ELSE n - 1

\* Mutant: a tight requeue for any scan ahead.
next_requeue_interval_any(left) ==
    IF left # Never /\ left > 0 THEN left + 1 ELSE REQUEUE_INTERVAL

\* left: seconds from the reconcile's now to nextScheduledScanAt.
next_requeue_interval(left) ==
    IF left # Never /\ left > 0 /\ left < Imminent THEN left + 1 ELSE REQUEUE_INTERVAL

\* Mutant: an error waits for the heartbeat.
error_policy_slow(notFound) == IF notFound THEN Never ELSE REQUEUE_INTERVAL

\* Mutant: every error is taken for a deleted CR.
error_policy_await(notFound) == Never

error_policy(notFound) == IF notFound THEN Never ELSE ERROR_REQUEUE

(* left is nextScheduledScanAt as the reconcile knows it, in seconds from  *)
(* its start.                                                              *)
Idle == [step |-> "idle", age |-> 0, left |-> Never, new |-> "Scanning", fired |-> FALSE]

(* What only a reconcile can do for a living CR: create the Jobs that are  *)
(* absent, report a scan that finished, act on a schedule that is due.     *)
Work == CASE alive /\ jobs = "absent" -> "create"
          [] alive /\ jobs = "finished" /\ status = "Scanning" -> "report"
          [] alive /\ jobs = "finished" /\ status = "Terminal" /\ toDue <= 0 -> "fire"
          [] OTHER -> "none"

\* The wait for it goes on until it is done or becomes another.
Waits == late' = IF Work' = Work THEN late ELSE 0

Fault == /\ budget.faults > 0
         /\ budget' = [budget EXCEPT !.faults = @ - 1]

Init ==
    /\ local \in BOOLEAN
    /\ alive = TRUE
    /\ status = "Scanning"
    /\ jobs = "absent"
    /\ next = Never
    /\ toDue = 0
    /\ queue = 0
    /\ run = Idle
    /\ event = Never
    /\ late = 0
    /\ budget = [faults |-> MaxFaults, deletes |-> MaxDeletes]

-----------------------------------------------------------------------------
(* The reconcile. *)

(* The object is read, with its nextScheduledScanAt.  A request for one    *)
(* that left the cache is dropped.                                         *)
Begin ==
    /\ run = Idle
    /\ queue = 0
    /\ queue' = Never
    /\ run' = IF alive THEN [Idle EXCEPT !.step = "calls", !.left = next] ELSE Idle
    /\ UNCHANGED <<cluster, event, late, budget>>

\* Finished Jobs say when the next scan is due, and whether it was at the start.
Due == jobs = "finished" /\ toDue + run.age <= 0

(* ensure_jobs and the listing of the Jobs; when they have finished, the   *)
(* schedule counts from them, and their clean-up if it is due.             *)
Calls ==
    /\ run.step = "calls"
    /\ run' = [run EXCEPT !.step  = "patch",
                          !.left  = IF jobs = "finished" THEN toDue + run.age ELSE @,
                          !.new   = IF jobs = "finished" THEN "Terminal" ELSE "Scanning",
                          !.fired = Due]
    /\ jobs' = CASE Due             -> "absent"
                 [] jobs = "absent" -> "running"
                 [] OTHER           -> jobs
    /\ queue' = IF jobs' # jobs THEN Schedule(job_to_cr_request) ELSE queue
    /\ UNCHANGED <<local, alive, status, next, toDue, event, budget>>
    /\ Waits

\* Any call fails, after the Jobs were created or deleted or before.
CallsFail ==
    /\ run.step = "calls"
    /\ Fault
    /\ \/ UNCHANGED jobs
       \/ jobs = "absent" /\ jobs' = "running"
       \/ Due /\ jobs' = "absent"
    /\ run' = Idle
    /\ queue' = Schedule(error_policy(FALSE))
    /\ UNCHANGED <<local, alive, status, next, toDue, event>>
    /\ Waits

\* What the patch stores; it has no nextScheduledScanAt that is unset.
Patched ==
    /\ status' = run.new
    /\ next' = IF run.left = Never THEN next
               ELSE IF run.left - run.age < -Latency THEN -Latency ELSE run.left - run.age
    /\ event' = 0

(* The patch sets lastReconciledAt and so always changes the object: the   *)
(* watch brings it back.  Without an object the patch is a 404.            *)
PatchStatus ==
    /\ run.step = "patch"
    /\ IF alive
       THEN /\ Patched
            /\ queue' = Schedule(IF run.fired THEN FireRequeue
                                             ELSE next_requeue_interval(run.left))
       ELSE /\ queue' = Schedule(error_policy(TRUE))
            /\ UNCHANGED <<status, next, event>>
    /\ run' = Idle
    /\ UNCHANGED <<local, alive, jobs, toDue, budget>>
    /\ Waits

\* A failing patch may have been applied.
PatchFails ==
    /\ run.step = "patch"
    /\ Fault
    /\ \/ UNCHANGED <<status, next, event>>
       \/ alive /\ Patched
    /\ queue' = Schedule(error_policy(FALSE))
    /\ run' = Idle
    /\ UNCHANGED <<local, alive, jobs, toDue>>
    /\ Waits

\* The event of a CR asks for its reconcile, whatever changed in it.
EventArrives ==
    /\ event # Never
    /\ event' = Never
    /\ queue' = Schedule(Triggered)
    /\ UNCHANGED <<cluster, run, late, budget>>

-----------------------------------------------------------------------------
(* The cluster and the user. *)

\* The scan that finishes sets the anchor of the next.
JobsFinish ==
    /\ jobs = "running"
    /\ jobs' = "finished"
    /\ toDue' = Interval
    /\ queue' = Schedule(job_to_cr_request)
    /\ UNCHANGED <<local, alive, status, next, run, event, budget>>
    /\ Waits

\* By their TTL, or collected with the CR.
JobsDeleted ==
    /\ jobs = "finished" \/ (jobs = "running" /\ ~alive)
    /\ jobs' = "absent"
    /\ queue' = Schedule(job_to_cr_request)
    /\ UNCHANGED <<local, alive, status, next, toDue, run, event, budget>>
    /\ Waits

DeleteCr ==
    /\ alive
    /\ budget.deletes > 0
    /\ budget' = [budget EXCEPT !.deletes = @ - 1]
    /\ alive' = FALSE
    /\ status' = "Scanning"
    /\ next' = Never
    /\ UNCHANGED <<local, jobs, toDue, queue, run, event>>
    /\ Waits

CreateCr ==
    /\ ~alive
    /\ alive' = TRUE
    /\ event' = 0
    /\ UNCHANGED <<local, status, next, jobs, toDue, queue, run, budget>>
    /\ Waits

\* A queued reconcile starts when its time has come.
Tick ==
    /\ run = Idle => queue # 0
    /\ run # Idle => run.age < Latency
    /\ event # Never => event < Latency
    /\ run' = IF run = Idle THEN Idle ELSE [run EXCEPT !.age = @ + 1]
    /\ event' = IF event = Never THEN Never ELSE event + 1
    /\ queue' = IF queue \in {Never, 0} THEN queue ELSE queue - 1
    /\ next' = IF next = Never THEN Never ELSE CountDown(next)
    /\ toDue' = IF jobs = "finished" THEN CountDown(toDue) ELSE toDue
    /\ late' = IF Work = "none" THEN 0 ELSE late + 1
    /\ UNCHANGED <<local, alive, status, jobs, budget>>

Controller == \/ Begin
              \/ Calls
              \/ PatchStatus
              \/ EventArrives

Next == \/ Controller
        \/ CallsFail
        \/ PatchFails
        \/ JobsFinish
        \/ JobsDeleted
        \/ DeleteCr
        \/ CreateCr
        \/ Tick

Spec == Init /\ [][Next]_vars

-----------------------------------------------------------------------------
Left == (-Latency .. Interval + Latency) \cup {Never}

(* Types.  No delay is longer than the heartbeat, so an operator that      *)
(* stands still is at most one heartbeat from looking again.               *)
TypeOK ==
    /\ local \in BOOLEAN
    /\ alive \in BOOLEAN
    /\ status \in {"Scanning", "Terminal"}
    /\ jobs \in {"absent", "running", "finished"}
    /\ next \in Left
    /\ toDue \in -Latency .. Interval
    /\ queue \in (0 .. REQUEUE_INTERVAL) \cup {Never}
    /\ run \in [step : {"idle", "calls", "patch"}, age : 0 .. Latency,
                left : Left, new : {"Scanning", "Terminal"}, fired : BOOLEAN]
    /\ event \in (0 .. Latency) \cup {Never}
    /\ late \in Nat
    /\ budget \in [faults : 0 .. MaxFaults, deletes : 0 .. MaxDeletes]

(* A living CR is never forgotten: a reconcile of it is queued, in flight  *)
(* or asked for by an event under way, although a 404 ends a reconcile     *)
(* without a requeue (error_policy) and the CR may have been deleted and   *)
(* created again meanwhile.                                                *)
NeverForgotten == alive => queue # Never \/ run # Idle \/ event # Never

(* A finished scan is reported, a due schedule acted on and a missing Job  *)
(* created within two reconciles and the event between them, and each      *)
(* failed call adds ERROR_REQUEUE and one more reconcile: without faults   *)
(* this meets the 30 s of SC-001 and SC-002 of feature 009.                *)
ActedOnInTime ==
    LET faults == MaxFaults - budget.faults
    IN  late <= 3 * Latency + faults * (ERROR_REQUEUE + Latency)
=============================================================================
