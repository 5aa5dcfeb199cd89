------------------------------ MODULE Reconciler ------------------------------
(***************************************************************************)
(* The reconcile loop of one NamespaceScan (reconcile/namespace_scan.rs    *)
(* with scan_orchestrator.rs, status_aggregator.rs and scheduler.rs)       *)
(* against the API server, the Job controller and the target pods.  Each   *)
(* API call is an action of its own: between two calls of one reconcile    *)
(* the cluster, the user and another replica may act.                      *)
(*                                                                         *)
(* A replica is an operator process that runs the controller.  The         *)
(* controller runtime never runs two reconciles of one CR at once in one   *)
(* process, so a replica has one task.  More than one replica stands for   *)
(* the time in which two processes both believe they lead.                 *)
(***************************************************************************)
EXTENDS ScanStatus, FiniteSets

CONSTANTS
    Replicas,      \* operator processes that believe they are the leader
    Pods,          \* pods of the target namespaces
    PodNamespace,  \* Pods -> Namespaces
    PodImages,     \* Pods -> SUBSET Images, over all containers of the pod
    PodPhases,     \* the phases the pods go through
    Specs,         \* the specs the user writes
    TTL,           \* ttlSecondsAfterFinished of a scan Job
    StaleCache,    \* TRUE: the watch cache may lag behind the API server
    Skew,          \* how far the Job controller's clock, truncated to seconds,
                   \* may be from the operator's
    MaxTime,       \* bound: the clock stops there
    MaxEdits,      \* bound on spec edits and pod changes
    MaxFaults,     \* bound on API errors and process crashes
    MaxFailures    \* bound on failing scan pods

ASSUME PodsAssumption == /\ PodNamespace \in [Pods -> Namespaces]
                         /\ PodImages \in [Pods -> SUBSET Images]

ASSUME SpecsAssumption == Specs \subseteq ScanSpec /\ Specs # {}

ASSUME TTLAssumption == TTL \in Nat

ASSUME SkewAssumption == Skew \in Nat

ASSUME StaleCacheAssumption == StaleCache \in BOOLEAN

ASSUME BoundsAssumption == /\ MaxTime \in Nat
                           /\ MaxEdits \in Nat
                           /\ MaxFaults \in Nat
                           /\ MaxFailures \in Nat

ASSUME FiniteImages == IsFiniteSet(Images)

VARIABLES
    clock,   \* the operator's wall clock
    cr,      \* the NamespaceScan object stored by the API server
    pod,     \* phase of every pod
    job,     \* the scan Jobs in the operator's namespace, by image
    born,    \* creationTimestamp of the latest Job of every image (history)
    cache,   \* the copy of the CR in every replica's watch cache
    task,    \* the reconcile every replica has in flight
    budget   \* what is left of the bounds

cluster == <<clock, pod>>
vars == <<clock, cr, pod, job, born, cache, task, budget>>

-----------------------------------------------------------------------------
(* State of a reconcile: the step it is at and the function's locals.      *)
Steps == {"off", "idle", "list_pods", "ensure_jobs", "list_owned",
          "relist", "cleanup", "patch_status"}

Cr == [spec : Specs, status : Status]

Task == [step   : Steps,
         obj    : Cr,                   \* the cached object it works on
         now    : Time,
         nsLeft : SUBSET Namespaces,    \* namespaces still to list
         images : SUBSET Images,        \* images found in scope
         todo   : SUBSET Images,        \* images whose Job is still to create
         new    : Status,               \* new_status
         dels   : SUBSET Images]        \* terminal Jobs still to delete

\* The locals are gone when a reconcile returns.
Blank(step) == [step   |-> step,
                obj    |-> [spec |-> CHOOSE s \in Specs : TRUE, status |-> NoStatus],
                now    |-> 0,
                nsLeft |-> {},
                images |-> {},
                todo   |-> {},
                new    |-> NoStatus,
                dels   |-> {}]

Budget == [edits : Nat, faults : Nat, failures : Nat]

At(r, step) == task[r].step = step

Update(r, t) == task' = [task EXCEPT ![r] = t]

Return(r) == Update(r, Blank("idle"))

\* Leave the reconcile's body with new_status, ready to be patched.
PatchNext(r, status) ==
    Update(r, [task[r] EXCEPT !.step = "patch_status", !.new = status])

\* ensure_jobs returned: map its result over the base status.
Orchestrated(r, result) ==
    status_with_orchestration_result(task[r].new, task[r].obj.status, result, task[r].now)

Fault == budget.faults > 0 /\ budget' = [budget EXCEPT !.faults = @ - 1]
Edit  == budget.edits > 0  /\ budget' = [budget EXCEPT !.edits = @ - 1]

Exists(i) == job[i] # NoJob

Create(i) == /\ job'  = [job  EXCEPT ![i] = build_scan_job]
             /\ born' = [born EXCEPT ![i] = clock]

\* Foreground propagation: the object stays, terminating, until it is collected.
Delete(i) == job' = [job EXCEPT ![i] = IF @ = NoJob THEN NoJob
                                       ELSE [@ EXCEPT !.terminating = TRUE]]

Init ==
    /\ clock = 0
    /\ cr \in [spec : Specs, status : {NoStatus}]
    /\ pod \in [Pods -> PodPhases]
    /\ job  = [i \in Images |-> NoJob]
    /\ born = [i \in Images |-> None]
    /\ cache = [r \in Replicas |-> cr]
    /\ task = [r \in Replicas |-> Blank("idle")]
    /\ budget = [edits |-> MaxEdits, faults |-> MaxFaults, failures |-> MaxFailures]

-----------------------------------------------------------------------------
(* The reconcile function.                                                 *)

(* The controller hands reconcile the cached object.  It may do so at any  *)
(* time: every status patch changes lastReconciledAt and so comes back as  *)
(* a watch event, besides the requeues and the Job events.                 *)
Begin(r) ==
    LET obj  == IF StaleCache THEN cache[r] ELSE cr
        base == desired_status(obj.spec, clock, obj.status)
    IN  /\ At(r, "idle")
        /\ Update(r, [task[r] EXCEPT !.step   = IF base.reason = "InvalidSpec"
                                                THEN "patch_status" ELSE "list_pods",
                                     !.obj    = obj,
                                     !.now    = clock,
                                     !.nsLeft = IF base.reason = "InvalidSpec"
                                                THEN {} ELSE obj.spec.namespaces,
                                     !.new    = base])
        /\ UNCHANGED <<cluster, cr, job, born, cache, budget>>

in_scope(p) == pod[p] \in {"Running", "Pending", "None"}

collect_images(ns) ==
    UNION {PodImages[p] : p \in {q \in Pods : PodNamespace[q] = ns /\ in_scope(q)}}

\* A namespace that does not exist lists as one without pods.
ListPods(r, ns) ==
    /\ At(r, "list_pods")
    /\ ns \in task[r].nsLeft
    /\ Update(r, [task[r] EXCEPT !.nsLeft = @ \ {ns},
                                 !.images = @ \cup collect_images(ns)])
    /\ UNCHANGED <<cluster, cr, job, born, cache, budget>>

\* 403 and every other error but 404 abort the orchestration.
ListPodsDenied(r) ==
    /\ At(r, "list_pods")
    /\ task[r].nsLeft # {}
    /\ Fault
    /\ PatchNext(r, Orchestrated(r, "RBACInsufficient"))
    /\ UNCHANGED <<cluster, cr, job, born, cache>>

\* Mutant: images with an entry in scannedImages are not scanned again.
CollectUnscanned(r) ==
    /\ At(r, "list_pods")
    /\ task[r].nsLeft = {}
    /\ Update(r, [task[r] EXCEPT !.step = "ensure_jobs",
                                 !.todo = {i \in task[r].images :
                                             task[r].new.scanned[i] = None}])
    /\ UNCHANGED <<cluster, cr, job, born, cache, budget>>

\* Every namespace is listed: stop if no image is in scope, else create Jobs.
CollectImages(r) ==
    /\ At(r, "list_pods")
    /\ task[r].nsLeft = {}
    /\ IF task[r].images = {}
       THEN PatchNext(r, Orchestrated(r, "NoImagesInScope"))
       ELSE Update(r, [task[r] EXCEPT !.step = "ensure_jobs", !.todo = task[r].images])
    /\ UNCHANGED <<cluster, cr, job, born, cache, budget>>

BuildFails(r) ==
    /\ At(r, "ensure_jobs")
    /\ task[r].todo # {}
    /\ ~task[r].obj.spec.buildable
    /\ PatchNext(r, Orchestrated(r, "BuildFailed"))
    /\ UNCHANGED <<cluster, cr, job, born, cache, budget>>

\* A Job of that name that exists already (409), terminating or not, is fine.
CreateJob(r, i) ==
    /\ At(r, "ensure_jobs")
    /\ i \in task[r].todo
    /\ task[r].obj.spec.buildable
    /\ IF Exists(i) THEN UNCHANGED <<job, born>> ELSE Create(i)
    /\ Update(r, [task[r] EXCEPT !.todo = @ \ {i}])
    /\ UNCHANGED <<cluster, cr, cache, budget>>

\* Any other error aborts; the Job may have been created if the answer is lost.
CreateJobDenied(r, i) ==
    /\ At(r, "ensure_jobs")
    /\ i \in task[r].todo
    /\ task[r].obj.spec.buildable
    /\ Fault
    /\ \/ UNCHANGED <<job, born>>
       \/ ~Exists(i) /\ Create(i)
    /\ PatchNext(r, Orchestrated(r, "RBACInsufficient"))
    /\ UNCHANGED <<cluster, cr, cache>>

Spawned(r) ==
    /\ At(r, "ensure_jobs")
    /\ task[r].todo = {}
    /\ Update(r, [task[r] EXCEPT !.step = "list_owned",
                                 !.new  = Orchestrated(r, "Scanning")])
    /\ UNCHANGED <<cluster, cr, job, born, cache, budget>>

(* The owned Jobs are listed and aggregated; in a terminal state the       *)
(* schedule is consulted, and when a scan is due the Jobs are listed again *)
(* for the clean-up.                                                       *)
ListOwnedJobs(r) ==
    LET t    == task[r]
        stat == status_with_aggregated_outcome(t.new, t.obj.status, job, clock, t.now)
        next == schedule_decision(t.obj.spec, stat)
    IN  /\ At(r, "list_owned")
        /\ IF stat.reason \in Terminal
           THEN Update(r, [t EXCEPT !.step = IF is_schedule_due(next, t.now)
                                             THEN "relist" ELSE "patch_status",
                                    !.new  = [stat EXCEPT !.next = next]])
           ELSE PatchNext(r, stat)
        /\ UNCHANGED <<cluster, cr, job, born, cache, budget>>

\* Mutant: the clean-up does not look at the Job's status.
OwnedJobs == {i \in Images : Exists(i)}

\* cleanup_terminal_jobs deletes the listed Jobs that are terminal.
TerminalJobs == {i \in Images : Exists(i) /\ should_delete_job(job[i])}

ListTerminalJobs(r) ==
    LET dels == TerminalJobs
    IN  /\ At(r, "relist")
        /\ Update(r, [task[r] EXCEPT !.step = IF dels = {} THEN "patch_status" ELSE "cleanup",
                                     !.dels = dels])
        /\ UNCHANGED <<cluster, cr, job, born, cache, budget>>

\* An error of either listing leaves the reconcile without a status patch.
ListJobsError(r) ==
    /\ At(r, "list_owned") \/ At(r, "relist")
    /\ Fault
    /\ Return(r)
    /\ UNCHANGED <<cluster, cr, job, born, cache>>

\* A Job that is gone already (404) is fine.
DeleteJob(r, i) ==
    /\ At(r, "cleanup")
    /\ i \in task[r].dels
    /\ Delete(i)
    /\ Update(r, [task[r] EXCEPT !.dels = @ \ {i},
                                 !.step = IF task[r].dels = {i}
                                          THEN "patch_status" ELSE "cleanup"])
    /\ UNCHANGED <<cluster, cr, born, cache, budget>>

\* Any other error returns without a status patch; the call may have got through.
DeleteJobError(r, i) ==
    /\ At(r, "cleanup")
    /\ i \in task[r].dels
    /\ Fault
    /\ Delete(i) \/ UNCHANGED job
    /\ Return(r)
    /\ UNCHANGED <<cluster, cr, born, cache>>

ApplyPatch(r) == cr' = [cr EXCEPT !.status = merge_patch(@, task[r].new)]

PatchStatus(r) ==
    /\ At(r, "patch_status")
    /\ ApplyPatch(r)
    /\ Return(r)
    /\ UNCHANGED <<cluster, job, born, cache, budget>>

PatchStatusError(r) ==
    /\ At(r, "patch_status")
    /\ Fault
    /\ ApplyPatch(r) \/ UNCHANGED cr
    /\ Return(r)
    /\ UNCHANGED <<cluster, job, born, cache>>

-----------------------------------------------------------------------------
(* The replica's surroundings: its watch cache, crashes and restarts.      *)

WatchDeliver(r) ==
    /\ StaleCache
    /\ ~At(r, "off")
    /\ cache[r] # cr
    /\ cache' = [cache EXCEPT ![r] = cr]
    /\ UNCHANGED <<cluster, cr, job, born, task, budget>>

Crash(r) ==
    /\ ~At(r, "off")
    /\ Fault
    /\ Update(r, Blank("off"))
    /\ UNCHANGED <<cluster, cr, job, born, cache>>

\* A new process lists the CRs before it reconciles.
Restart(r) ==
    /\ At(r, "off")
    /\ Return(r)
    /\ cache' = [cache EXCEPT ![r] = cr]
    /\ UNCHANGED <<cluster, cr, job, born, budget>>

-----------------------------------------------------------------------------
(* The cluster: time, the target pods, the user and the Job controller.    *)

Tick ==
    /\ clock < MaxTime
    /\ clock' = clock + 1
    /\ UNCHANGED <<cr, pod, job, born, cache, task, budget>>

PodChanges(p) ==
    /\ Edit
    /\ \E phase \in PodPhases \ {pod[p]} : pod' = [pod EXCEPT ![p] = phase]
    /\ UNCHANGED <<clock, cr, job, born, cache, task>>

EditSpec ==
    /\ Edit
    /\ \E s \in Specs \ {cr.spec} : cr' = [cr EXCEPT !.spec = s]
    /\ UNCHANGED <<cluster, job, born, cache, task>>

InProgress(i) == Exists(i) /\ ~should_delete_job(job[i]) /\ ~job[i].terminating

ScanPodFails(i) ==
    /\ InProgress(i)
    /\ budget.failures > 0
    /\ budget' = [budget EXCEPT !.failures = @ - 1]
    /\ job' = [job EXCEPT ![i].failed = @ + 1]
    /\ UNCHANGED <<cluster, cr, born, cache, task>>

ScanPodSucceeds(i) ==
    /\ InProgress(i)
    /\ job' = [job EXCEPT ![i].succeeded = 1]
    /\ UNCHANGED <<cluster, cr, born, cache, task, budget>>

(* The Complete or Failed condition may follow the counters.  Its time is  *)
(* the Job controller's: it may lie before one the operator took earlier.  *)
JobFinishes(i) ==
    /\ Exists(i)
    /\ should_delete_job(job[i])
    /\ job[i].finishTime = None
    /\ \E t \in 0 .. (clock + Skew) :
          clock <= t + Skew /\ job' = [job EXCEPT ![i].finishTime = t]
    /\ UNCHANGED <<cluster, cr, born, cache, task, budget>>

\* The controller of the TTL goes by the Job controller's clock.
JobTTLExpires(i) ==
    /\ Exists(i)
    /\ ~job[i].terminating
    /\ job[i].finishTime # None
    /\ clock + Skew >= job[i].finishTime + TTL
    /\ Delete(i)
    /\ UNCHANGED <<cluster, cr, born, cache, task, budget>>

JobCollected(i) ==
    /\ Exists(i)
    /\ job[i].terminating
    /\ job' = [job EXCEPT ![i] = NoJob]
    /\ UNCHANGED <<cluster, cr, born, cache, task, budget>>

-----------------------------------------------------------------------------
\* What a replica does of itself when no call fails.
Progress(r) ==
    \/ Begin(r)
    \/ \E ns \in Namespaces : ListPods(r, ns)
    \/ CollectImages(r)
    \/ BuildFails(r)
    \/ \E i \in Images : CreateJob(r, i)
    \/ Spawned(r)
    \/ ListOwnedJobs(r)
    \/ ListTerminalJobs(r)
    \/ \E i \in Images : DeleteJob(r, i)
    \/ PatchStatus(r)
    \/ Restart(r)

Failure(r) ==
    \/ ListPodsDenied(r)
    \/ \E i \in Images : CreateJobDenied(r, i)
    \/ ListJobsError(r)
    \/ \E i \in Images : DeleteJobError(r, i)
    \/ PatchStatusError(r)
    \/ Crash(r)

\* The Job controller brings every scan to an end and collects deleted Jobs.
JobController(i) ==
    \/ ScanPodSucceeds(i)
    \/ JobFinishes(i)
    \/ JobCollected(i)

Environment ==
    \/ Tick
    \/ \E p \in Pods : PodChanges(p)
    \/ EditSpec
    \/ \E i \in Images : ScanPodFails(i) \/ JobTTLExpires(i) \/ JobController(i)

Next ==
    \/ \E r \in Replicas : Progress(r) \/ Failure(r) \/ WatchDeliver(r)
    \/ Environment

Spec == Init /\ [][Next]_vars

(* Every requeue is a finite delay and the runtime polls every future, so  *)
(* a reconcile is eventually begun and brought on; Kubernetes restarts the *)
(* process, delivers watch events, runs scan pods and collects Jobs.       *)
Fairness ==
    /\ \A r \in Replicas : WF_vars(Progress(r)) /\ WF_vars(WatchDeliver(r))
    /\ \A i \in Images : WF_vars(JobController(i))

FairSpec == Spec /\ Fairness
=============================================================================
