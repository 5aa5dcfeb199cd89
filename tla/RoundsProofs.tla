----------------------------- MODULE RoundsProofs -----------------------------
(***************************************************************************)
(* Proofs about the rounds of scans that one replica runs: a re-scan cuts  *)
(* into the Jobs in progress only after a failed one, and while no scan    *)
(* fails for good it waits for the interval.                               *)
(***************************************************************************)
EXTENDS ReconcilerProofs

CleaningUp(r) == At(r, "relist") \/ At(r, "cleanup")

ListingSteps == {"list_owned", "relist", "cleanup"}

-----------------------------------------------------------------------------
(***************************************************************************)
(* What one step of a replica may do to the Jobs and to its own step.      *)
(***************************************************************************)

\* Leaves the listing and the clean-up, or never was there.
Outside(r) == task'[r].step \notin ListingSteps

ReplicaStep(r) ==
    /\ UNCHANGED clock
    /\ task'[r].now \in {0, clock, task[r].now}
    /\ \/ UNCHANGED <<job, born>> /\ Outside(r)
       \/ \E i \in Images : ~Exists(i) /\ Create(i) /\ Outside(r)
       \/ Spawned(r)
       \/ ListOwnedJobs(r)
       \/ ListTerminalJobs(r)
       \/ \E i \in Images :
             /\ At(r, "cleanup") /\ Delete(i) /\ UNCHANGED born
             /\ task'[r].step \notin {"list_owned", "relist"}
             /\ task'[r].step = "cleanup" => task'[r].new = task[r].new
       \/ UNCHANGED <<job, born, task>>

LEMMA ReplicaSteps ==
    ASSUME TypeOK, NEW r \in Replicas, Progress(r) \/ Failure(r) \/ WatchDeliver(r)
    PROVE  ReplicaStep(r)
<1> USE DEF TypeOK
<1>a. ASSUME NEW t, Update(r, t)
      PROVE  task'[r] = t
  BY <1>a DEF Update
<1>b. ASSUME NEW status, PatchNext(r, status)
      PROVE  Outside(r) /\ task'[r].now = task[r].now
  BY <1>a, <1>b DEF PatchNext, Outside, ListingSteps, Task
<1>c. ASSUME NEW step \in Steps \ ListingSteps, Update(r, Blank(step))
      PROVE  Outside(r) /\ task'[r].now = 0
  BY <1>a, <1>c DEF Blank, Outside
<1>1. CASE Begin(r)
  <2> DEFINE obj  == IF StaleCache THEN cache[r] ELSE cr
             base == desired_status(obj.spec, clock, obj.status)
             t == [task[r] EXCEPT !.step   = IF base.reason = "InvalidSpec"
                                             THEN "patch_status" ELSE "list_pods",
                                  !.obj    = obj,
                                  !.now    = clock,
                                  !.nsLeft = IF base.reason = "InvalidSpec"
                                             THEN {} ELSE obj.spec.namespaces,
                                  !.new    = base]
  <2>1. Update(r, t) /\ UNCHANGED <<clock, job, born>>
    BY <1>1 DEF Begin, cluster
  <2>2. t.step \notin ListingSteps /\ t.now = clock
    <3> HIDE DEF obj, base
    <3> QED
      BY DEF Task, ListingSteps
  <2> HIDE DEF t
  <2> QED
    BY <1>a, <2>1, <2>2 DEF ReplicaStep, Outside
<1>2. ASSUME NEW ns \in Namespaces, ListPods(r, ns)
      PROVE  ReplicaStep(r)
  <2>1. task'[r].step = "list_pods" /\ task'[r].now = task[r].now
    BY <1>2, <1>a DEF ListPods, At, Task
  <2> QED
    BY <1>2, <2>1 DEF ListPods, cluster, ReplicaStep, Outside, ListingSteps
<1>3. CASE ListPodsDenied(r)
  BY <1>3, <1>b DEF ListPodsDenied, cluster, ReplicaStep
<1>4. CASE CollectImages(r)
  <2>1. CASE task[r].images = {}
    BY <1>4, <1>b, <2>1 DEF CollectImages, cluster, ReplicaStep
  <2>2. CASE task[r].images # {}
    <3>1. task'[r].step = "ensure_jobs" /\ task'[r].now = task[r].now
      BY <1>4, <1>a, <2>2 DEF CollectImages, Task
    <3> QED
      BY <1>4, <3>1 DEF CollectImages, cluster, ReplicaStep, Outside, ListingSteps
  <2> QED
    BY <2>1, <2>2
<1>5. CASE BuildFails(r)
  BY <1>5, <1>b DEF BuildFails, cluster, ReplicaStep
<1>6. ASSUME NEW i \in Images, CreateJob(r, i)
      PROVE  ReplicaStep(r)
  <2>1. task'[r].step = "ensure_jobs" /\ task'[r].now = task[r].now
    BY <1>6, <1>a DEF CreateJob, At, Task
  <2> QED
    BY <1>6, <2>1 DEF CreateJob, cluster, ReplicaStep, Outside, ListingSteps
<1>7. ASSUME NEW i \in Images, CreateJobDenied(r, i)
      PROVE  ReplicaStep(r)
  BY <1>7, <1>b DEF CreateJobDenied, cluster, ReplicaStep
<1>8. CASE Spawned(r)
  <2>1. task'[r].now = task[r].now
    BY <1>8, <1>a DEF Spawned, Task
  <2> QED
    BY <1>8, <2>1 DEF Spawned, cluster, ReplicaStep
<1>9. CASE ListOwnedJobs(r)
  <2> DEFINE t    == task[r]
             stat == status_with_aggregated_outcome(t.new, t.obj.status, job, clock, t.now)
             next == schedule_decision(t.obj.spec, stat)
             u == [t EXCEPT !.step = IF is_schedule_due(next, t.now)
                                     THEN "relist" ELSE "patch_status",
                            !.new  = [stat EXCEPT !.next = next]]
  <2>1. Update(r, u) \/ PatchNext(r, stat)
    BY <1>9 DEF ListOwnedJobs
  <2>2. u.now = t.now
    <3> HIDE DEF stat, next
    <3> QED
      BY DEF Task
  <2>3. UNCHANGED clock
    BY <1>9 DEF ListOwnedJobs, cluster
  <2>4. task'[r].now = task[r].now
    <3> HIDE DEF u, stat
    <3> QED
      BY <1>a, <1>b, <2>1, <2>2
  <2> QED
    BY <1>9, <2>3, <2>4 DEF ReplicaStep
<1>10. CASE ListTerminalJobs(r)
  <2>1. task'[r].now = task[r].now
    BY <1>10, <1>a DEF ListTerminalJobs, Task
  <2> QED
    BY <1>10, <2>1 DEF ListTerminalJobs, cluster, ReplicaStep
<1>11. CASE ListJobsError(r)
  BY <1>11, <1>c DEF ListJobsError, Return, Steps, ListingSteps, cluster, ReplicaStep
<1>12. ASSUME NEW i \in Images, DeleteJob(r, i)
       PROVE  ReplicaStep(r)
  <2>1. /\ task'[r].step \in {"patch_status", "cleanup"} /\ task'[r].now = task[r].now
        /\ task'[r].new = task[r].new
    BY <1>12, <1>a DEF DeleteJob, Task
  <2> QED
    BY <1>12, <2>1 DEF DeleteJob, cluster, ReplicaStep
<1>13. ASSUME NEW i \in Images, DeleteJobError(r, i)
       PROVE  ReplicaStep(r)
  <2>1. task'[r].step = "idle" /\ task'[r].now = 0
    BY <1>13, <1>a DEF DeleteJobError, Return, Blank
  <2> QED
    BY <1>13, <2>1 DEF DeleteJobError, cluster, ReplicaStep, Outside, ListingSteps
<1>14. CASE PatchStatus(r) \/ PatchStatusError(r) \/ Crash(r) \/ Restart(r)
  BY <1>14, <1>c DEF PatchStatus, PatchStatusError, Crash, Restart, Return, Steps,
                           ListingSteps, cluster, ReplicaStep
<1>15. CASE WatchDeliver(r)
  BY <1>15 DEF WatchDeliver, cluster, ReplicaStep
<1> QED
  BY <1>1, <1>2, <1>3, <1>4, <1>5, <1>6, <1>7, <1>8, <1>9, <1>10, <1>11, <1>12, <1>13,
     <1>14, <1>15 DEF Progress, Failure

\* A scan pod that ends changes the counters of its Job and nothing else.
LEMMA ScanPodEnds ==
    ASSUME TypeOK, NEW i \in Images, ScanPodFails(i) \/ ScanPodSucceeds(i)
    PROVE  /\ job[i] \in Job /\ job'[i] \in Job
           /\ job'[i].finishTime = job[i].finishTime
           /\ job'[i].terminating = job[i].terminating
           /\ \A k \in Images \ {i} : job'[k] = job[k]
           /\ UNCHANGED <<clock, born, task>>
<1> USE DEF TypeOK
<1>1. job[i] \in Job /\ ~should_delete_job(job[i])
  BY DEF ScanPodFails, ScanPodSucceeds, InProgress, Exists
<1>2. /\ job'[i].finishTime = job[i].finishTime
      /\ job'[i].terminating = job[i].terminating
      /\ \A k \in Images \ {i} : job'[k] = job[k]
      /\ UNCHANGED <<clock, born, task>>
  BY <1>1 DEF ScanPodFails, ScanPodSucceeds, cluster, Job
<1>3. job'[i] \in Job
  <2>1. ~(job[i].failed > BackoffLimit) /\ job[i].failed \in Nat
    BY <1>1, BackoffLimitAssumption DEF should_delete_job, is_job_finally_failed, Job
  <2>2. job[i].failed + 1 \in 0 .. (BackoffLimit + 1)
    BY <2>1, BackoffLimitAssumption
  <2>3. CASE ScanPodFails(i)
    <3>1. job'[i] = [job[i] EXCEPT !.failed = @ + 1]
      BY <2>3 DEF ScanPodFails
    <3> QED
      BY <1>1, <2>2, <3>1 DEF Job
  <2>4. CASE ScanPodSucceeds(i)
    BY <1>1, <2>4 DEF ScanPodSucceeds, Job
  <2> QED
    BY <2>3, <2>4
<1> QED
  BY <1>1, <1>2, <1>3

-----------------------------------------------------------------------------
(***************************************************************************)
(* What a listing of the owned Jobs makes of the status.                   *)
(***************************************************************************)

LEMMA AggregatedOutcome ==
    ASSUME NEW base \in Status, NEW existing \in Status,
           NEW current \in Time, NEW now \in Time,
           NEW owned \in [Images -> Job \cup {NoJob}],
           base.reason = "Scanning"
    PROVE  LET newly == scanned_images(owned, current)
               stat  == status_with_aggregated_outcome(base, existing, owned, current, now)
           IN  \/ stat = base
               \/ /\ stat.reason = "ScanCompleted"
                  /\ \A i \in Listed(owned) : is_job_succeeded(owned[i])
                  /\ stat.last = advance_last(base.last, newly)
               \/ /\ stat.reason = "ScanFailed"
                  /\ \E i \in Listed(owned) : is_job_finally_failed(owned[i])
<1> DEFINE newly == scanned_images(owned, current)
           outcome == aggregate_job_outcomes(owned)
           stat == status_with_aggregated_outcome(base, existing, owned, current, now)
<1>1. CASE outcome = "AnyFailed"
  <2>1. stat.reason = "ScanFailed"
    BY <1>1 DEF status_with_aggregated_outcome, WithReason, Status
  <2>2. \E i \in Listed(owned) : is_job_finally_failed(owned[i])
    BY <1>1 DEF aggregate_job_outcomes
  <2> QED
    BY <2>1, <2>2
<1>2. CASE outcome = "AllSucceeded"
  <2>1. stat = [WithReason(base, existing, "ScanCompleted", now) EXCEPT
                  !.scanned = merge_scanned_images_append_only(base.scanned, newly),
                  !.last    = advance_last(base.last, newly)]
    BY <1>2 DEF status_with_aggregated_outcome
  <2>2. /\ stat.reason = "ScanCompleted"
        /\ stat.last = advance_last(base.last, newly)
    BY <2>1 DEF WithReason, Status
  <2>3. \A i \in Listed(owned) : is_job_succeeded(owned[i])
    BY <1>2 DEF aggregate_job_outcomes
  <2> QED
    BY <2>2, <2>3
<1>3. CASE outcome \notin {"AnyFailed", "AllSucceeded"}
  BY <1>3 DEF status_with_aggregated_outcome
<1> QED
  BY <1>1, <1>2, <1>3

-----------------------------------------------------------------------------
(***************************************************************************)
(* A re-scan cuts into the Jobs in progress only after a failed scan.      *)
(***************************************************************************)

(* A Job that is not terminal makes the aggregation leave the status in    *)
(* Scanning, unless another one failed for good; once every Job is         *)
(* terminal only another reconcile could make a new one.                   *)
Calm ==
    /\ \A r \in Replicas : At(r, "list_owned") => task[r].new.reason = "Scanning"
    /\ \A r \in Replicas : CleaningUp(r) =>
         \/ task[r].new.reason = "ScanFailed"
         \/ \A i \in Images : Exists(i) => should_delete_job(job[i])

\* A scan whose Jobs have neither all succeeded nor one failed is not cleaned up.
LEMMA ListingToRelist ==
    ASSUME TypeOK, Calm,
           NEW r \in Replicas, ListOwnedJobs(r), task'[r].step # "patch_status"
    PROVE  LET t    == task[r]
               stat == status_with_aggregated_outcome(t.new, t.obj.status, job, clock, t.now)
           IN  /\ is_schedule_due(schedule_decision(t.obj.spec, stat), t.now)
               /\ task'[r].step = "relist"
               /\ \/ /\ \A i \in Images : Exists(i) => is_job_succeeded(job[i])
                     /\ stat.last = advance_last(t.new.last, scanned_images(job, clock))
                  \/ /\ task'[r].new.reason = "ScanFailed"
                     /\ \E i \in Images : Exists(i) /\ is_job_finally_failed(job[i])
<1> USE DEF TypeOK
<1> DEFINE t    == task[r]
           stat == status_with_aggregated_outcome(t.new, t.obj.status, job, clock, t.now)
           next == schedule_decision(t.obj.spec, stat)
           new == [stat EXCEPT !.next = next]
           u == [t EXCEPT !.step = IF is_schedule_due(next, t.now)
                                   THEN "relist" ELSE "patch_status",
                          !.new  = [stat EXCEPT !.next = next]]
<1>1. t \in Task /\ t.new \in Status /\ t.obj.status \in Status /\ t.now \in Time
  BY DEF Task, Cr
<1>2. t.new.reason = "Scanning"
  BY DEF ListOwnedJobs, Calm
<1>3. \/ stat = t.new
      \/ /\ stat.reason = "ScanCompleted"
         /\ \A i \in Listed(job) : is_job_succeeded(job[i])
         /\ stat.last = advance_last(t.new.last, scanned_images(job, clock))
      \/ /\ stat.reason = "ScanFailed"
         /\ \E i \in Listed(job) : is_job_finally_failed(job[i])
  BY <1>1, <1>2, AggregatedOutcome
<1>4. stat.reason \in Terminal
  <2>1. SUFFICES ASSUME stat.reason \notin Terminal PROVE FALSE
    OBVIOUS
  <2>2. PatchNext(r, stat)
    BY <2>1 DEF ListOwnedJobs
  <2>3. task'[r].step = "patch_status"
    <3> HIDE DEF stat
    <3> QED
      BY <2>2 DEF PatchNext, Update, Task
  <2> QED
    BY <2>3
<1>5. stat # t.new
  BY <1>2, <1>4 DEF Terminal
<1>6. Update(r, u)
  BY <1>4 DEF ListOwnedJobs
<1>7. /\ task'[r].step = IF is_schedule_due(next, t.now) THEN "relist" ELSE "patch_status"
      /\ task'[r].new = new
  <2>1. /\ u.step = IF is_schedule_due(next, t.now) THEN "relist" ELSE "patch_status"
        /\ u.new = new
    <3> HIDE DEF stat, next
    <3> QED
      BY <1>1 DEF Task
  <2> HIDE DEF u, next, new
  <2> QED
    BY <1>6, <2>1 DEF Update
<1>8. is_schedule_due(next, t.now) /\ task'[r].step = "relist"
  BY <1>7
<1>9. new.reason = stat.reason
  <2>1. stat \in Status
    BY <1>1, AggregatedType
  <2> HIDE DEF stat, next
  <2> QED
    BY <2>1 DEF Status
<1> HIDE DEF stat, next, new
<1> QED
  BY <1>3, <1>5, <1>7, <1>8, <1>9 DEF Listed, Exists, stat, next

\* One replica keeps Calm, in every step of its own.
LEMMA CalmReplicaStep ==
    ASSUME \A q, r \in Replicas : q = r, TypeOK, Calm, NEW r \in Replicas, ReplicaStep(r)
    PROVE  Calm'
<1> USE DEF TypeOK
<1>0. \A q \in Replicas : q = r
  OBVIOUS
<1>a. ASSUME UNCHANGED job,
             task'[r].step = "list_owned" => task'[r].new.reason = "Scanning",
             task'[r].step \in {"relist", "cleanup"} =>
                \/ task'[r].new.reason = "ScanFailed"
                \/ \A i \in Images : Exists(i) => should_delete_job(job[i])
      PROVE  Calm'
  BY <1>0, <1>a DEF Calm, At, CleaningUp, Exists, should_delete_job, is_job_succeeded,
                    is_job_finally_failed
<1>2. CASE Outside(r)
  BY <1>0, <1>2 DEF Outside, ListingSteps, Calm, At, CleaningUp
<1>3. CASE Spawned(r)
  <2>1. task'[r].step = "list_owned" /\ task'[r].new = Orchestrated(r, "Scanning")
    BY <1>3 DEF Spawned, Update, Task
  <2>2. Orchestrated(r, "Scanning").reason = "Scanning"
    BY DEF Orchestrated, status_with_orchestration_result, WithReason, Task, Status
  <2> QED
    BY <1>3, <1>a, <2>1, <2>2 DEF Spawned
<1>4. CASE ListOwnedJobs(r)
  <2>1. UNCHANGED job
    BY <1>4 DEF ListOwnedJobs
  <2>2. \/ task'[r].step = "patch_status"
        \/ /\ task'[r].step = "relist"
           /\ \/ task'[r].new.reason = "ScanFailed"
              \/ \A i \in Images : Exists(i) => is_job_succeeded(job[i])
    BY <1>4, ListingToRelist
  <2> QED
    BY <1>a, <2>1, <2>2 DEF should_delete_job
<1>5. CASE ListTerminalJobs(r)
  <2>1. task'[r].step \in {"patch_status", "cleanup"} /\ task'[r].new = task[r].new
    BY <1>5 DEF ListTerminalJobs, Update, Task
  <2>2. \/ task[r].new.reason = "ScanFailed"
        \/ \A i \in Images : Exists(i) => should_delete_job(job[i])
    BY <1>5 DEF ListTerminalJobs, Calm, CleaningUp
  <2> QED
    BY <1>5, <1>a, <2>1, <2>2 DEF ListTerminalJobs
<1>6. ASSUME NEW i \in Images, At(r, "cleanup"), Delete(i),
             task'[r].step = "cleanup" => task'[r].new = task[r].new,
             task'[r].step \notin {"list_owned", "relist"}
      PROVE  Calm'
  <2>1. \A k \in Images : Exists(k)' => /\ Exists(k)
                                        /\ job'[k].failed = job[k].failed
                                        /\ job'[k].succeeded = job[k].succeeded
    BY <1>6 DEF Delete, Exists, Job
  <2>2. \A k \in Images : Exists(k)' /\ should_delete_job(job[k]) => should_delete_job(job[k])'
    BY <2>1 DEF should_delete_job, is_job_succeeded, is_job_finally_failed
  <2>3. \/ task[r].new.reason = "ScanFailed"
        \/ \A k \in Images : Exists(k) => should_delete_job(job[k])
    BY <1>6 DEF Calm, CleaningUp
  <2> QED
    BY <1>0, <1>6, <2>1, <2>2, <2>3 DEF Calm, At, CleaningUp
<1>7. CASE UNCHANGED <<job, born, task>>
  <2>1. /\ task[r].step = "list_owned" => task[r].new.reason = "Scanning"
        /\ task[r].step \in {"relist", "cleanup"} =>
             \/ task[r].new.reason = "ScanFailed"
             \/ \A i \in Images : Exists(i) => should_delete_job(job[i])
    BY DEF Calm, At, CleaningUp
  <2> QED
    BY <1>7, <1>a, <2>1
<1> QED
  BY <1>2, <1>3, <1>4, <1>5, <1>6, <1>7 DEF ReplicaStep

\* The cluster keeps Calm: a Job that is terminal stays so until it is gone.
LEMMA CalmEnvironmentStep ==
    ASSUME TypeOK, Calm, Environment
    PROVE  Calm'
<1> USE DEF TypeOK
<1>a. ASSUME UNCHANGED <<job, task>>
      PROVE  Calm'
  BY <1>a DEF Calm, At, CleaningUp, Exists, should_delete_job, is_job_succeeded,
              is_job_finally_failed
<1>b. ASSUME UNCHANGED task, NEW i \in Images,
             \A k \in Images \ {i} : job'[k] = job[k],
             Exists(i)' => /\ Exists(i)
                           /\ should_delete_job(job[i]) => should_delete_job(job[i])'
      PROVE  Calm'
  <2>1. \A k \in Images : Exists(k)' => Exists(k)
    BY <1>b DEF Exists
  <2>2. \A k \in Images : Exists(k)' /\ should_delete_job(job[k]) => should_delete_job(job[k])'
    BY <1>b DEF should_delete_job, is_job_succeeded, is_job_finally_failed
  <2> QED
    BY <1>b, <2>1, <2>2 DEF Calm, At, CleaningUp
<1>1. CASE Tick \/ EditSpec \/ \E p \in Pods : PodChanges(p)
  BY <1>1, <1>a DEF Tick, EditSpec, PodChanges
<1>2. ASSUME NEW i \in Images, ScanPodFails(i) \/ ScanPodSucceeds(i)
      PROVE  Calm'
  <2>1. Exists(i) /\ ~should_delete_job(job[i])
    BY <1>2 DEF ScanPodFails, ScanPodSucceeds, InProgress
  <2> QED
    BY <1>2, <1>b, <2>1, ScanPodEnds
<1>4. ASSUME NEW i \in Images, JobFinishes(i)
      PROVE  Calm'
  <2>1. job[i] \in Job /\ Exists(i)
    BY <1>4 DEF JobFinishes, Exists
  <2>2. /\ job'[i].failed = job[i].failed
        /\ job'[i].succeeded = job[i].succeeded
        /\ \A k \in Images \ {i} : job'[k] = job[k]
    BY <1>4, <2>1 DEF JobFinishes, Job
  <2> QED
    BY <1>4, <1>b, <2>1, <2>2 DEF JobFinishes, should_delete_job, is_job_succeeded,
                                  is_job_finally_failed
<1>5. ASSUME NEW i \in Images, JobTTLExpires(i)
      PROVE  Calm'
  <2>1. job[i] \in Job /\ Exists(i)
    BY <1>5 DEF JobTTLExpires, Exists
  <2>2. /\ job'[i].failed = job[i].failed
        /\ job'[i].succeeded = job[i].succeeded
        /\ \A k \in Images \ {i} : job'[k] = job[k]
    BY <1>5, <2>1 DEF JobTTLExpires, Delete, Exists, Job
  <2> QED
    BY <1>5, <1>b, <2>1, <2>2 DEF JobTTLExpires, should_delete_job, is_job_succeeded,
                                  is_job_finally_failed
<1>6. ASSUME NEW i \in Images, JobCollected(i)
      PROVE  Calm'
  <2>1. ~Exists(i)' /\ \A k \in Images \ {i} : job'[k] = job[k]
    BY <1>6 DEF JobCollected, Exists
  <2> QED
    BY <1>6, <1>b, <2>1 DEF JobCollected
<1> QED
  BY <1>1, <1>2, <1>4, <1>5, <1>6 DEF Environment, JobController

LEMMA CalmIsKept ==
    ASSUME \A q, r \in Replicas : q = r
    PROVE  Spec => []Calm
<1>1. Init => Calm
  <2> SUFFICES ASSUME Init PROVE Calm
    OBVIOUS
  <2>1. \A r \in Replicas : task[r].step = "idle"
    BY DEF Init, Blank
  <2> QED
    BY <2>1 DEF Calm, At, CleaningUp
<1>2. TypeOK /\ Calm /\ [Next]_vars => Calm'
  <2> SUFFICES ASSUME TypeOK, Calm, [Next]_vars PROVE Calm'
    OBVIOUS
  <2>1. CASE \E r \in Replicas : Progress(r) \/ Failure(r) \/ WatchDeliver(r)
    BY <2>1, ReplicaSteps, CalmReplicaStep
  <2>2. CASE Environment
    BY <2>2, CalmEnvironmentStep
  <2>3. CASE UNCHANGED vars
    BY <2>3 DEF vars, Calm, At, CleaningUp, Exists, should_delete_job, is_job_succeeded,
                is_job_finally_failed
  <2> QED
    BY <2>1, <2>2, <2>3 DEF Next
<1> QED
  BY <1>1, <1>2, TypeCorrect, PTL DEF Spec

(* While one replica runs, the clean-up of a due schedule                  *)
(* (namespace_scan.rs, scheduler.rs cleanup_terminal_jobs) starts beside a *)
(* Job in progress only when the scan it reports has failed, whatever the  *)
(* cache lags, the calls answer, the processes do and the user edits.      *)
THEOREM OnlyFailedScansAreCutInto ==
    ASSUME \A q, r \in Replicas : q = r
    PROVE  Spec => OnlyFailureCutsIn
<1> DEFINE Waits == \A r \in Replicas : StartsCleanup(r) =>
                      task[r].new.reason = "ScanFailed" \/ \A i \in Images : ~InProgress(i)
<1>1. TypeOK /\ Calm /\ [Next]_vars => [Waits]_vars
  <2> SUFFICES ASSUME TypeOK, Calm, Next, NEW r \in Replicas,
                      ~At(r, "cleanup"), task'[r].step = "cleanup",
                      task[r].new.reason # "ScanFailed"
               PROVE  \A i \in Images : ~InProgress(i)
    BY DEF vars, StartsCleanup
  <2>1. task' # task
    BY DEF At
  <2>2. CASE \E q \in Replicas : Progress(q) \/ Failure(q) \/ WatchDeliver(q)
    <3>1. ReplicaStep(r)
      BY <2>2, ReplicaSteps
    <3>2. ListTerminalJobs(r)
      <4>1. Spawned(r) => task'[r].step = "list_owned"
        BY DEF Spawned, Update, TypeOK, Task
      <4>2. ListOwnedJobs(r) => task'[r].step # "cleanup"
        BY ListingToRelist
      <4> QED
        BY <2>1, <3>1, <4>1, <4>2 DEF ReplicaStep, Outside, ListingSteps
    <3>3. \A i \in Images : Exists(i) => should_delete_job(job[i])
      BY <3>2 DEF ListTerminalJobs, Calm, CleaningUp
    <3> QED
      BY <3>3 DEF InProgress
  <2>3. CASE Environment
    <3>1. UNCHANGED task
      BY <2>3 DEF Environment, Tick, PodChanges, EditSpec, ScanPodFails, JobTTLExpires,
                  JobController, ScanPodSucceeds, JobFinishes, JobCollected
    <3> QED
      BY <2>1, <3>1
  <2> QED
    BY <2>2, <2>3 DEF Next
<1>2. Spec => [][Waits]_vars
  BY <1>1, CalmIsKept, TypeCorrect, PTL DEF Spec
<1> QED
  BY <1>2 DEF OnlyFailureCutsIn

-----------------------------------------------------------------------------
(***************************************************************************)
(* A re-scan waits for the interval.                                       *)
(***************************************************************************)

\* No Job uses up its retries.
NoScanFails == \A i \in Images : Exists(i) => ~is_job_finally_failed(job[i])

(* The interval since the latest Job of the image was made is over, give   *)
(* or take what the clocks differ by.                                      *)
Elapsed(i) == born[i] + Interval <= clock + Skew

(* A Job finishes after it was made; a Job that is gone, going or about to *)
(* be deleted was made an interval ago.                                    *)
Aged ==
    /\ \A i \in Images : Exists(i) =>
         /\ born[i] # None /\ born[i] <= clock
         /\ job[i].finishTime # None => born[i] <= job[i].finishTime + Skew
    /\ \A i \in Images : born[i] # None /\ (~Exists(i) \/ job[i].terminating) => Elapsed(i)
    /\ \A r \in Replicas : CleaningUp(r) => \A i \in Images : Exists(i) => Elapsed(i)
    /\ \A r \in Replicas : task[r].now <= clock

\* When a scan of an interval schedule is due, every Job is an interval old.
LEMMA DueJobsElapsed ==
    ASSUME \A s \in Specs : parse_schedule(s.schedule) # "Cron",
           NoScanFails, TypeOK, Calm, Aged,
           NEW r \in Replicas, ListOwnedJobs(r), task'[r].step # "patch_status",
           NEW i \in Images, Exists(i)
    PROVE  Elapsed(i)
<1> USE DEF TypeOK
<1> DEFINE t    == task[r]
           stat == status_with_aggregated_outcome(t.new, t.obj.status, job, clock, t.now)
           newly == scanned_images(job, clock)
<1>1. /\ is_schedule_due(schedule_decision(t.obj.spec, stat), t.now)
      /\ stat.last = advance_last(t.new.last, newly)
  BY ListingToRelist DEF NoScanFails
<1>2. /\ t \in Task /\ t.new \in Status /\ t.now \in Time /\ t.obj \in Cr
      /\ t.obj.spec \in Specs /\ t.new.last \in OptTime
  BY DEF Task, Cr, Status
<1>3. parse_schedule(t.obj.spec.schedule) # "Cron"
  BY <1>2
<1>4. newly[i] \in Nat /\ newly[i] # None /\ born[i] \in Nat
      /\ born[i] <= newly[i] + Skew
  <2>1. job[i] \in Job /\ job[i].finishTime \in OptTime
    BY DEF Exists, Job
  <2>2. /\ born[i] # None /\ born[i] <= clock
        /\ job[i].finishTime # None => born[i] <= job[i].finishTime + Skew
    BY DEF Aged
  <2>3. newly[i] = IF job[i].finishTime = None THEN clock ELSE job[i].finishTime
    BY DEF scanned_images, completed_at, Exists
  <2> QED
    BY <2>1, <2>2, <2>3, NoneAssumption, SkewAssumption DEF OptTime, Time
<1>5. newly \in [Images -> OptTime]
  BY ScannedImagesType
<1>6. stat.last # None /\ stat.last \in Nat /\ newly[i] <= stat.last
  <2>1. \A last \in OptTime :
          /\ advance_last(last, newly) \in OptTime
          /\ advance_last(last, newly) # None
          /\ newly[i] <= advance_last(last, newly)
    <3> HIDE DEF newly
    <3> QED
      BY <1>4, <1>5, AdvanceLast
  <2>2. stat.last \in OptTime /\ stat.last # None /\ newly[i] <= stat.last
    <3> HIDE DEF newly, stat
    <3> QED
      BY <1>1, <1>2, <2>1
  <2> HIDE DEF newly, stat
  <2> QED
    BY <2>2 DEF OptTime, Time
<1>7. schedule_decision(t.obj.spec, stat) = stat.last + Interval + Jitter
  <2> HIDE DEF stat
  <2> QED
    BY <1>3, <1>6 DEF schedule_decision, compute_next_scheduled_time, anchor
<1>8. stat.last + Interval + Jitter <= t.now
  <2> HIDE DEF stat
  <2> QED
    BY <1>1, <1>2, <1>6, <1>7, IntervalAssumption, JitterAssumption DEF is_schedule_due, Time
<1>9. t.now <= clock /\ t.now \in Nat /\ clock \in Nat
  BY <1>2 DEF Aged, Time
<1> HIDE DEF t, stat, newly
<1> QED
  BY <1>4, <1>6, <1>8, <1>9, IntervalAssumption, JitterAssumption, SkewAssumption DEF Elapsed

LEMMA AgedReplicaStep ==
    ASSUME \A q, r \in Replicas : q = r, NoScanFails,
           \A s \in Specs : parse_schedule(s.schedule) # "Cron",
           TypeOK, Calm, Aged, NEW r \in Replicas, ReplicaStep(r)
    PROVE  Aged'
<1> USE DEF TypeOK
<1>0. \A q \in Replicas : q = r
  OBVIOUS
<1>1. clock' = clock /\ \A q \in Replicas : task'[q].now <= clock'
  <2>1. task'[r].now \in {0, clock, task[r].now} /\ clock' = clock
    BY DEF ReplicaStep
  <2>2. task[r].now <= clock
    BY DEF Aged
  <2> QED
    BY <1>0, <2>1, <2>2 DEF Time
<1>a. ASSUME UNCHANGED <<job, born>>,
             CleaningUp(r)' => \A i \in Images : Exists(i) => Elapsed(i)
      PROVE  Aged'
  BY <1>0, <1>1, <1>a DEF Aged, Exists, Elapsed
<1>2. CASE UNCHANGED <<job, born>> /\ Outside(r)
  BY <1>2, <1>a DEF Outside, ListingSteps, CleaningUp, At
<1>3. ASSUME NEW i \in Images, ~Exists(i), Create(i), Outside(r)
      PROVE  Aged'
  <2>1. /\ job'[i].finishTime = None /\ ~job'[i].terminating /\ job'[i] # NoJob
        /\ born'[i] = clock
        /\ \A k \in Images \ {i} : job'[k] = job[k] /\ born'[k] = born[k]
    BY <1>3, FreshJobType, NoJobAssumption DEF Create, build_scan_job
  <2>2. \A q \in Replicas : ~CleaningUp(q)'
    BY <1>0, <1>3 DEF Outside, ListingSteps, At, CleaningUp
  <2>3. clock \in Nat /\ clock # None
    BY NoneAssumption DEF Time
  <2>4. ASSUME NEW k \in Images
        PROVE  /\ Exists(k)' =>
                    /\ born'[k] # None /\ born'[k] <= clock'
                    /\ job'[k].finishTime # None => born'[k] <= job'[k].finishTime + Skew
               /\ born'[k] # None /\ (~Exists(k)' \/ job'[k].terminating) => Elapsed(k)'
    <3>1. CASE k = i
      BY <1>1, <2>1, <2>3, <3>1 DEF Exists
    <3>2. CASE k # i
      BY <1>1, <2>1, <3>2 DEF Aged, Exists, Elapsed
    <3> QED
      BY <3>1, <3>2
  <2> QED
    BY <1>1, <2>2, <2>4 DEF Aged
<1>4. CASE Spawned(r)
  <2>1. task'[r].step = "list_owned"
    BY <1>4 DEF Spawned, Update, Task
  <2> QED
    BY <1>4, <1>a, <2>1 DEF Spawned, CleaningUp, At
<1>5. CASE ListOwnedJobs(r)
  <2>1. UNCHANGED <<job, born>>
    BY <1>5 DEF ListOwnedJobs
  <2>2. CleaningUp(r)' => \A i \in Images : Exists(i) => Elapsed(i)
    <3>1. CleaningUp(r)' => task'[r].step # "patch_status"
      BY DEF CleaningUp, At
    <3> QED
      BY <1>5, <3>1, DueJobsElapsed
  <2> QED
    BY <1>a, <2>1, <2>2
<1>6. CASE ListTerminalJobs(r)
  <2>1. \A i \in Images : Exists(i) => Elapsed(i)
    BY <1>6 DEF ListTerminalJobs, Aged, CleaningUp
  <2> QED
    BY <1>6, <1>a, <2>1 DEF ListTerminalJobs
<1>7. ASSUME NEW i \in Images, At(r, "cleanup"), Delete(i), UNCHANGED born
      PROVE  Aged'
  <2>1. \A k \in Images : Exists(k) => Elapsed(k)
    BY <1>7 DEF Aged, CleaningUp
  <2>2. \A k \in Images : /\ Exists(k)' = Exists(k)
                          /\ Exists(k) => job'[k].finishTime = job[k].finishTime
    BY <1>7, NoJobAssumption DEF Delete, Exists, Job
  <2>3. \A k \in Images : Elapsed(k)' = Elapsed(k)
    BY <1>1, <1>7 DEF Elapsed
  <2>4. \A k \in Images : born'[k] # None => Elapsed(k)'
    BY <1>7, <2>1, <2>3 DEF Aged
  <2> QED
    BY <1>1, <1>7, <2>1, <2>2, <2>3, <2>4 DEF Aged
<1>8. CASE UNCHANGED <<job, born, task>>
  <2>1. CleaningUp(r)' => \A i \in Images : Exists(i) => Elapsed(i)
    BY <1>8 DEF CleaningUp, At, Aged
  <2> QED
    BY <1>8, <1>a, <2>1
<1> QED
  BY <1>2, <1>3, <1>4, <1>5, <1>6, <1>7, <1>8 DEF ReplicaStep

\* No Job goes by its TTL before the interval is over.
LEMMA AgedEnvironmentStep ==
    ASSUME Interval + Skew <= TTL, TypeOK, Aged, Environment
    PROVE  Aged'
<1> USE DEF TypeOK
<1>0. clock \in Nat /\ \A i \in Images : born[i] # None => born[i] \in Nat
  BY DEF Time, OptTime
<1>1. CASE Tick
  <2>1. clock' = clock + 1 /\ UNCHANGED <<job, born, task>>
    BY <1>1 DEF Tick
  <2>2. \A i \in Images : born[i] # None /\ born[i] <= clock => born'[i] <= clock'
    BY <1>0, <2>1
  <2>3. \A i \in Images : born[i] # None /\ Elapsed(i) => Elapsed(i)'
    BY <1>0, <2>1, IntervalAssumption, SkewAssumption DEF Elapsed
  <2>4. \A r \in Replicas : task'[r].now <= clock'
    <3>1. \A r \in Replicas : task[r].now \in Nat
      BY DEF Task, Time
    <3> QED
      BY <1>0, <2>1, <3>1 DEF Aged
  <2> QED
    BY <2>1, <2>2, <2>3, <2>4 DEF Aged, Exists, CleaningUp, At
<1>a. ASSUME UNCHANGED <<clock, born, task>>,
             \A i \in Images : Exists(i)' => Exists(i),
             \A i \in Images : Exists(i)' /\ job'[i].finishTime # job[i].finishTime
                                 => /\ job'[i].finishTime \in Nat
                                    /\ clock <= job'[i].finishTime + Skew,
             \A i \in Images : (~Exists(i)' \/ job'[i].terminating) =>
                                 \/ ~Exists(i) \/ job[i].terminating
                                 \/ Elapsed(i)
      PROVE  Aged'
  <2>1. \A i \in Images : Elapsed(i)' = Elapsed(i)
    BY <1>a DEF Elapsed
  <2>2. \A i \in Images : Exists(i)' =>
          /\ born'[i] # None /\ born'[i] <= clock'
          /\ job'[i].finishTime # None => born'[i] <= job'[i].finishTime + Skew
    BY <1>0, <1>a, SkewAssumption DEF Aged
  <2>3. \A i \in Images : born'[i] # None /\ (~Exists(i)' \/ job'[i].terminating) => Elapsed(i)'
    BY <1>a, <2>1 DEF Aged
  <2>4. \A r \in Replicas : CleaningUp(r)' => \A i \in Images : Exists(i)' => Elapsed(i)'
    BY <1>a, <2>1 DEF Aged, CleaningUp, At
  <2> QED
    BY <1>a, <2>2, <2>3, <2>4 DEF Aged
<1>2. CASE EditSpec \/ \E p \in Pods : PodChanges(p)
  BY <1>2, <1>a DEF EditSpec, PodChanges, cluster, Exists
<1>3. ASSUME NEW i \in Images, ScanPodFails(i) \/ ScanPodSucceeds(i)
      PROVE  Aged'
  BY <1>a, <1>3, ScanPodEnds, NoJobAssumption DEF Exists
<1>4. ASSUME NEW i \in Images, JobFinishes(i)
      PROVE  Aged'
  <2>1. job[i] \in Job /\ Exists(i)
    BY <1>4 DEF JobFinishes, Exists
  <2>2. PICK t \in 0 .. (clock + Skew) :
             clock <= t + Skew /\ job' = [job EXCEPT ![i].finishTime = t]
    BY <1>4 DEF JobFinishes
  <2>3. /\ job'[i].finishTime = t /\ t \in Nat
        /\ job'[i].terminating = job[i].terminating
        /\ \A k \in Images \ {i} : job'[k] = job[k]
        /\ UNCHANGED <<clock, born, task>>
    BY <1>0, <1>4, <2>1, <2>2, SkewAssumption DEF JobFinishes, cluster, Job
  <2>4. \A k \in Images : Exists(k)' /\ job'[k].finishTime # job[k].finishTime
                            => /\ job'[k].finishTime \in Nat
                               /\ clock <= job'[k].finishTime + Skew
    BY <2>2, <2>3
  <2>5. \A k \in Images : /\ Exists(k)' => Exists(k)
                          /\ (~Exists(k)' \/ job'[k].terminating)
                                => ~Exists(k) \/ job[k].terminating \/ Elapsed(k)
    <3>1. job'[i] # NoJob
      BY <2>1, <2>2, <2>3, NoJobAssumption DEF Job, OptTime, Time
    <3> QED
      BY <2>1, <2>3, <3>1 DEF Exists
  <2> QED
    BY <1>a, <2>3, <2>4, <2>5
<1>5. ASSUME NEW i \in Images, JobTTLExpires(i)
      PROVE  Aged'
  <2>1. job[i] \in Job /\ Exists(i)
    BY <1>5 DEF JobTTLExpires, Exists
  <2>2. /\ job'[i].finishTime = job[i].finishTime
        /\ \A k \in Images \ {i} : job'[k] = job[k]
        /\ UNCHANGED <<clock, born, task>>
    BY <1>5, <2>1 DEF JobTTLExpires, Delete, Exists, cluster, Job
  <2>3. Elapsed(i)
    <3>1. job[i].finishTime \in Nat /\ job[i].finishTime + TTL <= clock + Skew
      BY <1>0, <1>5, <2>1, TTLAssumption, SkewAssumption DEF JobTTLExpires, Job, OptTime, Time
    <3>2. born[i] \in Nat /\ born[i] <= job[i].finishTime + Skew
      BY <1>0, <1>5, <2>1 DEF JobTTLExpires, Aged
    <3> QED
      BY <1>0, <3>1, <3>2, IntervalAssumption, TTLAssumption, SkewAssumption DEF Elapsed
  <2> QED
    BY <1>a, <2>1, <2>2, <2>3 DEF Exists
<1>6. ASSUME NEW i \in Images, JobCollected(i)
      PROVE  Aged'
  <2>1. /\ job[i].terminating /\ ~Exists(i)'
        /\ \A k \in Images \ {i} : job'[k] = job[k]
        /\ UNCHANGED <<clock, born, task>>
    BY <1>6 DEF JobCollected, Exists, cluster
  <2> QED
    BY <1>a, <2>1 DEF Exists
<1> QED
  BY <1>1, <1>2, <1>3, <1>4, <1>5, <1>6 DEF Environment, JobController

(* No image is scanned again before its schedule says so (scheduler.rs     *)
(* is_schedule_due, status.rs advance_last): while one replica runs, the   *)
(* schedule is an interval, ttlSecondsAfterFinished is not shorter than    *)
(* the interval and what the clocks differ by, and as long as no scan      *)
(* fails for good, a Job replaces an earlier one of its image only an      *)
(* interval after it.                                                      *)
THEOREM RespawnWaitsForInterval ==
    ASSUME \A q, r \in Replicas : q = r,
           \A s \in Specs : parse_schedule(s.schedule) # "Cron",
           Interval + Skew <= TTL
    PROVE  Spec /\ []NoScanFails => RespawnKeepsCadence
<1> DEFINE Keeps == \A i \in Images : ~Exists(i) /\ job'[i] # NoJob /\ born[i] # None =>
                      clock + Skew >= born[i] + Interval
<1>1. Init => Aged
  <2> SUFFICES ASSUME Init PROVE Aged
    OBVIOUS
  <2>1. \A r \in Replicas : task[r].step = "idle" /\ task[r].now = 0
    BY DEF Init, Blank
  <2>2. clock = 0 /\ \A i \in Images : ~Exists(i) /\ born[i] = None
    BY DEF Init, Exists
  <2> QED
    BY <2>1, <2>2 DEF Aged, At, CleaningUp
<1>2. TypeOK /\ Calm /\ NoScanFails /\ Aged /\ [Next]_vars => Aged'
  <2> SUFFICES ASSUME TypeOK, Calm, NoScanFails, Aged, [Next]_vars PROVE Aged'
    OBVIOUS
  <2>1. CASE \E r \in Replicas : Progress(r) \/ Failure(r) \/ WatchDeliver(r)
    BY <2>1, ReplicaSteps, AgedReplicaStep
  <2>2. CASE Environment
    BY <2>2, AgedEnvironmentStep
  <2>3. CASE UNCHANGED vars
    BY <2>3 DEF vars, Aged, At, CleaningUp, Exists, Elapsed
  <2> QED
    BY <2>1, <2>2, <2>3 DEF Next
<1>3. TypeOK /\ Aged /\ [Next]_vars => [Keeps]_vars
  <2> SUFFICES ASSUME TypeOK, Aged, NEW i \in Images, ~Exists(i), born[i] # None
               PROVE  clock + Skew >= born[i] + Interval
    BY DEF vars
  <2>1. clock \in Nat /\ born[i] \in Nat
    BY DEF TypeOK, OptTime, Time
  <2>2. born[i] + Interval <= clock + Skew
    BY DEF Aged, Elapsed
  <2> QED
    BY <2>1, <2>2, IntervalAssumption, SkewAssumption
<1>4. Spec /\ []NoScanFails => [][Keeps]_vars
  BY <1>1, <1>2, <1>3, CalmIsKept, TypeCorrect, PTL DEF Spec
<1> QED
  BY <1>4 DEF RespawnKeepsCadence
=============================================================================
