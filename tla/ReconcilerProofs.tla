--------------------------- MODULE ReconcilerProofs ---------------------------
(***************************************************************************)
(* Proofs about Reconciler for every value of its constants: the types,    *)
(* that no Job in progress is deleted while one replica runs, and that the *)
(* schedule's anchor covers the recorded entries.                          *)
(***************************************************************************)
EXTENDS ReconcilerProperties, TLAPS, FiniteSetTheorems, WellFoundedInduction

(***************************************************************************)
(* A non-empty finite set of naturals has a maximum.                       *)
(***************************************************************************)
HasMax(S) == \E m \in S : \A n \in S : m >= n

\* A smallest finite set without a maximum would lose it with one element.
LEMMA FiniteSetHasMax ==
    ASSUME NEW S \in SUBSET Nat, IsFiniteSet(S), S # {}
    PROVE  HasMax(S)
<1> DEFINE Bad(A) == IsFiniteSet(A) /\ A # {} /\ ~HasMax(A)
           T == {n \in Nat : \E A \in SUBSET Nat : Bad(A) /\ Cardinality(A) = n}
<1>1. SUFFICES ASSUME Bad(S) PROVE FALSE
  OBVIOUS
<1>2. T \subseteq Nat /\ T # {}
  BY <1>1, FS_CardinalityType
<1>3. PICK n \in T : \A k \in T : ~(k < n)
  <2> HIDE DEF T
  <2>1. PICK n \in T : \A k \in T : ~(<<k, n>> \in OpToRel(<, Nat))
    BY <1>2, NatLessThanWellFounded, WFMin
  <2> QED
    BY <1>2, <2>1 DEF OpToRel
<1>4. PICK A \in SUBSET Nat : Bad(A) /\ Cardinality(A) = n
  BY <1>3
<1>5. PICK x \in A : TRUE
  BY <1>4
<1>6. IsFiniteSet(A \ {x}) /\ Cardinality(A \ {x}) = n - 1 /\ n \in Nat
  BY <1>3, <1>4, <1>5, FS_RemoveElement
<1>7. n - 1 \in Nat
  BY <1>6, FS_CardinalityType
<1>8. CASE A \ {x} = {}
  <2>1. A = {x}
    BY <1>5, <1>8
  <2> QED
    BY <1>4, <2>1 DEF HasMax
<1>9. CASE A \ {x} # {}
  <2>1. HasMax(A \ {x})
    <3>1. SUFFICES ASSUME ~HasMax(A \ {x}) PROVE FALSE
      OBVIOUS
    <3>2. n - 1 \in T
      <4>1. A \ {x} \in SUBSET Nat
        OBVIOUS
      <4> QED
        BY <1>6, <1>7, <1>9, <3>1, <4>1
    <3> QED
      BY <1>3, <1>6, <1>7, <3>2
  <2>2. PICK m \in A \ {x} : \A k \in A \ {x} : m >= k
    BY <2>1 DEF HasMax
  <2>3. m \in Nat /\ x \in Nat
    BY <1>4, <1>5, <2>2
  <2>4. CASE m >= x
    <3>1. m \in A /\ \A k \in A : m >= k
      BY <2>2, <2>4
    <3> QED
      BY <1>4, <3>1 DEF HasMax
  <2>5. CASE x >= m
    <3>1. \A k \in A : x >= k
      <4> TAKE k \in A
      <4>1. k \in Nat
        BY <1>4
      <4>2. CASE k = x
        BY <4>1, <4>2
      <4>3. CASE k # x
        BY <2>2, <2>3, <2>5, <4>1, <4>3
      <4> QED
        BY <4>2, <4>3
    <3> QED
      BY <1>4, <1>5, <3>1 DEF HasMax
  <2> QED
    BY <2>3, <2>4, <2>5
<1> QED
  BY <1>8, <1>9

-----------------------------------------------------------------------------
(***************************************************************************)
(* Types of the operators.                                                 *)
(***************************************************************************)

LEMMA NoStatusType == NoStatus \in Status
BY DEF NoStatus, Status, Reasons, OptTime

LEMMA FreshJobType == build_scan_job \in Job
BY BackoffLimitAssumption DEF build_scan_job, Job, OptTime

LEMMA WithReasonType ==
    ASSUME NEW base \in Status, NEW existing \in Status,
           NEW reason \in Reasons, NEW now \in Time
    PROVE  WithReason(base, existing, reason, now) \in Status
BY DEF WithReason, last_transition_time, Status, OptTime

LEMMA DesiredStatusType ==
    ASSUME NEW spec, NEW now \in Time, NEW existing \in Status
    PROVE  desired_status(spec, now, existing) \in Status
<1>1. (IF SpecIsValid(spec) THEN "NotYetReconciled" ELSE "InvalidSpec") \in Reasons
  BY DEF Reasons
<1> QED
  BY <1>1, WithReasonType DEF desired_status

\* The entries of a listing are times no later than now.
LEMMA ScannedImagesType ==
    ASSUME NEW current \in Time,
           NEW owned \in [Images -> Job \cup {NoJob}]
    PROVE  scanned_images(owned, current) \in [Images -> OptTime]
BY DEF scanned_images, completed_at, Job, OptTime

LEMMA MergeScannedType ==
    ASSUME NEW existing \in [Images -> OptTime], NEW newly \in [Images -> OptTime]
    PROVE  merge_scanned_images_append_only(existing, newly) \in [Images -> OptTime]
BY DEF merge_scanned_images_append_only

\* advance_last returns the latest of the old value and the new entries.
LEMMA AdvanceLast ==
    ASSUME NEW last \in OptTime, NEW newly \in [Images -> OptTime]
    PROVE  /\ advance_last(last, newly) \in OptTime
           /\ last # None => /\ advance_last(last, newly) # None
                             /\ last <= advance_last(last, newly)
           /\ \A i \in Images : newly[i] # None =>
                /\ advance_last(last, newly) # None
                /\ newly[i] <= advance_last(last, newly)
           /\ \/ advance_last(last, newly) = last
              \/ \E i \in Images : newly[i] # None /\ advance_last(last, newly) = newly[i]
<1> DEFINE new == {newly[i] : i \in Images}
           times == ({last} \cup new) \ {None}
<1>1. IsFiniteSet(new)
  <2>1. newly \in Surjection(Images, new)
    BY DEF Surjection
  <2> QED
    BY <2>1, FiniteImages, FS_Surjection
<1>2. IsFiniteSet({last} \cup new)
  BY <1>1, FS_Singleton, FS_Union
<1>3. IsFiniteSet(times)
  BY <1>2, FS_Difference
<1>4. times \in SUBSET Nat
  BY DEF OptTime, Time
<1>5. advance_last(last, newly) = IF times = {} THEN None ELSE Max(times)
  BY DEF advance_last
<1>6. CASE times = {}
  <2>1. last = None /\ \A i \in Images : newly[i] = None
    BY <1>6
  <2> QED
    BY <1>5, <1>6, <2>1 DEF OptTime
<1>7. CASE times # {}
  <2>1. PICK m \in times : \A n \in times : m >= n
    <3> HIDE DEF times
    <3> QED
      BY <1>3, <1>4, <1>7, FiniteSetHasMax DEF HasMax
  <2>2. Max(times) \in times /\ \A n \in times : Max(times) >= n
    <3> HIDE DEF times
    <3> QED
      BY <2>1 DEF Max
  <2>3. advance_last(last, newly) = Max(times)
    BY <1>5, <1>7
  <2>4. Max(times) \in Nat /\ Max(times) # None
    BY <1>4, <2>2, NoneAssumption DEF Time
  <2>5. \A n \in times : n <= Max(times)
    <3> HIDE DEF times
    <3> QED
      BY <1>4, <2>2, <2>4
  <2>6. last # None => last \in times
    OBVIOUS
  <2>7. \A i \in Images : newly[i] # None => newly[i] \in times
    OBVIOUS
  <2>8. \A t \in times : t = last \/ \E i \in Images : newly[i] # None /\ t = newly[i]
    OBVIOUS
  <2> HIDE DEF times
  <2>9. \/ Max(times) = last
        \/ \E i \in Images : newly[i] # None /\ Max(times) = newly[i]
    BY <2>2, <2>8
  <2> QED
    BY <2>3, <2>4, <2>5, <2>6, <2>7, <2>9 DEF OptTime, Time
<1> QED
  BY <1>6, <1>7

LEMMA AggregatedType ==
    ASSUME NEW base \in Status, NEW existing \in Status,
           NEW current \in Time, NEW now \in Time,
           NEW owned \in [Images -> Job \cup {NoJob}]
    PROVE  status_with_aggregated_outcome(base, existing, owned, current, now) \in Status
<1> DEFINE newly == scanned_images(owned, current)
           outcome == aggregate_job_outcomes(owned)
<1>1. "ScanCompleted" \in Reasons /\ "ScanFailed" \in Reasons
  BY DEF Reasons, Terminal
<1>2. base.scanned \in [Images -> OptTime] /\ base.last \in OptTime
  BY DEF Status
<1>3. newly \in [Images -> OptTime]
  BY ScannedImagesType
<1>4. merge_scanned_images_append_only(base.scanned, newly) \in [Images -> OptTime]
  BY <1>2, <1>3, MergeScannedType
<1>5. advance_last(base.last, newly) \in OptTime
  BY <1>2, <1>3, AdvanceLast
<1>6. /\ WithReason(base, existing, "ScanCompleted", now) \in Status
      /\ WithReason(base, existing, "ScanFailed", now) \in Status
  BY <1>1, WithReasonType
<1>7. CASE outcome = "AllSucceeded"
  <2>1. status_with_aggregated_outcome(base, existing, owned, current, now) =
          [WithReason(base, existing, "ScanCompleted", now) EXCEPT
             !.scanned = merge_scanned_images_append_only(base.scanned, newly),
             !.last    = advance_last(base.last, newly)]
    BY <1>7 DEF status_with_aggregated_outcome
  <2> QED
    BY <1>4, <1>5, <1>6, <2>1 DEF Status
<1>8. CASE outcome = "AnyFailed"
  <2>1. status_with_aggregated_outcome(base, existing, owned, current, now) =
          WithReason(base, existing, "ScanFailed", now)
    BY <1>8 DEF status_with_aggregated_outcome
  <2> QED
    BY <1>6, <2>1
<1>9. CASE outcome \notin {"AllSucceeded", "AnyFailed"}
  BY <1>9 DEF status_with_aggregated_outcome
<1> QED
  BY <1>7, <1>8, <1>9

LEMMA ScheduleDecisionType ==
    ASSUME NEW spec, NEW status \in Status
    PROVE  schedule_decision(spec, status) \in Time
<1>1. anchor(status) \in Nat
  BY DEF anchor, Status, OptTime, Time
<1>2. anchor(status) \div CronPeriod \in Nat
  BY <1>1, CronPeriodAssumption
<1>3. CronPeriod * ((anchor(status) \div CronPeriod) + 1) \in Nat
  BY <1>2, CronPeriodAssumption
<1> QED
  BY <1>1, <1>3, IntervalAssumption, JitterAssumption
     DEF schedule_decision, compute_next_scheduled_time, Time

LEMMA MergePatchType ==
    ASSUME NEW stored \in Status, NEW patch \in Status
    PROVE  merge_patch(stored, patch) \in Status
BY DEF merge_patch, Status, OptTime

LEMMA BlankType ==
    ASSUME NEW step \in Steps
    PROVE  Blank(step) \in Task
<1>1. (CHOOSE s \in Specs : TRUE) \in Specs
  BY SpecsAssumption
<1>2. [spec |-> CHOOSE s \in Specs : TRUE, status |-> NoStatus] \in Cr
  BY <1>1, NoStatusType DEF Cr
<1> HIDE DEF Steps, Cr
<1> QED
  BY <1>2, NoStatusType DEF Blank, Task, Time

-----------------------------------------------------------------------------
\* Every variable keeps its type.
THEOREM TypeCorrect == Spec => []TypeOK
<1>1. Init => TypeOK
  <2> SUFFICES ASSUME Init PROVE TypeOK
    OBVIOUS
  <2>1. cr \in Cr
    BY NoStatusType DEF Init, Cr
  <2>2. task \in [Replicas -> Task]
    <3>1. Blank("idle") \in Task
      BY BlankType DEF Steps
    <3> QED
      BY <3>1 DEF Init
  <2> QED
    BY <2>1, <2>2, BoundsAssumption DEF Init, TypeOK, OptTime, Time, Budget
<1>2. TypeOK /\ [Next]_vars => TypeOK'
  <2> SUFFICES ASSUME TypeOK, [Next]_vars PROVE TypeOK'
    OBVIOUS
  <2> USE DEF TypeOK
  <2>0. /\ \A r \in Replicas : /\ task[r] \in Task
                               /\ task[r].obj \in Cr
                               /\ task[r].obj.status \in Status
                               /\ task[r].new \in Status
                               /\ task[r].now \in Time
        /\ cr.status \in Status
    BY DEF Task, Cr
  <2>u. ASSUME NEW r \in Replicas, NEW t \in Task, Update(r, t)
        PROVE  task' \in [Replicas -> Task]
    BY <2>u DEF Update
  <2>a. ASSUME NEW r \in Replicas, NEW result \in Reasons
        PROVE  Orchestrated(r, result) \in Status
    BY <2>0, WithReasonType DEF Orchestrated, status_with_orchestration_result
  <2>b. ASSUME NEW r \in Replicas, NEW status \in Status, PatchNext(r, status)
        PROVE  task' \in [Replicas -> Task]
    <3>1. [task[r] EXCEPT !.step = "patch_status", !.new = status] \in Task
      BY DEF Task, Steps
    <3> QED
      BY <2>b, <2>u, <3>1 DEF PatchNext
  <2>c. ASSUME NEW r \in Replicas, Return(r)
        PROVE  task' \in [Replicas -> Task]
    BY <2>c, <2>u, BlankType DEF Return, Steps
  <2>d. ASSUME Fault
        PROVE  budget' \in Budget
    BY <2>d DEF Fault, Budget
  <2>e. ASSUME NEW i \in Images, Create(i)
        PROVE  /\ job' \in [Images -> Job \cup {NoJob}]
               /\ born' \in [Images -> OptTime]
    BY <2>e, FreshJobType DEF Create, OptTime
  <2>f. ASSUME NEW i \in Images, Delete(i)
        PROVE  job' \in [Images -> Job \cup {NoJob}]
    BY <2>f DEF Delete, Job
  <2>g. ASSUME NEW r \in Replicas, ApplyPatch(r)
        PROVE  cr' \in Cr
    <3>1. merge_patch(cr.status, task[r].new) \in Status
      BY <2>0, MergePatchType
    <3> QED
      BY <2>g, <3>1 DEF ApplyPatch, Cr
  <2>1. ASSUME NEW r \in Replicas, Begin(r)
        PROVE  TypeOK'
    <3> DEFINE obj == IF StaleCache THEN cache[r] ELSE cr
               base == desired_status(obj.spec, clock, obj.status)
    <3>1. obj \in Cr /\ obj.status \in Status /\ obj.spec \in Specs
      BY DEF Cr
    <3>2. base \in Status
      BY <3>1, DesiredStatusType
    <3>3. obj.spec.namespaces \in SUBSET Namespaces
      BY <3>1, SpecsAssumption DEF ScanSpec
    <3> DEFINE t == [task[r] EXCEPT !.step   = IF base.reason = "InvalidSpec"
                                               THEN "patch_status" ELSE "list_pods",
                                    !.obj    = obj,
                                    !.now    = clock,
                                    !.nsLeft = IF base.reason = "InvalidSpec"
                                               THEN {} ELSE obj.spec.namespaces,
                                    !.new    = base]
    <3>4. t \in Task
      <4> HIDE DEF obj, base
      <4> QED
        BY <2>0, <3>1, <3>2, <3>3 DEF Task, Steps
    <3>5. task' \in [Replicas -> Task]
      <4>1. Update(r, t)
        BY <2>1 DEF Begin
      <4> HIDE DEF t
      <4> QED
        BY <2>u, <3>4, <4>1
    <3> QED
      BY <2>1, <3>5 DEF Begin, cluster
  <2>2. ASSUME NEW r \in Replicas, NEW ns \in Namespaces, ListPods(r, ns)
        PROVE  TypeOK'
    <3>1. collect_images(ns) \subseteq Images
      BY PodsAssumption DEF collect_images
    <3>2. task' \in [Replicas -> Task]
      <4>1. [task[r] EXCEPT !.nsLeft = @ \ {ns},
                            !.images = @ \cup collect_images(ns)] \in Task
        BY <3>1 DEF Task
      <4> QED
        BY <2>2, <2>u, <4>1 DEF ListPods
    <3> QED
      BY <2>2, <3>2 DEF ListPods, cluster
  <2>3. ASSUME NEW r \in Replicas, ListPodsDenied(r)
        PROVE  TypeOK'
    <3>1. task' \in [Replicas -> Task]
      BY <2>a, <2>b, <2>3 DEF ListPodsDenied, Reasons
    <3> QED
      BY <2>3, <2>d, <3>1 DEF ListPodsDenied, cluster
  <2>4. ASSUME NEW r \in Replicas, CollectImages(r)
        PROVE  TypeOK'
    <3>1. CASE task[r].images = {}
      <4>1. PatchNext(r, Orchestrated(r, "NoImagesInScope"))
        BY <2>4, <3>1 DEF CollectImages
      <4>2. task' \in [Replicas -> Task]
        BY <2>a, <2>b, <4>1 DEF Reasons
      <4> QED
        BY <2>4, <4>2 DEF CollectImages, cluster
    <3>2. CASE task[r].images # {}
      <4>1. task' \in [Replicas -> Task]
        <5>1. [task[r] EXCEPT !.step = "ensure_jobs", !.todo = task[r].images] \in Task
          BY DEF Task, Steps
        <5> QED
          BY <2>4, <2>u, <3>2, <5>1 DEF CollectImages
      <4> QED
        BY <2>4, <4>1 DEF CollectImages, cluster
    <3> QED
      BY <3>1, <3>2
  <2>5. ASSUME NEW r \in Replicas, BuildFails(r)
        PROVE  TypeOK'
    <3>1. task' \in [Replicas -> Task]
      BY <2>a, <2>b, <2>5 DEF BuildFails, Reasons
    <3> QED
      BY <2>5, <3>1 DEF BuildFails, cluster
  <2>6. ASSUME NEW r \in Replicas, NEW i \in Images, CreateJob(r, i)
        PROVE  TypeOK'
    <3>1. task' \in [Replicas -> Task]
      <4>1. [task[r] EXCEPT !.todo = @ \ {i}] \in Task
        BY DEF Task
      <4> QED
        BY <2>6, <2>u, <4>1 DEF CreateJob
    <3> QED
      BY <2>6, <2>e, <3>1 DEF CreateJob, cluster
  <2>7. ASSUME NEW r \in Replicas, NEW i \in Images, CreateJobDenied(r, i)
        PROVE  TypeOK'
    <3>1. task' \in [Replicas -> Task]
      BY <2>a, <2>b, <2>7 DEF CreateJobDenied, Reasons
    <3> QED
      BY <2>7, <2>d, <2>e, <3>1 DEF CreateJobDenied, cluster
  <2>8. ASSUME NEW r \in Replicas, Spawned(r)
        PROVE  TypeOK'
    <3>1. Orchestrated(r, "Scanning") \in Status
      BY <2>a DEF Reasons
    <3>2. task' \in [Replicas -> Task]
      <4>1. [task[r] EXCEPT !.step = "list_owned",
                            !.new  = Orchestrated(r, "Scanning")] \in Task
        BY <3>1 DEF Task, Steps
      <4> QED
        BY <2>8, <2>u, <4>1 DEF Spawned
    <3> QED
      BY <2>8, <3>2 DEF Spawned, cluster
  <2>9. ASSUME NEW r \in Replicas, ListOwnedJobs(r)
        PROVE  TypeOK'
    <3> DEFINE t    == task[r]
               stat == status_with_aggregated_outcome(t.new, t.obj.status, job, clock, t.now)
               next == schedule_decision(t.obj.spec, stat)
    <3>1. stat \in Status
      BY <2>0, AggregatedType
    <3>2. next \in Time
      BY <3>1, ScheduleDecisionType
    <3>3. [stat EXCEPT !.next = next] \in Status
      <4> HIDE DEF stat, next
      <4> QED
        BY <3>1, <3>2 DEF Status, OptTime
    <3>4. CASE stat.reason \in Terminal
      <4> DEFINE u == [t EXCEPT !.step = IF is_schedule_due(next, t.now)
                                         THEN "relist" ELSE "patch_status",
                                !.new  = [stat EXCEPT !.next = next]]
      <4>1. Update(r, u)
        BY <2>9, <3>4 DEF ListOwnedJobs
      <4>2. task' \in [Replicas -> Task]
        <5>1. u \in Task
          <6> HIDE DEF stat, next
          <6> QED
            BY <3>3 DEF Task, Steps
        <5> HIDE DEF u
        <5> QED
          BY <2>u, <4>1, <5>1
      <4> QED
        BY <2>9, <4>2 DEF ListOwnedJobs, cluster
    <3>5. CASE stat.reason \notin Terminal
      <4>1. PatchNext(r, stat)
        BY <2>9, <3>5 DEF ListOwnedJobs
      <4>2. task' \in [Replicas -> Task]
        BY <2>b, <3>1, <4>1
      <4> QED
        BY <2>9, <4>2 DEF ListOwnedJobs, cluster
    <3> QED
      BY <3>4, <3>5
  <2>10. ASSUME NEW r \in Replicas, ListTerminalJobs(r)
         PROVE  TypeOK'
    <3>1. TerminalJobs \subseteq Images
      BY DEF TerminalJobs
    <3>2. task' \in [Replicas -> Task]
      <4>1. [task[r] EXCEPT !.step = IF TerminalJobs = {} THEN "patch_status" ELSE "cleanup",
                            !.dels = TerminalJobs] \in Task
        BY <3>1 DEF Task, Steps
      <4> QED
        BY <2>10, <2>u, <4>1 DEF ListTerminalJobs
    <3> QED
      BY <2>10, <3>2 DEF ListTerminalJobs, cluster
  <2>11. ASSUME NEW r \in Replicas, ListJobsError(r)
         PROVE  TypeOK'
    BY <2>11, <2>c, <2>d DEF ListJobsError, cluster
  <2>12. ASSUME NEW r \in Replicas, NEW i \in Images, DeleteJob(r, i)
         PROVE  TypeOK'
    <3>1. task' \in [Replicas -> Task]
      <4>1. [task[r] EXCEPT !.dels = @ \ {i},
                            !.step = IF task[r].dels = {i}
                                     THEN "patch_status" ELSE "cleanup"] \in Task
        BY DEF Task, Steps
      <4> QED
        BY <2>12, <2>u, <4>1 DEF DeleteJob
    <3> QED
      BY <2>12, <2>f, <3>1 DEF DeleteJob, cluster
  <2>13. ASSUME NEW r \in Replicas, NEW i \in Images, DeleteJobError(r, i)
         PROVE  TypeOK'
    BY <2>13, <2>c, <2>d, <2>f DEF DeleteJobError, cluster
  <2>14. ASSUME NEW r \in Replicas, PatchStatus(r)
         PROVE  TypeOK'
    BY <2>14, <2>c, <2>g DEF PatchStatus, cluster
  <2>15. ASSUME NEW r \in Replicas, PatchStatusError(r)
         PROVE  TypeOK'
    BY <2>15, <2>c, <2>d, <2>g DEF PatchStatusError, cluster
  <2>16. ASSUME NEW r \in Replicas, WatchDeliver(r) \/ Crash(r) \/ Restart(r)
         PROVE  TypeOK'
    <3>1. CASE WatchDeliver(r)
      BY <3>1 DEF WatchDeliver, cluster
    <3>2. CASE Crash(r)
      <4>1. task' \in [Replicas -> Task]
        BY <3>2, <2>u, BlankType DEF Crash, Steps
      <4> QED
        BY <3>2, <2>d, <4>1 DEF Crash, cluster
    <3>3. CASE Restart(r)
      BY <3>3, <2>c DEF Restart, cluster
    <3> QED
      BY <2>16, <3>1, <3>2, <3>3
  <2>17. CASE Tick
    BY <2>17 DEF Tick, Time
  <2>18. ASSUME NEW p \in Pods, PodChanges(p)
         PROVE  TypeOK'
    BY <2>18 DEF PodChanges, Edit, Budget
  <2>19. CASE EditSpec
    <3>1. cr' \in Cr /\ budget' \in Budget
      BY <2>19 DEF EditSpec, Edit, Cr, Budget
    <3> QED
      BY <2>19, <3>1 DEF EditSpec, cluster
  <2>20. ASSUME NEW i \in Images, ScanPodFails(i)
         PROVE  TypeOK'
    <3>1. job' \in [Images -> Job \cup {NoJob}]
      BY <2>20, BackoffLimitAssumption
         DEF ScanPodFails, InProgress, Exists, should_delete_job, is_job_finally_failed, Job
    <3>2. budget' \in Budget
      BY <2>20 DEF ScanPodFails, Budget
    <3> QED
      BY <2>20, <3>1, <3>2 DEF ScanPodFails, cluster
  <2>21. ASSUME NEW i \in Images, JobTTLExpires(i)
         PROVE  TypeOK'
    BY <2>21, <2>f DEF JobTTLExpires, cluster
  <2>22. ASSUME NEW i \in Images, JobController(i)
         PROVE  TypeOK'
    <3>1. CASE ScanPodSucceeds(i)
      <4>1. job' \in [Images -> Job \cup {NoJob}]
        BY <3>1 DEF ScanPodSucceeds, InProgress, Exists, Job
      <4> QED
        BY <3>1, <4>1 DEF ScanPodSucceeds, cluster
    <3>2. CASE JobFinishes(i)
      <4>1. PICK t \in 0 .. (clock + Skew) : job' = [job EXCEPT ![i].finishTime = t]
        BY <3>2 DEF JobFinishes
      <4>2. t \in OptTime /\ job[i] \in Job
        BY <3>2, SkewAssumption DEF JobFinishes, Exists, OptTime, Time
      <4>3. job' \in [Images -> Job \cup {NoJob}]
        BY <4>1, <4>2 DEF Job
      <4> QED
        BY <3>2, <4>3 DEF JobFinishes, cluster
    <3>3. CASE JobCollected(i)
      BY <3>3 DEF JobCollected, cluster
    <3> QED
      BY <2>22, <3>1, <3>2, <3>3 DEF JobController
  <2>23. CASE UNCHANGED vars
    BY <2>23 DEF vars
  <2> QED
    BY <2>1, <2>2, <2>3, <2>4, <2>5, <2>6, <2>7, <2>8, <2>9, <2>10, <2>11, <2>12,
       <2>13, <2>14, <2>15, <2>16, <2>17, <2>18, <2>19, <2>20, <2>21, <2>22, <2>23
       DEF Next, Progress, Failure, Environment
<1> QED
  BY <1>1, <1>2, PTL DEF Spec

-----------------------------------------------------------------------------
(***************************************************************************)
(* Which Jobs may be deleted.  The clean-up acts on a listing read before: *)
(* that is safe because nothing but a creation makes a Job in progress,    *)
(* and the only replica does not create Jobs while it cleans up.           *)
(***************************************************************************)
SafeToDelete ==
    /\ \A r \in Replicas : At(r, "cleanup") => \A i \in task[r].dels : ~InProgress(i)
    /\ \A i \in Images : Exists(i) /\ job[i].finishTime # None => should_delete_job(job[i])

\* Only a creation makes a Job in progress, and nothing revives an outcome.
LEMMA DeleteEndsJob ==
    ASSUME TypeOK, NEW i \in Images, Delete(i)
    PROVE  /\ \A k \in Images : ~InProgress(k) => ~InProgress(k)'
           /\ \A k \in Images : /\ Exists(k)' => Exists(k)
                                /\ Exists(k)' => job'[k].finishTime = job[k].finishTime
                                /\ Exists(k)' => (should_delete_job(job[k])' <=> should_delete_job(job[k]))
           /\ \A k \in Images \ {i} : job'[k] = job[k]
BY NoJobAssumption DEF TypeOK, Delete, InProgress, Exists, Job, should_delete_job,
       is_job_succeeded, is_job_finally_failed

\* With one replica the listing of a clean-up in flight stays good.
LEMMA SafeToDeleteStep ==
    ASSUME \A q, r \in Replicas : q = r, TypeOK, SafeToDelete, [Next]_vars
    PROVE  SafeToDelete'
<1> USE DEF TypeOK
<1>a. ASSUME NEW r \in Replicas, NEW t, Update(r, t), t.step # "cleanup"
      PROVE  \A q \in Replicas : ~At(q, "cleanup")'
  BY <1>a DEF Update, At
<1>b. ASSUME NEW r \in Replicas, NEW status, PatchNext(r, status)
      PROVE  \A q \in Replicas : ~At(q, "cleanup")'
  <2>1. [task[r] EXCEPT !.step = "patch_status", !.new = status].step = "patch_status"
    BY DEF Task
  <2> QED
    BY <1>a, <1>b, <2>1 DEF PatchNext
<1>c. ASSUME NEW r \in Replicas, NEW step \in Steps \ {"cleanup"}, Update(r, Blank(step))
      PROVE  \A q \in Replicas : ~At(q, "cleanup")'
  BY <1>a, <1>c DEF Blank
<1>d. ASSUME \A q \in Replicas : ~At(q, "cleanup")', UNCHANGED job
      PROVE  SafeToDelete'
  BY <1>d DEF SafeToDelete, Exists, should_delete_job, is_job_succeeded, is_job_finally_failed
<1>e. ASSUME NEW i \in Images, Create(i), \A q \in Replicas : ~At(q, "cleanup")'
      PROVE  SafeToDelete'
  BY <1>e, FreshJobType
     DEF SafeToDelete, Create, Exists, build_scan_job, should_delete_job,
         is_job_succeeded, is_job_finally_failed
<1>f. ASSUME UNCHANGED task, NEW i \in Images,
             ~InProgress(i)', \A k \in Images \ {i} : job'[k] = job[k]
      PROVE  \A r \in Replicas : At(r, "cleanup")' => \A k \in task'[r].dels : ~InProgress(k)'
  BY <1>f DEF SafeToDelete, At, InProgress, Exists, Task, should_delete_job,
              is_job_succeeded, is_job_finally_failed
<1>1. ASSUME NEW r \in Replicas, Begin(r)
      PROVE  SafeToDelete'
  <2> DEFINE obj  == IF StaleCache THEN cache[r] ELSE cr
             base == desired_status(obj.spec, clock, obj.status)
             t == [task[r] EXCEPT !.step   = IF base.reason = "InvalidSpec"
                                             THEN "patch_status" ELSE "list_pods",
                                  !.obj    = obj,
                                  !.now    = clock,
                                  !.nsLeft = IF base.reason = "InvalidSpec"
                                             THEN {} ELSE obj.spec.namespaces,
                                  !.new    = base]
  <2>1. Update(r, t) /\ UNCHANGED job
    BY <1>1 DEF Begin
  <2>2. t.step # "cleanup"
    <3> HIDE DEF obj, base
    <3> QED
      BY DEF Task
  <2> HIDE DEF t
  <2> QED
    BY <1>a, <1>d, <2>1, <2>2
<1>2. ASSUME NEW r \in Replicas, NEW ns \in Namespaces, ListPods(r, ns)
      PROVE  SafeToDelete'
  <2>1. [task[r] EXCEPT !.nsLeft = @ \ {ns},
                        !.images = @ \cup collect_images(ns)].step # "cleanup"
    BY <1>2 DEF ListPods, At, Task
  <2> QED
    BY <1>2, <1>a, <1>d, <2>1 DEF ListPods
<1>3. ASSUME NEW r \in Replicas, ListPodsDenied(r)
      PROVE  SafeToDelete'
  BY <1>3, <1>b, <1>d DEF ListPodsDenied
<1>4. ASSUME NEW r \in Replicas, CollectImages(r)
      PROVE  SafeToDelete'
  <2>1. CASE task[r].images = {}
    BY <1>4, <1>b, <1>d, <2>1 DEF CollectImages
  <2>2. CASE task[r].images # {}
    <3>1. [task[r] EXCEPT !.step = "ensure_jobs", !.todo = task[r].images].step # "cleanup"
      BY DEF Task
    <3> QED
      BY <1>4, <1>a, <1>d, <2>2, <3>1 DEF CollectImages
  <2> QED
    BY <2>1, <2>2
<1>5. ASSUME NEW r \in Replicas, BuildFails(r)
      PROVE  SafeToDelete'
  BY <1>5, <1>b, <1>d DEF BuildFails
<1>6. ASSUME NEW r \in Replicas, NEW i \in Images, CreateJob(r, i)
      PROVE  SafeToDelete'
  <2>1. [task[r] EXCEPT !.todo = @ \ {i}].step # "cleanup"
    BY <1>6 DEF CreateJob, At, Task
  <2>2. \A q \in Replicas : ~At(q, "cleanup")'
    BY <1>6, <1>a, <2>1 DEF CreateJob
  <2> QED
    BY <1>6, <1>d, <1>e, <2>2 DEF CreateJob
<1>7. ASSUME NEW r \in Replicas, NEW i \in Images, CreateJobDenied(r, i)
      PROVE  SafeToDelete'
  <2>1. \A q \in Replicas : ~At(q, "cleanup")'
    BY <1>7, <1>b DEF CreateJobDenied
  <2> QED
    BY <1>7, <1>d, <1>e, <2>1 DEF CreateJobDenied
<1>8. ASSUME NEW r \in Replicas, Spawned(r)
      PROVE  SafeToDelete'
  <2>1. [task[r] EXCEPT !.step = "list_owned",
                        !.new  = Orchestrated(r, "Scanning")].step # "cleanup"
    BY DEF Task
  <2> QED
    BY <1>8, <1>a, <1>d, <2>1 DEF Spawned
<1>9. ASSUME NEW r \in Replicas, ListOwnedJobs(r)
      PROVE  SafeToDelete'
  <2> DEFINE t    == task[r]
             stat == status_with_aggregated_outcome(t.new, t.obj.status, job, clock, t.now)
             next == schedule_decision(t.obj.spec, stat)
             u == [t EXCEPT !.step = IF is_schedule_due(next, t.now)
                                     THEN "relist" ELSE "patch_status",
                            !.new  = [stat EXCEPT !.next = next]]
  <2>1. Update(r, u) \/ PatchNext(r, stat)
    BY <1>9 DEF ListOwnedJobs
  <2>2. u.step # "cleanup"
    <3> HIDE DEF stat, next
    <3> QED
      BY DEF Task
  <2>3. UNCHANGED job
    BY <1>9 DEF ListOwnedJobs
  <2> HIDE DEF u, stat
  <2> QED
    BY <1>a, <1>b, <1>d, <2>1, <2>2, <2>3
<1>10. ASSUME NEW r \in Replicas, ListTerminalJobs(r)
       PROVE  SafeToDelete'
  <2>1. \A q \in Replicas : task'[q].dels = TerminalJobs
    BY <1>10 DEF ListTerminalJobs, Update, Task
  <2>2. UNCHANGED job
    BY <1>10 DEF ListTerminalJobs
  <2> QED
    BY <2>1, <2>2 DEF SafeToDelete, TerminalJobs, InProgress, Exists, should_delete_job,
                      is_job_succeeded, is_job_finally_failed
<1>11. ASSUME NEW r \in Replicas, ListJobsError(r)
       PROVE  SafeToDelete'
  BY <1>11, <1>c, <1>d DEF ListJobsError, Return, Steps
<1>12. ASSUME NEW r \in Replicas, NEW i \in Images, DeleteJob(r, i)
       PROVE  SafeToDelete'
  <2>1. \A q \in Replicas : At(q, "cleanup") /\ task'[q].dels \subseteq task[q].dels
    BY <1>12 DEF DeleteJob, At, Update, Task
  <2>2. Delete(i)
    BY <1>12 DEF DeleteJob
  <2>3. \A q \in Replicas : task[q].dels \subseteq Images
    BY DEF Task
  <2> QED
    BY <2>1, <2>2, <2>3, DeleteEndsJob DEF SafeToDelete
<1>13. ASSUME NEW r \in Replicas, NEW i \in Images, DeleteJobError(r, i)
       PROVE  SafeToDelete'
  <2>1. \A q \in Replicas : ~At(q, "cleanup")'
    BY <1>13, <1>c DEF DeleteJobError, Return, Steps
  <2>2. CASE Delete(i)
    BY <2>1, <2>2, DeleteEndsJob DEF SafeToDelete
  <2>3. CASE UNCHANGED job
    BY <1>d, <2>1, <2>3
  <2> QED
    BY <1>13, <2>2, <2>3 DEF DeleteJobError
<1>14. ASSUME NEW r \in Replicas, PatchStatus(r) \/ PatchStatusError(r) \/ Crash(r) \/ Restart(r)
       PROVE  SafeToDelete'
  BY <1>14, <1>c, <1>d DEF PatchStatus, PatchStatusError, Crash, Restart, Return, Steps
<1>15. ASSUME UNCHANGED <<task, job>>
       PROVE  SafeToDelete'
  BY <1>15 DEF SafeToDelete, At, InProgress, Exists, should_delete_job,
               is_job_succeeded, is_job_finally_failed
<1>16. ASSUME NEW i \in Images, ScanPodFails(i) \/ ScanPodSucceeds(i)
       PROVE  SafeToDelete'
  <2>1. UNCHANGED task /\ InProgress(i) /\ job[i] \in Job
    BY <1>16 DEF ScanPodFails, ScanPodSucceeds, InProgress, Exists
  <2>2. job'[i].finishTime = job[i].finishTime /\ \A k \in Images \ {i} : job'[k] = job[k]
    BY <1>16, <2>1 DEF ScanPodFails, ScanPodSucceeds, Job
  <2>3. job[i].finishTime = None
    BY <2>1 DEF SafeToDelete, InProgress
  <2>4. \A r \in Replicas : At(r, "cleanup") => task[r].dels \subseteq Images \ {i}
    BY <2>1 DEF SafeToDelete, Task
  <2> QED
    BY <2>1, <2>2, <2>3, <2>4
       DEF SafeToDelete, At, InProgress, Exists, should_delete_job,
           is_job_succeeded, is_job_finally_failed
<1>17. ASSUME NEW i \in Images, JobTTLExpires(i)
       PROVE  SafeToDelete'
  <2>1. Delete(i) /\ UNCHANGED task
    BY <1>17 DEF JobTTLExpires
  <2>2. \A r \in Replicas : task[r].dels \subseteq Images
    BY DEF Task
  <2> QED
    BY <2>1, <2>2, DeleteEndsJob DEF SafeToDelete, At
<1>18. ASSUME NEW i \in Images, JobFinishes(i)
       PROVE  SafeToDelete'
  <2>1. UNCHANGED task /\ should_delete_job(job[i]) /\ job[i] \in Job
    BY <1>18 DEF JobFinishes, Exists
  <2>2. /\ should_delete_job(job[i])'
        /\ \A k \in Images \ {i} : job'[k] = job[k]
    BY <1>18, <2>1 DEF JobFinishes, Job, should_delete_job, is_job_succeeded, is_job_finally_failed
  <2> QED
    BY <1>f, <2>1, <2>2 DEF SafeToDelete, InProgress, Exists, should_delete_job,
                            is_job_succeeded, is_job_finally_failed
<1>19. ASSUME NEW i \in Images, JobCollected(i)
       PROVE  SafeToDelete'
  <2>1. UNCHANGED task /\ job'[i] = NoJob /\ \A k \in Images \ {i} : job'[k] = job[k]
    BY <1>19 DEF JobCollected
  <2> QED
    BY <1>f, <2>1 DEF SafeToDelete, InProgress, Exists, should_delete_job,
                      is_job_succeeded, is_job_finally_failed
<1>20. ASSUME NEW r \in Replicas, WatchDeliver(r)
       PROVE  SafeToDelete'
  BY <1>15, <1>20 DEF WatchDeliver
<1>21. CASE Tick \/ EditSpec \/ (\E p \in Pods : PodChanges(p)) \/ UNCHANGED vars
  BY <1>15, <1>21 DEF Tick, EditSpec, PodChanges, vars
<1> QED
  BY <1>1, <1>2, <1>3, <1>4, <1>5, <1>6, <1>7, <1>8, <1>9, <1>10, <1>11, <1>12, <1>13,
     <1>14, <1>16, <1>17, <1>18, <1>19, <1>20, <1>21
     DEF Next, Progress, Failure, Environment, JobController

\* No step of one replica, of the Job controller or of a TTL deletes a Job in progress.
THEOREM InProgressIsKept ==
    ASSUME \A q, r \in Replicas : q = r
    PROVE  Spec => NeverDeletesInProgress
<1> DEFINE Kept == \A i \in Images : InProgress(i) => job'[i] # NoJob /\ ~job'[i].terminating
<1>1. Init => SafeToDelete
  BY DEF Init, SafeToDelete, At, Blank, Exists
<1>2. TypeOK /\ SafeToDelete /\ [Next]_vars => SafeToDelete'
  BY SafeToDeleteStep
<1>3. TypeOK /\ SafeToDelete /\ [Next]_vars => [Kept]_vars
  <2> SUFFICES ASSUME TypeOK, SafeToDelete, Next, NEW i \in Images, InProgress(i)
               PROVE  job'[i] # NoJob /\ ~job'[i].terminating
    BY DEF vars
  <2> USE DEF TypeOK
  <2>0. job[i] # NoJob /\ job[i] \in Job /\ ~job[i].terminating /\ ~should_delete_job(job[i])
    BY DEF InProgress, Exists
  <2>1. ASSUME NEW k \in Images, Delete(k), k # i
        PROVE  job'[i] = job[i]
    BY <2>1, DeleteEndsJob
  <2>2. ASSUME NEW k \in Images, Create(k), ~Exists(k)
        PROVE  job'[i] = job[i]
    BY <2>0, <2>2 DEF Create, Exists
  <2>3. ASSUME UNCHANGED job
        PROVE  job'[i] = job[i]
    BY <2>3
  <2>4. ASSUME NEW r \in Replicas, Progress(r) \/ Failure(r) \/ WatchDeliver(r)
        PROVE  job'[i] = job[i]
    <3>1. ASSUME NEW k \in Images, CreateJob(r, k) \/ CreateJobDenied(r, k)
          PROVE  job'[i] = job[i]
      BY <2>2, <2>3, <3>1 DEF CreateJob, CreateJobDenied
    <3>2. ASSUME NEW k \in Images, DeleteJob(r, k) \/ DeleteJobError(r, k)
          PROVE  job'[i] = job[i]
      <4>1. k # i
        BY <3>2 DEF DeleteJob, DeleteJobError, SafeToDelete
      <4> QED
        BY <2>1, <2>3, <3>2, <4>1 DEF DeleteJob, DeleteJobError
    <3>3. CASE \/ Begin(r) \/ (\E ns \in Namespaces : ListPods(r, ns)) \/ ListPodsDenied(r)
               \/ CollectImages(r) \/ BuildFails(r) \/ Spawned(r) \/ ListOwnedJobs(r)
               \/ ListTerminalJobs(r) \/ ListJobsError(r)
               \/ PatchStatus(r) \/ PatchStatusError(r)
               \/ WatchDeliver(r) \/ Crash(r) \/ Restart(r)
      BY <3>3 DEF Begin, ListPods, ListPodsDenied, CollectImages, BuildFails, Spawned,
                  ListOwnedJobs, ListTerminalJobs, ListJobsError, PatchStatus,
                  PatchStatusError, WatchDeliver, Crash, Restart
    <3> QED
      BY <2>4, <3>1, <3>2, <3>3 DEF Progress, Failure
  <2>5. ASSUME NEW k \in Images, ScanPodFails(k) \/ ScanPodSucceeds(k)
        PROVE  job'[i] # NoJob /\ ~job'[i].terminating
    <3>1. CASE k = i
      <4>1. \/ job'[i] = [job[i] EXCEPT !.failed = @ + 1]
            \/ job'[i] = [job[i] EXCEPT !.succeeded = 1]
        BY <2>5, <3>1 DEF ScanPodFails, ScanPodSucceeds
      <4>2. /\ [job[i] EXCEPT !.failed = @ + 1].terminating = job[i].terminating
            /\ [job[i] EXCEPT !.succeeded = 1].terminating = job[i].terminating
        BY <2>0 DEF Job
      <4>3. job'[i] \in Job
        BY <2>0, <2>5, <4>1, BackoffLimitAssumption
           DEF ScanPodFails, Job, should_delete_job, is_job_finally_failed
      <4> QED
        BY <2>0, <4>1, <4>2, <4>3, NoJobAssumption
    <3>2. CASE k # i
      BY <2>0, <2>5, <3>2 DEF ScanPodFails, ScanPodSucceeds
    <3> QED
      BY <3>1, <3>2
  <2>6. ASSUME NEW k \in Images, JobTTLExpires(k) \/ JobFinishes(k) \/ JobCollected(k)
        PROVE  job'[i] = job[i]
    <3>1. k # i
      BY <2>0, <2>6 DEF JobTTLExpires, JobFinishes, JobCollected, SafeToDelete, Exists
    <3> QED
      BY <2>1, <2>6, <3>1 DEF JobTTLExpires, JobFinishes, JobCollected
  <2>7. CASE Tick \/ EditSpec \/ (\E p \in Pods : PodChanges(p))
    BY <2>0, <2>7 DEF Tick, EditSpec, PodChanges
  <2> QED
    BY <2>0, <2>4, <2>5, <2>6, <2>7 DEF Next, Environment, JobController
<1> QED
  BY <1>1, <1>2, <1>3, TypeCorrect, PTL DEF Spec, NeverDeletesInProgress

-----------------------------------------------------------------------------
(***************************************************************************)
(* The anchor covers the entries of every status in the system, the stored *)
(* one, the copies in the caches and in reconciles, and every new status.  *)
(***************************************************************************)
Covers(status) ==
    \A i \in Images : status.scanned[i] # None =>
        status.last # None /\ status.scanned[i] <= status.last

AllCover ==
    /\ Covers(cr.status)
    /\ \A r \in Replicas : Covers(cache[r].status)
    /\ \A r \in Replicas : Covers(task[r].obj.status) /\ Covers(task[r].new)

LEMMA NoStatusCovers == Covers(NoStatus)
BY DEF Covers, NoStatus

LEMMA WithReasonCovers ==
    ASSUME NEW base \in Status, Covers(base), NEW existing, NEW reason, NEW now
    PROVE  Covers(WithReason(base, existing, reason, now))
BY DEF Covers, WithReason, Status

LEMMA DesiredStatusCovers ==
    ASSUME NEW existing \in Status, Covers(existing), NEW spec, NEW now
    PROVE  Covers(desired_status(spec, now, existing))
BY WithReasonCovers DEF desired_status

\* A merge patch that carries entries carries the anchor that covers them.
LEMMA MergePatchCovers ==
    ASSUME NEW stored \in Status, NEW patch \in Status, Covers(stored), Covers(patch)
    PROVE  Covers(merge_patch(stored, patch))
BY DEF Covers, merge_patch, Status

\* The anchor advances together with the entries it is to cover.
LEMMA AggregatedCovers ==
    ASSUME NEW base \in Status, Covers(base), NEW existing \in Status,
           NEW current \in Time, NEW now \in Time,
           NEW owned \in [Images -> Job \cup {NoJob}]
    PROVE  Covers(status_with_aggregated_outcome(base, existing, owned, current, now))
<1> DEFINE newly  == scanned_images(owned, current)
           merged == merge_scanned_images_append_only(base.scanned, newly)
           last   == advance_last(base.last, newly)
           done   == WithReason(base, existing, "ScanCompleted", now)
<1>1. CASE aggregate_job_outcomes(owned) = "AllSucceeded"
  <2>1. base.scanned \in [Images -> OptTime] /\ base.last \in OptTime
    BY DEF Status
  <2>2. newly \in [Images -> OptTime]
    BY ScannedImagesType
  <2>3. /\ last \in OptTime
        /\ base.last # None => last # None /\ base.last <= last
        /\ \A i \in Images : newly[i] # None => last # None /\ newly[i] <= last
    BY <2>1, <2>2, AdvanceLast
  <2>4. done \in Status
    BY WithReasonType DEF Reasons, Terminal
  <2>5. status_with_aggregated_outcome(base, existing, owned, current, now) =
          [done EXCEPT !.scanned = merged, !.last = last]
    BY <1>1 DEF status_with_aggregated_outcome
  <2>6. \A i \in Images : merged[i] # None => last # None /\ merged[i] <= last
    <3> SUFFICES ASSUME NEW i \in Images, merged[i] # None
                 PROVE  last # None /\ merged[i] <= last
      OBVIOUS
    <3>1. CASE newly[i] # None
      BY <2>3, <3>1 DEF merge_scanned_images_append_only
    <3>2. CASE newly[i] = None
      <4>1. merged[i] = base.scanned[i]
        BY <3>2 DEF merge_scanned_images_append_only
      <4>2. base.scanned[i] # None /\ base.last # None /\ base.scanned[i] <= base.last
        BY <4>1 DEF Covers
      <4>3. base.scanned[i] \in Nat /\ base.last \in Nat /\ last \in Nat
        BY <2>1, <2>3, <4>2 DEF OptTime, Time
      <4> HIDE DEF last, merged
      <4> QED
        BY <2>3, <4>1, <4>2, <4>3
    <3> QED
      BY <3>1, <3>2
  <2>7. Covers([done EXCEPT !.scanned = merged, !.last = last])
    <3> HIDE DEF done, merged, last
    <3> QED
      BY <2>4, <2>6 DEF Covers, Status
  <2> QED
    BY <2>5, <2>7
<1>2. CASE aggregate_job_outcomes(owned) # "AllSucceeded"
  BY <1>2, WithReasonCovers DEF status_with_aggregated_outcome
<1> QED
  BY <1>1, <1>2

\* Every step keeps the anchors over the entries.
LEMMA AllCoverStep ==
    ASSUME TypeOK, AllCover, [Next]_vars
    PROVE  AllCover'
<1> USE DEF TypeOK
<1>0. /\ \A r \in Replicas : /\ task[r].obj \in Cr
                             /\ task[r].obj.status \in Status
                             /\ task[r].new \in Status
                             /\ task[r].now \in Time
                             /\ cache[r].status \in Status
                             /\ Covers(task[r].obj.status) /\ Covers(task[r].new)
      /\ cr.status \in Status /\ Covers(cr.status)
  BY DEF Task, Cr, AllCover
<1>a. ASSUME NEW r \in Replicas, NEW t, Update(r, t), Covers(t.obj.status), Covers(t.new),
             UNCHANGED <<cr, cache>>
      PROVE  AllCover'
  BY <1>a DEF Update, AllCover
\* A step that changes neither the cached object nor new_status.
<1>b. ASSUME NEW r \in Replicas, NEW t, Update(r, t),
             t.obj = task[r].obj, t.new = task[r].new, UNCHANGED <<cr, cache>>
      PROVE  AllCover'
  BY <1>0, <1>a, <1>b
<1>c. ASSUME NEW r \in Replicas, NEW status, PatchNext(r, status), Covers(status),
             UNCHANGED <<cr, cache>>
      PROVE  AllCover'
  <2> DEFINE t == [task[r] EXCEPT !.step = "patch_status", !.new = status]
  <2>1. t.obj = task[r].obj /\ t.new = status
    BY DEF Task
  <2>2. Update(r, t)
    BY <1>c DEF PatchNext
  <2> HIDE DEF t
  <2> QED
    BY <1>0, <1>a, <1>c, <2>1, <2>2
<1>d. ASSUME NEW r \in Replicas, NEW result
      PROVE  Covers(Orchestrated(r, result))
  BY <1>0, WithReasonCovers DEF Orchestrated, status_with_orchestration_result
\* A reconcile that returned, or a process that stopped, holds blank statuses.
<1>e. ASSUME NEW r \in Replicas, NEW step, Update(r, Blank(step)),
             cr' = cr \/ ApplyPatch(r),
             \A q \in Replicas : cache'[q] \in {cache[q], cr}
      PROVE  AllCover'
  <2>1. Covers(cr'.status)
    <3>1. Covers(merge_patch(cr.status, task[r].new))
      BY <1>0, MergePatchCovers
    <3> QED
      BY <1>0, <1>e, <3>1 DEF ApplyPatch, Cr
  <2>2. \A q \in Replicas : Covers(task'[q].obj.status) /\ Covers(task'[q].new)
    BY <1>0, <1>e, NoStatusCovers DEF Update, Blank
  <2> QED
    BY <1>0, <1>e, <2>1, <2>2 DEF AllCover
<1>1. ASSUME NEW r \in Replicas, Begin(r)
      PROVE  AllCover'
  <2> DEFINE obj  == IF StaleCache THEN cache[r] ELSE cr
             base == desired_status(obj.spec, clock, obj.status)
             t == [task[r] EXCEPT !.step   = IF base.reason = "InvalidSpec"
                                             THEN "patch_status" ELSE "list_pods",
                                  !.obj    = obj,
                                  !.now    = clock,
                                  !.nsLeft = IF base.reason = "InvalidSpec"
                                             THEN {} ELSE obj.spec.namespaces,
                                  !.new    = base]
  <2>1. Update(r, t) /\ UNCHANGED <<cr, cache>>
    BY <1>1 DEF Begin
  <2>2. obj.status \in Status /\ Covers(obj.status)
    BY <1>0 DEF AllCover
  <2>3. Covers(base)
    BY <2>2, DesiredStatusCovers
  <2>4. t.obj = obj /\ t.new = base
    <3> HIDE DEF obj, base
    <3> QED
      BY DEF Task
  <2> HIDE DEF t, obj, base
  <2> QED
    BY <1>a, <2>1, <2>2, <2>3, <2>4
<1>2. ASSUME NEW r \in Replicas, NEW ns \in Namespaces, ListPods(r, ns)
      PROVE  AllCover'
  <2> DEFINE t == [task[r] EXCEPT !.nsLeft = @ \ {ns},
                                  !.images = @ \cup collect_images(ns)]
  <2>1. t.obj = task[r].obj /\ t.new = task[r].new
    BY DEF Task
  <2> QED
    BY <1>2, <1>b, <2>1 DEF ListPods
<1>3. ASSUME NEW r \in Replicas, ListPodsDenied(r) \/ BuildFails(r)
      PROVE  AllCover'
  BY <1>3, <1>c, <1>d DEF ListPodsDenied, BuildFails
<1>4. ASSUME NEW r \in Replicas, CollectImages(r)
      PROVE  AllCover'
  <2>1. CASE task[r].images = {}
    BY <1>4, <1>c, <1>d, <2>1 DEF CollectImages
  <2>2. CASE task[r].images # {}
    <3> DEFINE t == [task[r] EXCEPT !.step = "ensure_jobs", !.todo = task[r].images]
    <3>1. t.obj = task[r].obj /\ t.new = task[r].new
      BY DEF Task
    <3> QED
      BY <1>4, <1>b, <2>2, <3>1 DEF CollectImages
  <2> QED
    BY <2>1, <2>2
<1>5. ASSUME NEW r \in Replicas, NEW i \in Images, CreateJob(r, i)
      PROVE  AllCover'
  <2> DEFINE t == [task[r] EXCEPT !.todo = @ \ {i}]
  <2>1. t.obj = task[r].obj /\ t.new = task[r].new
    BY DEF Task
  <2> QED
    BY <1>5, <1>b, <2>1 DEF CreateJob
<1>6. ASSUME NEW r \in Replicas, NEW i \in Images, CreateJobDenied(r, i)
      PROVE  AllCover'
  BY <1>6, <1>c, <1>d DEF CreateJobDenied
<1>7. ASSUME NEW r \in Replicas, Spawned(r)
      PROVE  AllCover'
  <2> DEFINE t == [task[r] EXCEPT !.step = "list_owned",
                                  !.new  = Orchestrated(r, "Scanning")]
  <2>1. t.obj = task[r].obj /\ t.new = Orchestrated(r, "Scanning")
    BY DEF Task
  <2>2. Update(r, t) /\ UNCHANGED <<cr, cache>>
    BY <1>7 DEF Spawned
  <2> HIDE DEF t
  <2> QED
    BY <1>0, <1>a, <1>d, <2>1, <2>2
<1>8. ASSUME NEW r \in Replicas, ListOwnedJobs(r)
      PROVE  AllCover'
  <2> DEFINE t    == task[r]
             stat == status_with_aggregated_outcome(t.new, t.obj.status, job, clock, t.now)
             next == schedule_decision(t.obj.spec, stat)
             u == [t EXCEPT !.step = IF is_schedule_due(next, t.now)
                                     THEN "relist" ELSE "patch_status",
                            !.new  = [stat EXCEPT !.next = next]]
  <2>1. UNCHANGED <<cr, cache>>
    BY <1>8 DEF ListOwnedJobs
  <2>2. Covers(stat) /\ stat \in Status
    BY <1>0, AggregatedCovers, AggregatedType
  <2>3. CASE Update(r, u)
    <3>1. u.obj = t.obj /\ u.new = [stat EXCEPT !.next = next]
      <4> HIDE DEF stat, next
      <4> QED
        BY DEF Task
    <3>2. Covers([stat EXCEPT !.next = next])
      <4> HIDE DEF stat, next
      <4> QED
        BY <2>2 DEF Covers, Status
    <3> HIDE DEF u
    <3> QED
      BY <1>0, <1>a, <2>1, <2>3, <3>1, <3>2
  <2>4. CASE PatchNext(r, stat)
    BY <1>c, <2>1, <2>2, <2>4
  <2> QED
    BY <1>8, <2>3, <2>4 DEF ListOwnedJobs
<1>9. ASSUME NEW r \in Replicas, ListTerminalJobs(r)
      PROVE  AllCover'
  <2> DEFINE t == [task[r] EXCEPT !.step = IF TerminalJobs = {} THEN "patch_status" ELSE "cleanup",
                                  !.dels = TerminalJobs]
  <2>1. t.obj = task[r].obj /\ t.new = task[r].new
    BY DEF Task
  <2> QED
    BY <1>9, <1>b, <2>1 DEF ListTerminalJobs
<1>10. ASSUME NEW r \in Replicas, NEW i \in Images, DeleteJob(r, i)
       PROVE  AllCover'
  <2> DEFINE t == [task[r] EXCEPT !.dels = @ \ {i},
                                  !.step = IF task[r].dels = {i}
                                           THEN "patch_status" ELSE "cleanup"]
  <2>1. t.obj = task[r].obj /\ t.new = task[r].new
    BY DEF Task
  <2> QED
    BY <1>10, <1>b, <2>1 DEF DeleteJob
<1>11. ASSUME NEW r \in Replicas, ListJobsError(r) \/ (\E i \in Images : DeleteJobError(r, i))
       PROVE  AllCover'
  BY <1>11, <1>e DEF ListJobsError, DeleteJobError, Return
<1>12. ASSUME NEW r \in Replicas, PatchStatus(r) \/ PatchStatusError(r) \/ Crash(r)
       PROVE  AllCover'
  BY <1>12, <1>e DEF PatchStatus, PatchStatusError, Crash, Return
<1>13. ASSUME NEW r \in Replicas, Restart(r)
       PROVE  AllCover'
  <2>1. \A q \in Replicas : cache'[q] \in {cache[q], cr}
    BY <1>13 DEF Restart
  <2> QED
    BY <1>13, <1>e, <2>1 DEF Restart, Return
<1>14. ASSUME NEW r \in Replicas, WatchDeliver(r)
       PROVE  AllCover'
  BY <1>0, <1>14 DEF WatchDeliver, AllCover
<1>15. ASSUME UNCHANGED <<cr, cache, task>>
       PROVE  AllCover'
  BY <1>15 DEF AllCover
<1>16. CASE EditSpec
  <2>1. cr'.status = cr.status
    BY <1>16 DEF EditSpec, Cr
  <2> QED
    BY <1>0, <1>16, <2>1 DEF EditSpec, AllCover
<1>17. CASE \/ Tick \/ (\E p \in Pods : PodChanges(p)) \/ UNCHANGED vars
            \/ (\E i \in Images : ScanPodFails(i) \/ JobTTLExpires(i) \/ JobController(i))
  BY <1>15, <1>17 DEF Tick, PodChanges, vars, ScanPodFails, JobTTLExpires, JobController,
                      ScanPodSucceeds, JobFinishes, JobCollected
<1> QED
  BY <1>1, <1>2, <1>3, <1>4, <1>5, <1>6, <1>7, <1>8, <1>9, <1>10, <1>11, <1>12, <1>13,
     <1>14, <1>16, <1>17
     DEF Next, Progress, Failure, Environment

\* Whatever is patched last, with any number of replicas and any cache lag.
THEOREM AnchorIsCovering == Spec => []AnchorCoversEntries
<1>1. Init => AllCover
  BY NoStatusCovers DEF Init, AllCover, Blank
<1>2. TypeOK /\ AllCover /\ [Next]_vars => AllCover'
  BY AllCoverStep
<1>3. AllCover => AnchorCoversEntries
  BY DEF AllCover, Covers, AnchorCoversEntries
<1> QED
  BY <1>1, <1>2, <1>3, TypeCorrect, PTL DEF Spec
=============================================================================
