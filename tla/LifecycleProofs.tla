--------------------------- MODULE LifecycleProofs ---------------------------
(***************************************************************************)
(* Reconciler implements ScanLifecycle when one replica reconciles from a  *)
(* current cache, for every value of the other constants.                  *)
(***************************************************************************)
EXTENDS ReconcilerProofs

(***************************************************************************)
(* With one replica and a current cache only that replica's patches change *)
(* the stored status, so the object a reconcile works on keeps the stored  *)
(* status until the patch.  Frame states that, and what new_status is at   *)
(* each step: at last a successor of the stored status.                    *)
(***************************************************************************)
InFlight(r) == task[r].step \notin {"off", "idle"}

\* No time in s is later than now, but for what the clocks differ by.
Past(s, now) ==
    /\ s.ltt # None => s.ltt <= now
    /\ \A i \in Images : s.scanned[i] # None => s.scanned[i] <= now + Skew

\* A finished Job finished no earlier than s says of its image, by two clocks.
JobsAfter(s) ==
    \A i \in Images : job[i] # NoJob /\ job[i].finishTime # None /\ s.scanned[i] # None
                        => s.scanned[i] <= job[i].finishTime + 2 * Skew

JobsPast ==
    \A i \in Images : job[i] # NoJob /\ job[i].finishTime # None
                        => job[i].finishTime <= clock + Skew

FitsSchedule(s) ==
    s.reason \in Terminal =>
        \E spec \in Specs : SpecIsValid(spec) /\ s.next = schedule_decision(spec, s)

Published == /\ Past(cr.status, clock)
             /\ Lifecycle!Covered(cr.status)
             /\ JobsAfter(cr.status)
             /\ FitsSchedule(cr.status)

\* new_status before, and after, the outcome of ensure_jobs is known.
Untouched(s) == Lifecycle!SameHistory(cr.status, s) /\ s.next = cr.status.next

Ready(s) == /\ Lifecycle!Successor(cr.status, s, clock)
            /\ JobsAfter(s)
            /\ FitsSchedule(s)

Flight(t) ==
    /\ t.obj.status = cr.status
    /\ t.now <= clock
    /\ cr.status.ltt # None => cr.status.ltt <= t.now
    /\ t.step # "patch_status" => SpecIsValid(t.obj.spec)
    /\ t.step \in {"list_pods", "ensure_jobs"} => Untouched(t.new)
    /\ t.step \notin {"list_pods", "ensure_jobs"} => Ready(t.new)
    /\ t.step = "list_owned" => t.new.reason = "Scanning"

Frame == /\ Published
         /\ JobsPast
         /\ \A r \in Replicas : InFlight(r) => Flight(task[r])

-----------------------------------------------------------------------------
(* Status records. *)

\* A successor's times lie in the past, and its anchor covers its entries.
LEMMA SuccessorPast ==
    ASSUME NEW old \in Status, NEW new \in Status, NEW now \in Time,
           Past(old, now), Lifecycle!Covered(old), Lifecycle!Successor(old, new, now)
    PROVE  Past(new, now) /\ Lifecycle!Covered(new)
<1>1. new.ltt # None => new.ltt <= now
  BY DEF Past, Status, OptTime, Time, Lifecycle!Successor, Lifecycle!Restamped
<1>2. CASE Lifecycle!SameHistory(old, new)
  BY <1>1, <1>2 DEF Past, Lifecycle!SameHistory, Lifecycle!Covered, Lifecycle!Entries
<1>3. CASE Lifecycle!GrownHistory(old, new, now)
  <2>1. \A i \in Images : new.scanned[i] # None => new.scanned[i] <= now + Skew
    BY <1>3, SkewAssumption DEF Time, Lifecycle!GrownHistory, Lifecycle!Refreshed
  <2>2. Lifecycle!Covered(new)
    BY <1>3 DEF Lifecycle!GrownHistory, Lifecycle!Anchored, Lifecycle!Covered, Lifecycle!Entries
  <2> QED
    BY <1>1, <2>1, <2>2 DEF Past
<1> QED
  BY <1>2, <1>3 DEF Lifecycle!Successor, Lifecycle!Report, Lifecycle!Fail, Lifecycle!Complete

LEMMA SuccessorLater ==
    ASSUME NEW old, NEW new, NEW now \in Time, Lifecycle!Successor(old, new, now)
    PROVE  Lifecycle!Successor(old, new, now + 1)
<1>1. ASSUME NEW t1, NEW t2, Lifecycle!Refreshed(t1, t2, now)
      PROVE  Lifecycle!Refreshed(t1, t2, now + 1)
  BY <1>1, SkewAssumption DEF Lifecycle!Refreshed, Time
<1>2. Lifecycle!Restamped(old, new, now + 1)
  BY DEF Lifecycle!Successor, Lifecycle!Restamped, Time
<1>3. Lifecycle!GrownHistory(old, new, now) => Lifecycle!GrownHistory(old, new, now + 1)
  BY <1>1 DEF Lifecycle!GrownHistory
<1> QED
  BY <1>2, <1>3 DEF Lifecycle!Successor, Lifecycle!Complete

\* A successor carries everything that is stored: merging it replaces.
LEMMA MergeReplaces ==
    ASSUME NEW old \in Status, NEW new \in Status, NEW now,
           Lifecycle!Successor(old, new, now)
    PROVE  merge_patch(old, new) = new
<1>1. new.last = None => old.last = None
  <2>1. CASE Lifecycle!SameHistory(old, new)
    BY <2>1 DEF Lifecycle!SameHistory
  <2>2. CASE Lifecycle!GrownHistory(old, new, now)
    BY <2>2 DEF Lifecycle!GrownHistory, Lifecycle!Anchored
  <2> QED
    BY <2>1, <2>2 DEF Lifecycle!Successor, Lifecycle!Report, Lifecycle!Fail, Lifecycle!Complete
<1>2. new.next = None => old.next = None
  <2>1. CASE Lifecycle!Report(old, new)
    BY <2>1 DEF Lifecycle!Report
  <2>2. CASE Lifecycle!Scheduled(new)
    <3>1. (IF new.last = None THEN 0 ELSE new.last) \in Nat
      BY DEF Status, OptTime, Time
    <3>2. \A a \in Nat : /\ CronPeriod * ((a \div CronPeriod) + 1) \in Nat
                         /\ a + Interval \in Nat
      BY CronPeriodAssumption, IntervalAssumption
    <3>3. new.next \in Nat
      BY <2>2, <3>1, <3>2, JitterAssumption
         DEF Lifecycle!Scheduled, Lifecycle!compute_next_scheduled_time
    <3> QED
      BY <3>3, NoneAssumption DEF Time
  <2> QED
    BY <2>1, <2>2 DEF Lifecycle!Successor, Lifecycle!Fail, Lifecycle!Complete
<1>3. merge_patch(old, new) = [new EXCEPT !.last = new.last, !.next = new.next]
  BY <1>1, <1>2 DEF merge_patch
<1> QED
  BY <1>3 DEF Status

\* Ready and its transition time, as every mapper recomputes them.
LEMMA RestampedByMapper ==
    ASSUME NEW old \in Status, NEW base \in Status, NEW reason \in Reasons,
           NEW now \in Time, NEW later \in Time, now <= later,
           old.ltt # None => old.ltt <= now
    PROVE  /\ Lifecycle!Restamped(old, WithReason(base, old, reason, now), later)
           /\ WithReason(base, old, reason, now).reason = reason
           /\ WithReason(base, old, reason, now).scanned = base.scanned
           /\ WithReason(base, old, reason, now).last = base.last
           /\ WithReason(base, old, reason, now).next = base.next
<1> DEFINE new == WithReason(base, old, reason, now)
<1>1. /\ new.reason = reason
      /\ new.ltt = IF old.reason = reason THEN old.ltt ELSE now
      /\ new.scanned = base.scanned /\ new.last = base.last /\ new.next = base.next
  BY DEF WithReason, last_transition_time, Status
<1>2. now \in 0 .. later /\ (old.ltt # None => old.ltt <= now)
  BY DEF Time
<1> HIDE DEF new
<1>3. Lifecycle!Restamped(old, new, later)
  BY <1>1, <1>2 DEF Lifecycle!Restamped
<1> QED
  BY <1>1, <1>3 DEF new

LEMMA ReportIsReady ==
    ASSUME TypeOK, Published, NEW base \in Status, Untouched(base), NEW now \in Time,
           NEW reason \in Lifecycle!Reports, now <= clock,
           cr.status.ltt # None => cr.status.ltt <= now
    PROVE  Ready(WithReason(base, cr.status, reason, now))
<1> DEFINE new == WithReason(base, cr.status, reason, now)
<1>1. reason \in Reasons /\ reason \notin Terminal
  BY DEF Lifecycle!Reports, Reasons, Terminal
<1>2. cr.status \in Status /\ clock \in Time
  BY DEF TypeOK, Cr
<1>3. /\ Lifecycle!Restamped(cr.status, new, clock)
      /\ new.reason = reason
      /\ new.scanned = base.scanned /\ new.last = base.last /\ new.next = base.next
  BY <1>1, <1>2, RestampedByMapper
<1> HIDE DEF new
<1>4. Lifecycle!Report(cr.status, new)
  BY <1>3 DEF Untouched, Lifecycle!Report, Lifecycle!SameHistory
<1>5. JobsAfter(new)
  BY <1>3 DEF JobsAfter, Published, Untouched, Lifecycle!SameHistory
<1>6. FitsSchedule(new)
  BY <1>1, <1>3 DEF FitsSchedule
<1>7. Ready(new)
  BY <1>3, <1>4, <1>5, <1>6 DEF Ready, Lifecycle!Successor
<1> QED
  BY <1>7 DEF new

\* The schedule decision is a next scan counted from the anchor.
LEMMA DecisionIsScheduled ==
    ASSUME NEW s \in Status, NEW spec \in Specs, SpecIsValid(spec),
           NEW new \in Status, new = [s EXCEPT !.next = schedule_decision(spec, s)]
    PROVE  Lifecycle!Scheduled(new) /\ FitsSchedule(new)
<1>1. /\ new.next = schedule_decision(spec, s)
      /\ new.last = s.last
  BY DEF Status
<1>2. schedule_decision(spec, new) = schedule_decision(spec, s)
  BY <1>1 DEF schedule_decision, anchor
<1>3. Lifecycle!Scheduled(new)
  <2> DEFINE kind == parse_schedule(spec.schedule)
  <2>1. kind \in {"Cron", "Interval"}
    BY DEF SpecIsValid, parse_schedule
  <2>2. new.next = Lifecycle!compute_next_scheduled_time(
                     kind, IF new.last = None THEN 0 ELSE new.last)
    BY <1>1 DEF schedule_decision, anchor, compute_next_scheduled_time,
                Lifecycle!compute_next_scheduled_time
  <2> HIDE DEF kind
  <2> QED
    BY <2>1, <2>2 DEF Lifecycle!Scheduled
<1> QED
  BY <1>1, <1>2, <1>3 DEF FitsSchedule

\* The entries of a listing whose Jobs all succeeded extend the history.
LEMMA MergedHistoryGrows ==
    ASSUME TypeOK, Published, JobsPast, NEW base \in Status, Untouched(base),
           aggregate_job_outcomes(job) = "AllSucceeded", NEW new \in Status,
           new.scanned = merge_scanned_images_append_only(base.scanned,
                                                          scanned_images(job, clock)),
           new.last = advance_last(base.last, scanned_images(job, clock))
    PROVE  Lifecycle!GrownHistory(cr.status, new, clock) /\ JobsAfter(new)
<1> DEFINE newly == scanned_images(job, clock)
           old   == cr.status
<1>1. /\ old \in Status /\ clock \in Nat
      /\ job \in [Images -> Job \cup {NoJob}]
      /\ \A i \in Images : job[i] # NoJob => job[i].finishTime \in OptTime
  BY DEF TypeOK, Cr, Time, Job
<1>2. newly \in [Images -> OptTime]
  BY <1>1, ScannedImagesType DEF Time
<1>3. \A i \in Images : /\ new.scanned[i] = IF newly[i] = None THEN old.scanned[i] ELSE newly[i]
                        /\ newly[i] = IF job[i] = NoJob THEN None
                                      ELSE IF job[i].finishTime = None THEN clock
                                      ELSE job[i].finishTime
  <2>1. \A i \in Images : newly[i] = IF job[i] = NoJob THEN None
                                      ELSE IF job[i].finishTime = None THEN clock
                                      ELSE job[i].finishTime
    BY DEF scanned_images, completed_at
  <2>2. new.scanned = [i \in Images |-> IF newly[i] = None THEN base.scanned[i] ELSE newly[i]]
    BY DEF merge_scanned_images_append_only
  <2>3. base.scanned = old.scanned
    BY DEF Untouched, Lifecycle!SameHistory
  <2> HIDE DEF newly, old
  <2> QED
    BY <2>1, <2>2, <2>3
<1>4. \A i \in Images : old.scanned[i] \in OptTime /\ new.scanned[i] \in OptTime
  BY <1>1 DEF Status
<1>5. /\ old.last \in OptTime /\ new.last \in OptTime
      /\ old.last # None => new.last # None /\ old.last <= new.last
      /\ \A i \in Images : newly[i] # None => new.last # None /\ newly[i] <= new.last
      /\ \/ new.last = old.last
         \/ \E i \in Images : newly[i] # None /\ new.last = newly[i]
  BY <1>1, <1>2, AdvanceLast DEF Untouched, Lifecycle!SameHistory, Status
<1>6. PICK k \in Images : newly[k] # None
  <2>1. PICK k \in Images : job[k] # NoJob
    BY DEF aggregate_job_outcomes, Listed
  <2>2. newly[k] # None
    BY <1>1, <1>3, <2>1, NoneAssumption DEF Time
  <2> QED
    BY <2>2
<1>7. \A i \in Images : Lifecycle!Refreshed(old.scanned[i], new.scanned[i], clock)
  <2> SUFFICES ASSUME NEW i \in Images
               PROVE  Lifecycle!Refreshed(old.scanned[i], new.scanned[i], clock)
    OBVIOUS
  <2>1. old.scanned[i] # None => old.scanned[i] \in Nat /\ old.scanned[i] <= clock + Skew
    BY <1>4 DEF Published, Past, OptTime, Time
  <2>2. CASE newly[i] = None
    BY <1>1, <1>3, <2>1, <2>2, SkewAssumption DEF Lifecycle!Refreshed
  <2>3. CASE newly[i] # None
    <3>1. newly[i] \in Nat /\ newly[i] <= clock + Skew
      BY <1>1, <1>3, <2>3, SkewAssumption DEF JobsPast, OptTime, Time
    <3>2. old.scanned[i] # None => old.scanned[i] <= newly[i] + 2 * Skew
      <4>1. CASE job[i].finishTime = None
        BY <1>1, <1>3, <2>1, <2>3, <4>1, SkewAssumption
      <4>2. CASE job[i].finishTime # None
        BY <1>3, <2>3, <4>2 DEF Published, JobsAfter
      <4> QED
        BY <4>1, <4>2
    <3> HIDE DEF newly
    <3> QED
      BY <1>1, <1>3, <2>1, <2>3, <3>1, <3>2, SkewAssumption DEF Lifecycle!Refreshed
  <2> QED
    BY <2>2, <2>3
<1>8. Lifecycle!Entries(new) # {}
  BY <1>3, <1>6 DEF Lifecycle!Entries
<1> DEFINE times == ({old.last} \cup Lifecycle!Entries(new)) \ {None}
<1>9. \A t \in times : t <= new.last
  <2> SUFFICES ASSUME NEW t \in times
               PROVE  t <= new.last
    OBVIOUS
  <2>1. CASE t = old.last
    BY <1>5, <2>1
  <2>2. CASE t \in Lifecycle!Entries(new)
    <3>1. PICK i \in Images : t = new.scanned[i] /\ new.scanned[i] # None
      BY <2>2 DEF Lifecycle!Entries
    <3>2. CASE newly[i] = None
      <4>1. old.scanned[i] # None /\ new.scanned[i] = old.scanned[i]
        BY <1>3, <3>1, <3>2
      <4>2. old.last # None /\ old.scanned[i] <= old.last
        BY <4>1 DEF Published, Lifecycle!Covered, Lifecycle!Entries
      <4>3. new.last # None /\ old.last <= new.last
        BY <1>5, <4>2
      <4>4. old.scanned[i] \in Nat /\ old.last \in Nat /\ new.last \in Nat
        BY <1>4, <1>5, <4>1, <4>2, <4>3 DEF OptTime, Time
      <4> QED
        BY <3>1, <4>1, <4>2, <4>3, <4>4
    <3>3. CASE newly[i] # None
      BY <1>3, <1>5, <3>1, <3>3
    <3> QED
      BY <3>2, <3>3
  <2> QED
    BY <2>1, <2>2
<1>10. new.last \in times
  <2>1. new.last # None
    BY <1>5, <1>6
  <2>2. CASE \E i \in Images : newly[i] # None /\ new.last = newly[i]
    BY <1>3, <2>1, <2>2 DEF Lifecycle!Entries
  <2> QED
    BY <1>5, <2>1, <2>2
<1>11. Lifecycle!Anchored(old, new)
  BY <1>9, <1>10 DEF Lifecycle!Anchored
<1>12. JobsAfter(new)
  <2> SUFFICES ASSUME NEW i \in Images, job[i] # NoJob, job[i].finishTime # None
               PROVE  new.scanned[i] <= job[i].finishTime + 2 * Skew
    BY DEF JobsAfter
  <2>1. new.scanned[i] = job[i].finishTime
    BY <1>3
  <2>2. job[i].finishTime \in Nat
    BY <1>1 DEF OptTime, Time
  <2> QED
    BY <2>1, <2>2, SkewAssumption
<1> QED
  BY <1>7, <1>8, <1>11, <1>12 DEF Lifecycle!GrownHistory

\* What ListOwnedJobs derives: a report, a failure or a completion.
LEMMA AggregatedIsReady ==
    ASSUME TypeOK, Published, JobsPast,
           NEW base \in Status, Ready(base), base.reason = "Scanning",
           NEW now \in Time, now <= clock, cr.status.ltt # None => cr.status.ltt <= now,
           NEW spec \in Specs, SpecIsValid(spec), NEW stat,
           stat = status_with_aggregated_outcome(base, cr.status, job, clock, now)
    PROVE  IF stat.reason \in Terminal
           THEN Ready([stat EXCEPT !.next = schedule_decision(spec, stat)])
           ELSE Ready(stat)
<1> DEFINE new   == [stat EXCEPT !.next = schedule_decision(spec, stat)]
           newly == scanned_images(job, clock)
<1>1. /\ cr.status \in Status /\ clock \in Time
      /\ job \in [Images -> Job \cup {NoJob}]
  BY DEF TypeOK, Cr
<1>2. stat \in Status
  BY <1>1, AggregatedType
<1>3. new \in Status
  BY <1>2, ScheduleDecisionType DEF Status, OptTime
<1>4. /\ new.reason = stat.reason /\ new.ltt = stat.ltt
      /\ new.scanned = stat.scanned /\ new.last = stat.last
  BY <1>2 DEF Status
<1>5. Lifecycle!Scheduled(new) /\ FitsSchedule(new)
  <2> HIDE DEF new
  <2>1. new = [stat EXCEPT !.next = schedule_decision(spec, stat)]
    BY DEF new
  <2> QED
    BY <1>2, <1>3, <2>1, DecisionIsScheduled
<1>6. Untouched(base)
  BY DEF Ready, Untouched, Lifecycle!Successor, Lifecycle!Report, Lifecycle!Fail,
         Lifecycle!Complete
<1> HIDE DEF new
<1>7. CASE aggregate_job_outcomes(job) = "AnyFailed"
  <2>1. stat = WithReason(base, cr.status, "ScanFailed", now)
    BY <1>7 DEF status_with_aggregated_outcome
  <2>2. "ScanFailed" \in Reasons /\ "ScanFailed" \in Terminal
    BY DEF Reasons, Terminal
  <2>3. /\ Lifecycle!Restamped(cr.status, stat, clock)
        /\ stat.reason = "ScanFailed"
        /\ stat.scanned = base.scanned /\ stat.last = base.last
    BY <1>1, <2>1, <2>2, RestampedByMapper
  <2>4. Lifecycle!Restamped(cr.status, new, clock)
    BY <1>4, <2>3 DEF Lifecycle!Restamped
  <2>5. Lifecycle!Fail(cr.status, new)
    BY <1>4, <1>5, <1>6, <2>3 DEF Untouched, Lifecycle!Fail, Lifecycle!SameHistory
  <2>6. JobsAfter(new)
    BY <1>4, <1>6, <2>3 DEF JobsAfter, Published, Untouched, Lifecycle!SameHistory
  <2>7. Ready(new)
    BY <1>5, <2>4, <2>5, <2>6 DEF Ready, Lifecycle!Successor
  <2> QED
    BY <2>2, <2>3, <2>7 DEF new
<1>8. CASE aggregate_job_outcomes(job) = "AllSucceeded"
  <2> DEFINE done == WithReason(base, cr.status, "ScanCompleted", now)
  <2>1. stat = [done EXCEPT !.scanned = merge_scanned_images_append_only(base.scanned, newly),
                            !.last    = advance_last(base.last, newly)]
    BY <1>8 DEF status_with_aggregated_outcome
  <2>2. "ScanCompleted" \in Reasons /\ "ScanCompleted" \in Terminal
    BY DEF Reasons, Terminal
  <2>3. Lifecycle!Restamped(cr.status, done, clock) /\ done.reason = "ScanCompleted"
    BY <1>1, <2>2, RestampedByMapper
  <2>4. done \in Status
    BY <1>1, <2>2, WithReasonType
  <2> HIDE DEF done
  <2>5. /\ stat.reason = done.reason /\ stat.ltt = done.ltt
        /\ stat.scanned = merge_scanned_images_append_only(base.scanned, newly)
        /\ stat.last = advance_last(base.last, newly)
    BY <2>1, <2>4 DEF Status
  <2>6. Lifecycle!Restamped(cr.status, new, clock)
    BY <1>4, <2>3, <2>5 DEF Lifecycle!Restamped
  <2>7. Lifecycle!GrownHistory(cr.status, new, clock) /\ JobsAfter(new)
    BY <1>3, <1>4, <1>6, <1>8, <2>5, MergedHistoryGrows
  <2>8. Ready(new)
    BY <1>4, <1>5, <2>3, <2>5, <2>6, <2>7 DEF Ready, Lifecycle!Successor, Lifecycle!Complete
  <2> QED
    BY <2>2, <2>3, <2>5, <2>8 DEF new
<1>9. CASE aggregate_job_outcomes(job) \notin {"AnyFailed", "AllSucceeded"}
  <2>1. stat = base
    BY <1>9 DEF status_with_aggregated_outcome
  <2> QED
    BY <2>1 DEF Terminal
<1> QED
  BY <1>7, <1>8, <1>9

-----------------------------------------------------------------------------
(* Steps. *)

FinishesNow(t) == t \in Nat /\ t <= clock + Skew /\ clock <= t + Skew

\* A Job that is now finished was already, at the same time, or finishes now.
JobStep ==
    \A i \in Images : job'[i] # NoJob /\ job'[i].finishTime # None =>
        \/ FinishesNow(job'[i].finishTime)
        \/ job[i] # NoJob /\ job'[i].finishTime = job[i].finishTime

LEMMA JobSteps ==
    ASSUME TypeOK
    PROVE  /\ UNCHANGED job => JobStep
           /\ \A i \in Images : Create(i) => JobStep
           /\ \A i \in Images : Delete(i) => JobStep
           /\ \A i \in Images : /\ ScanPodFails(i) \/ ScanPodSucceeds(i) => JobStep
                                /\ JobFinishes(i) \/ JobCollected(i) => JobStep
                                /\ JobTTLExpires(i) => JobStep
<1> USE DEF TypeOK
<1>0. /\ job \in [Images -> Job \cup {NoJob}]
      /\ build_scan_job.finishTime = None
  BY DEF build_scan_job
<1>1. UNCHANGED job => JobStep
  BY DEF JobStep
<1>2. ASSUME NEW i \in Images, NEW j,
             \/ j = NoJob
             \/ j.finishTime = None
             \/ FinishesNow(j.finishTime)
             \/ job[i] # NoJob /\ j.finishTime = job[i].finishTime,
             job' = [job EXCEPT ![i] = j]
      PROVE  JobStep
  BY <1>0, <1>2 DEF JobStep
<1>3. ASSUME NEW i \in Images, Create(i)
      PROVE  JobStep
  BY <1>0, <1>2, <1>3 DEF Create
<1>4. ASSUME NEW i \in Images, Delete(i)
      PROVE  JobStep
  <2> DEFINE j == IF job[i] = NoJob THEN NoJob ELSE [job[i] EXCEPT !.terminating = TRUE]
  <2>1. job' = [job EXCEPT ![i] = j]
    BY <1>4 DEF Delete
  <2>2. job[i] # NoJob => j.finishTime = job[i].finishTime
    BY <1>0 DEF Job
  <2>3. job[i] = NoJob => j = NoJob
    OBVIOUS
  <2> HIDE DEF j
  <2> QED
    BY <1>2, <2>1, <2>2, <2>3
<1>5. ASSUME NEW i \in Images, ScanPodFails(i) \/ ScanPodSucceeds(i)
      PROVE  JobStep
  <2>1. job[i] # NoJob /\ job[i] \in Job
    BY <1>0, <1>5 DEF ScanPodFails, ScanPodSucceeds, InProgress, Exists
  <2>2. CASE ScanPodFails(i)
    <3> DEFINE j == [job[i] EXCEPT !.failed = @ + 1]
    <3>1. job' = [job EXCEPT ![i] = j]
      BY <1>0, <2>1, <2>2 DEF ScanPodFails
    <3>2. j.finishTime = job[i].finishTime
      BY <2>1 DEF Job
    <3> HIDE DEF j
    <3> QED
      BY <1>2, <2>1, <3>1, <3>2
  <2>3. CASE ScanPodSucceeds(i)
    <3> DEFINE j == [job[i] EXCEPT !.succeeded = 1]
    <3>1. job' = [job EXCEPT ![i] = j]
      BY <1>0, <2>1, <2>3 DEF ScanPodSucceeds
    <3>2. j.finishTime = job[i].finishTime
      BY <2>1 DEF Job
    <3> HIDE DEF j
    <3> QED
      BY <1>2, <2>1, <3>1, <3>2
  <2> QED
    BY <1>5, <2>2, <2>3
<1>6. ASSUME NEW i \in Images, JobFinishes(i)
      PROVE  JobStep
  <2>0. PICK t \in 0 .. (clock + Skew) :
           clock <= t + Skew /\ job' = [job EXCEPT ![i].finishTime = t]
    BY <1>6 DEF JobFinishes
  <2> DEFINE j == [job[i] EXCEPT !.finishTime = t]
  <2>1. job[i] \in Job /\ job' = [job EXCEPT ![i] = j]
    BY <1>0, <1>6, <2>0 DEF JobFinishes, Exists
  <2>2. FinishesNow(j.finishTime)
    BY <2>0, <2>1, SkewAssumption DEF Job, FinishesNow, Time
  <2> HIDE DEF j
  <2> QED
    BY <1>2, <2>1, <2>2
<1>7. ASSUME NEW i \in Images, JobCollected(i)
      PROVE  JobStep
  BY <1>0, <1>2, <1>7 DEF JobCollected
<1> QED
  BY <1>1, <1>3, <1>4, <1>5, <1>6, <1>7 DEF JobTTLExpires

Outside(t) == t.step \in {"off", "idle"}

\* A step that leaves the stored status alone keeps Frame if the tasks fit it.
LEMMA FrameKept ==
    ASSUME TypeOK, TypeOK', Frame, JobStep, clock' = clock, cr'.status = cr.status,
           \A r \in Replicas : Outside(task'[r]) \/ Flight(task'[r])
    PROVE  Frame'
<1>1. /\ clock \in Nat /\ cr.status \in Status
      /\ job \in [Images -> Job \cup {NoJob}]
      /\ \A r \in Replicas : task'[r].new \in Status
      /\ \A i \in Images : job[i] # NoJob => job[i].finishTime \in OptTime
  BY DEF TypeOK, Cr, Task, Time, Job
<1>2. ASSUME NEW s \in Status, Past(s, clock), JobsAfter(s), NEW i \in Images,
             job'[i] # NoJob, job'[i].finishTime # None, s.scanned[i] # None
      PROVE  s.scanned[i] <= job'[i].finishTime + 2 * Skew
  <2>1. CASE FinishesNow(job'[i].finishTime)
    <3>1. s.scanned[i] \in Nat /\ s.scanned[i] <= clock + Skew
      BY <1>2 DEF Past, Status, OptTime, Time
    <3> QED
      BY <1>1, <2>1, <3>1, SkewAssumption DEF FinishesNow
  <2>2. CASE job[i] # NoJob /\ job'[i].finishTime = job[i].finishTime
    BY <1>2, <2>2 DEF JobsAfter
  <2> QED
    BY <1>2, <2>1, <2>2 DEF JobStep
<1>3. Published'
  <2>1. JobsAfter(cr.status)'
    BY <1>1, <1>2 DEF JobsAfter, Frame, Published
  <2> QED
    BY <2>1 DEF Frame, Published
<1>4. JobsPast'
  BY <1>1 DEF Frame, JobsPast, JobStep, FinishesNow
<1>5. ASSUME NEW r \in Replicas, Flight(task'[r])
      PROVE  Flight(task[r])'
  <2>1. CASE task'[r].step \in {"list_pods", "ensure_jobs"}
    BY <1>5, <2>1 DEF Flight, Untouched
  <2>2. CASE task'[r].step \notin {"list_pods", "ensure_jobs"}
    <3>1. Ready(task'[r].new)
      BY <1>5, <2>2 DEF Flight
    <3>2. Past(task'[r].new, clock)
      BY <1>1, <3>1, SuccessorPast DEF Ready, Frame, Published, Time
    <3>3. JobsAfter(task[r].new)'
      BY <1>1, <1>2, <3>1, <3>2 DEF JobsAfter, Ready
    <3>4. Ready(task[r].new)'
      BY <3>1, <3>3 DEF Ready
    <3> QED
      BY <1>5, <2>2, <3>4 DEF Flight
  <2> QED
    BY <2>1, <2>2
<1>6. \A r \in Replicas : InFlight(r)' => Flight(task[r])'
  BY <1>5 DEF InFlight, Outside
<1> QED
  BY <1>3, <1>4, <1>6 DEF Frame

\* The patch stores new_status, the one that Frame holds ready.
LEMMA PatchPublishes ==
    ASSUME TypeOK, Frame, NEW r \in Replicas, At(r, "patch_status"), ApplyPatch(r)
    PROVE  /\ cr'.status = task[r].new
           /\ Lifecycle!Successor(cr.status, cr'.status, clock)
           /\ Past(cr'.status, clock) /\ Lifecycle!Covered(cr'.status)
           /\ JobsAfter(cr'.status)
           /\ FitsSchedule(cr'.status)
<1>1. /\ cr \in Cr /\ cr.status \in Status /\ clock \in Time
      /\ task[r].new \in Status
  BY DEF TypeOK, Cr, Task
<1>2. Ready(task[r].new)
  BY DEF Frame, InFlight, Flight, At
<1>3. merge_patch(cr.status, task[r].new) = task[r].new
  BY <1>1, <1>2, MergeReplaces DEF Ready, Frame, Published
<1>4. cr'.status = task[r].new
  BY <1>1, <1>3 DEF ApplyPatch, Cr
<1>5. Past(task[r].new, clock) /\ Lifecycle!Covered(task[r].new)
  BY <1>1, <1>2, SuccessorPast DEF Ready, Frame, Published
<1> QED
  BY <1>2, <1>4, <1>5 DEF Ready

LEMMA FrameStep ==
    ASSUME \A q, r \in Replicas : q = r, StaleCache = FALSE,
           TypeOK, TypeOK', Frame, [Next]_vars
    PROVE  Frame'
<1>0. /\ cr \in Cr /\ cr.status \in Status /\ cr.spec \in Specs
      /\ clock \in Nat /\ clock \in Time
      /\ task \in [Replicas -> Task]
      /\ \A r \in Replicas : /\ task[r] \in Task
                             /\ task[r].new \in Status
                             /\ task[r].now \in Time
                             /\ task[r].obj.spec \in Specs
  BY DEF TypeOK, Cr, Task, Time
\* The one replica's task becomes t.
<1>a. ASSUME NEW r \in Replicas, NEW t, Update(r, t), JobStep,
             clock' = clock, cr'.status = cr.status, Outside(t) \/ Flight(t)
      PROVE  Frame'
  <2>1. \A q \in Replicas : task'[q] = t
    BY <1>0, <1>a DEF Update
  <2> QED
    BY <1>a, <2>1, FrameKept
\* The task ends, before the patch or without it.
<1>b. ASSUME NEW r \in Replicas, NEW step \in {"off", "idle"}, Update(r, Blank(step)),
             JobStep, clock' = clock, cr'.status = cr.status
      PROVE  Frame'
  BY <1>a, <1>b DEF Outside, Blank
<1>c. ASSUME UNCHANGED task, JobStep, clock' = clock, cr'.status = cr.status
      PROVE  Frame'
  BY <1>c, FrameKept DEF Frame, InFlight, Outside
\* The outcome of ensure_jobs is mapped over the base status.
<1>d. ASSUME NEW r \in Replicas, At(r, "list_pods") \/ At(r, "ensure_jobs"),
             NEW reason \in Lifecycle!Reports
      PROVE  /\ Flight(task[r])
             /\ Ready(Orchestrated(r, reason))
             /\ Orchestrated(r, reason).reason = reason
  <2>1. Flight(task[r]) /\ Untouched(task[r].new)
    BY <1>d DEF Frame, InFlight, Flight, At
  <2>2. Orchestrated(r, reason) = WithReason(task[r].new, cr.status, reason, task[r].now)
    BY <2>1 DEF Flight, Orchestrated, status_with_orchestration_result
  <2>3. Ready(Orchestrated(r, reason))
    BY <1>0, <2>1, <2>2, ReportIsReady DEF Flight, Frame
  <2>4. reason \in Reasons
    BY DEF Reasons, Lifecycle!Reports
  <2>5. Orchestrated(r, reason).reason = reason
    BY <1>0, <2>2, <2>4 DEF WithReason, Status
  <2> QED
    BY <2>1, <2>3, <2>5
<1>e. ASSUME NEW r \in Replicas, At(r, "list_pods") \/ At(r, "ensure_jobs"),
             NEW reason \in Lifecycle!Reports, PatchNext(r, Orchestrated(r, reason)),
             JobStep, clock' = clock, cr'.status = cr.status
      PROVE  Frame'
  <2> DEFINE t == [task[r] EXCEPT !.step = "patch_status", !.new = Orchestrated(r, reason)]
  <2>1. /\ t.step = "patch_status" /\ t.new = Orchestrated(r, reason)
        /\ t.obj = task[r].obj /\ t.now = task[r].now
    BY <1>0 DEF Task
  <2>2. Update(r, t)
    BY <1>e DEF PatchNext
  <2> HIDE DEF t
  <2>3. Flight(t)
    BY <1>d, <1>e, <2>1 DEF Flight
  <2> QED
    BY <1>a, <1>e, <2>2, <2>3
\* A step between two calls of one phase, which keeps object and new_status.
<1>f. ASSUME NEW r \in Replicas, NEW t, Update(r, t), JobStep, UNCHANGED <<clock, cr>>,
             t.obj = task[r].obj, t.now = task[r].now, t.new = task[r].new,
             \/ {task[r].step, t.step} \subseteq {"list_pods", "ensure_jobs"}
             \/ task[r].step \in {"relist", "cleanup"}
                   /\ t.step \in {"relist", "cleanup", "patch_status"}
      PROVE  Frame'
  <2>1. Flight(task[r])
    BY <1>f DEF Frame, InFlight
  <2>2. Flight(t)
    BY <1>f, <2>1 DEF Flight
  <2> QED
    BY <1>a, <1>f, <2>2
<1>1. ASSUME NEW r \in Replicas, Begin(r)
      PROVE  Frame'
  <2> DEFINE base == desired_status(cr.spec, clock, cr.status)
             t == [task[r] EXCEPT !.step   = IF base.reason = "InvalidSpec"
                                             THEN "patch_status" ELSE "list_pods",
                                  !.obj    = cr,
                                  !.now    = clock,
                                  !.nsLeft = IF base.reason = "InvalidSpec"
                                             THEN {} ELSE cr.spec.namespaces,
                                  !.new    = base]
  <2>1. Update(r, t) /\ UNCHANGED <<clock, cr, job>>
    BY <1>1 DEF Begin, cluster
  <2>2. JobStep
    BY <2>1, JobSteps
  <2>3. /\ t.step = IF base.reason = "InvalidSpec" THEN "patch_status" ELSE "list_pods"
        /\ t.obj = cr /\ t.now = clock /\ t.new = base
    <3> HIDE DEF base
    <3> QED
      BY <1>0 DEF Task
  <2>4. Past(cr.status, clock)
    BY DEF Frame, Published
  <2>5. CASE SpecIsValid(cr.spec)
    <3>1. base = WithReason(cr.status, cr.status, "NotYetReconciled", clock)
      BY <2>5 DEF desired_status
    <3>2. /\ base.reason = "NotYetReconciled" /\ base.scanned = cr.status.scanned
          /\ base.last = cr.status.last /\ base.next = cr.status.next
      BY <1>0, <3>1 DEF WithReason, Status
    <3> HIDE DEF t, base
    <3>3. Flight(t)
      BY <1>0, <2>3, <2>4, <2>5, <3>2 DEF Flight, Past, Untouched, Lifecycle!SameHistory
    <3> QED
      BY <1>a, <2>1, <2>2, <3>3
  <2>6. CASE ~SpecIsValid(cr.spec)
    <3>1. base = WithReason(cr.status, cr.status, "InvalidSpec", clock)
      BY <2>6 DEF desired_status
    <3>2. base.reason = "InvalidSpec"
      BY <1>0, <3>1 DEF WithReason, Status
    <3>3. "InvalidSpec" \in Lifecycle!Reports /\ Untouched(cr.status)
      BY DEF Lifecycle!Reports, Untouched, Lifecycle!SameHistory
    <3> HIDE DEF t, base
    <3>4. Ready(base)
      BY <1>0, <2>4, <3>1, <3>3, ReportIsReady DEF Past, Frame
    <3>5. Flight(t)
      BY <1>0, <2>3, <2>4, <3>2, <3>4 DEF Flight, Past
    <3> QED
      BY <1>a, <2>1, <2>2, <3>5
  <2> QED
    BY <2>5, <2>6
<1>2. ASSUME NEW r \in Replicas, NEW ns \in Namespaces, ListPods(r, ns)
      PROVE  Frame'
  <2> DEFINE t == [task[r] EXCEPT !.nsLeft = @ \ {ns},
                                  !.images = @ \cup collect_images(ns)]
  <2>1. /\ t.obj = task[r].obj /\ t.now = task[r].now
        /\ t.new = task[r].new /\ t.step = task[r].step
    BY <1>0 DEF Task
  <2>2. Update(r, t) /\ At(r, "list_pods") /\ UNCHANGED <<clock, cr, job>>
    BY <1>2 DEF ListPods, cluster
  <2> HIDE DEF t
  <2> QED
    BY <1>f, <2>1, <2>2, JobSteps DEF At
<1>3. ASSUME NEW r \in Replicas, ListPodsDenied(r) \/ BuildFails(r)
      PROVE  Frame'
  BY <1>3, <1>e, JobSteps DEF ListPodsDenied, BuildFails, cluster, Lifecycle!Reports
<1>4. ASSUME NEW r \in Replicas, CollectImages(r)
      PROVE  Frame'
  <2>0. At(r, "list_pods") /\ UNCHANGED <<clock, cr, job>>
    BY <1>4 DEF CollectImages, cluster
  <2>1. CASE task[r].images = {}
    BY <1>4, <1>e, <2>0, <2>1, JobSteps DEF CollectImages, Lifecycle!Reports
  <2>2. CASE task[r].images # {}
    <3> DEFINE t == [task[r] EXCEPT !.step = "ensure_jobs", !.todo = task[r].images]
    <3>1. /\ t.obj = task[r].obj /\ t.now = task[r].now
          /\ t.new = task[r].new /\ t.step = "ensure_jobs"
      BY <1>0 DEF Task
    <3>2. Update(r, t)
      BY <1>4, <2>2 DEF CollectImages
    <3> HIDE DEF t
    <3> QED
      BY <1>f, <2>0, <3>1, <3>2, JobSteps DEF At
  <2> QED
    BY <2>1, <2>2
<1>5. ASSUME NEW r \in Replicas, NEW i \in Images, CreateJob(r, i)
      PROVE  Frame'
  <2> DEFINE t == [task[r] EXCEPT !.todo = @ \ {i}]
  <2>1. /\ t.obj = task[r].obj /\ t.now = task[r].now
        /\ t.new = task[r].new /\ t.step = task[r].step
    BY <1>0 DEF Task
  <2>2. Update(r, t) /\ At(r, "ensure_jobs") /\ UNCHANGED <<clock, cr>>
    BY <1>5 DEF CreateJob, cluster
  <2>3. JobStep
    BY <1>5, JobSteps DEF CreateJob
  <2> HIDE DEF t
  <2> QED
    BY <1>f, <2>1, <2>2, <2>3 DEF At
<1>6. ASSUME NEW r \in Replicas, NEW i \in Images, CreateJobDenied(r, i)
      PROVE  Frame'
  <2>1. JobStep
    BY <1>6, JobSteps DEF CreateJobDenied
  <2> QED
    BY <1>6, <1>e, <2>1 DEF CreateJobDenied, cluster, Lifecycle!Reports
<1>7. ASSUME NEW r \in Replicas, Spawned(r)
      PROVE  Frame'
  <2> DEFINE t == [task[r] EXCEPT !.step = "list_owned", !.new = Orchestrated(r, "Scanning")]
  <2>1. /\ t.step = "list_owned" /\ t.new = Orchestrated(r, "Scanning")
        /\ t.obj = task[r].obj /\ t.now = task[r].now
    BY <1>0 DEF Task
  <2>2. Update(r, t) /\ At(r, "ensure_jobs") /\ UNCHANGED <<clock, cr, job>>
    BY <1>7 DEF Spawned, cluster
  <2>3. "Scanning" \in Lifecycle!Reports
    BY DEF Lifecycle!Reports
  <2> HIDE DEF t
  <2>4. Flight(t)
    BY <1>d, <2>1, <2>2, <2>3 DEF Flight, At
  <2> QED
    BY <1>a, <2>2, <2>4, JobSteps
<1>8. ASSUME NEW r \in Replicas, ListOwnedJobs(r)
      PROVE  Frame'
  <2> DEFINE stat == status_with_aggregated_outcome(task[r].new, task[r].obj.status, job,
                                                    clock, task[r].now)
             next == schedule_decision(task[r].obj.spec, stat)
             fin  == [stat EXCEPT !.next = next]
             t1   == [task[r] EXCEPT !.step = IF is_schedule_due(next, task[r].now)
                                              THEN "relist" ELSE "patch_status",
                                     !.new  = fin]
             t2   == [task[r] EXCEPT !.step = "patch_status", !.new = stat]
  <2>1. At(r, "list_owned") /\ UNCHANGED <<clock, cr, job>>
    BY <1>8 DEF ListOwnedJobs, cluster
  <2>2. /\ Flight(task[r]) /\ Ready(task[r].new) /\ task[r].new.reason = "Scanning"
        /\ SpecIsValid(task[r].obj.spec) /\ task[r].obj.status = cr.status
    BY <2>1 DEF Frame, InFlight, Flight, At
  <2>3. stat = status_with_aggregated_outcome(task[r].new, cr.status, job, clock, task[r].now)
    BY <2>2
  <2>4. IF stat.reason \in Terminal THEN Ready(fin) ELSE Ready(stat)
    <3> HIDE DEF stat
    <3> QED
      BY <1>0, <2>2, <2>3, AggregatedIsReady DEF Frame, Flight
  <2>5. IF stat.reason \in Terminal THEN Update(r, t1) ELSE Update(r, t2)
    BY <1>8 DEF ListOwnedJobs, PatchNext
  <2>6. /\ t1.step \in {"relist", "patch_status"} /\ t1.new = fin
        /\ t1.obj = task[r].obj /\ t1.now = task[r].now
        /\ t2.step = "patch_status" /\ t2.new = stat
        /\ t2.obj = task[r].obj /\ t2.now = task[r].now
    <3> HIDE DEF stat, next, fin
    <3> QED
      BY <1>0 DEF Task
  <2> HIDE DEF stat, next, fin, t1, t2
  <2>7. CASE stat.reason \in Terminal
    <3>1. Flight(t1)
      BY <2>2, <2>4, <2>6, <2>7 DEF Flight
    <3> QED
      BY <1>a, <2>1, <2>5, <2>7, <3>1, JobSteps
  <2>8. CASE stat.reason \notin Terminal
    <3>1. Flight(t2)
      BY <2>2, <2>4, <2>6, <2>8 DEF Flight
    <3> QED
      BY <1>a, <2>1, <2>5, <2>8, <3>1, JobSteps
  <2> QED
    BY <2>7, <2>8
<1>9. ASSUME NEW r \in Replicas, ListTerminalJobs(r)
      PROVE  Frame'
  <2> DEFINE t == [task[r] EXCEPT !.step = IF TerminalJobs = {} THEN "patch_status" ELSE "cleanup",
                                  !.dels = TerminalJobs]
  <2>1. /\ t.obj = task[r].obj /\ t.now = task[r].now
        /\ t.new = task[r].new /\ t.step \in {"cleanup", "patch_status"}
    BY <1>0 DEF Task
  <2>2. Update(r, t) /\ At(r, "relist") /\ UNCHANGED <<clock, cr, job>>
    BY <1>9 DEF ListTerminalJobs, cluster
  <2> HIDE DEF t
  <2> QED
    BY <1>f, <2>1, <2>2, JobSteps DEF At
<1>10. ASSUME NEW r \in Replicas, NEW i \in Images, DeleteJob(r, i)
      PROVE  Frame'
  <2> DEFINE t == [task[r] EXCEPT !.dels = @ \ {i},
                                  !.step = IF task[r].dels = {i}
                                           THEN "patch_status" ELSE "cleanup"]
  <2>1. /\ t.obj = task[r].obj /\ t.now = task[r].now
        /\ t.new = task[r].new /\ t.step \in {"cleanup", "patch_status"}
    BY <1>0 DEF Task
  <2>2. Update(r, t) /\ At(r, "cleanup") /\ UNCHANGED <<clock, cr>>
    BY <1>10 DEF DeleteJob, cluster
  <2>3. JobStep
    BY <1>10, JobSteps DEF DeleteJob
  <2> HIDE DEF t
  <2> QED
    BY <1>f, <2>1, <2>2, <2>3 DEF At
<1>11. ASSUME NEW r \in Replicas, ListJobsError(r) \/ Crash(r) \/ Restart(r)
      PROVE  Frame'
  BY <1>11, <1>b, JobSteps DEF ListJobsError, Crash, Restart, Return, cluster
<1>12. ASSUME NEW r \in Replicas, NEW i \in Images, DeleteJobError(r, i)
      PROVE  Frame'
  <2>1. JobStep
    BY <1>12, JobSteps DEF DeleteJobError
  <2> QED
    BY <1>12, <1>b, <2>1 DEF DeleteJobError, Return, cluster
<1>13. ASSUME NEW r \in Replicas, PatchStatus(r) \/ PatchStatusError(r)
      PROVE  Frame'
  <2>1. /\ At(r, "patch_status") /\ UNCHANGED <<clock, job>>
        /\ Update(r, Blank("idle"))
        /\ ApplyPatch(r) \/ UNCHANGED cr
    BY <1>13 DEF PatchStatus, PatchStatusError, Return, cluster
  <2>2. CASE UNCHANGED cr
    BY <1>b, <2>1, <2>2, JobSteps
  <2>3. CASE ApplyPatch(r)
    <3>1. Past(cr'.status, clock) /\ Lifecycle!Covered(cr'.status)
          /\ JobsAfter(cr'.status) /\ FitsSchedule(cr'.status)
      BY <2>1, <2>3, PatchPublishes
    <3>2. Published'
      BY <2>1, <3>1 DEF Published, JobsAfter
    <3>3. JobsPast'
      BY <2>1 DEF Frame, JobsPast
    <3>4. \A q \in Replicas : ~InFlight(q)'
      BY <1>0, <2>1 DEF Update, InFlight, Blank
    <3> QED
      BY <3>2, <3>3, <3>4 DEF Frame
  <2> QED
    BY <2>1, <2>2, <2>3
<1>14. ASSUME Tick
      PROVE  Frame'
  <2>1. clock' = clock + 1 /\ UNCHANGED <<cr, job, task>>
    BY <1>14 DEF Tick
  <2>2. ASSUME NEW s \in Status, Past(s, clock)
        PROVE  Past(s, clock + 1)
    BY <1>0, <2>2, SkewAssumption DEF Past, Status, OptTime, Time
  <2>3. Published'
    BY <1>0, <2>1, <2>2 DEF Frame, Published, JobsAfter
  <2>4. JobsPast'
    <3>1. \A i \in Images : job[i] # NoJob /\ job[i].finishTime # None
                              => job[i].finishTime \in Nat
      BY DEF TypeOK, Job, OptTime, Time
    <3> QED
      BY <1>0, <2>1, <3>1, SkewAssumption DEF Frame, JobsPast
  <2>5. ASSUME NEW r \in Replicas, InFlight(r)
        PROVE  Flight(task[r])'
    <3>1. Flight(task[r])
      BY <2>5 DEF Frame
    <3>2. task[r].now <= clock + 1
      BY <1>0, <3>1 DEF Flight, Time
    <3>3. Ready(task[r].new) => Ready(task[r].new)'
      BY <1>0, <2>1, SuccessorLater DEF Ready, JobsAfter
    <3> QED
      BY <2>1, <3>1, <3>2, <3>3 DEF Flight, Untouched
  <2> QED
    BY <2>1, <2>3, <2>4, <2>5 DEF Frame, InFlight
<1>15. ASSUME NEW p \in Pods, PodChanges(p)
      PROVE  Frame'
  BY <1>15, <1>c, JobSteps DEF PodChanges
<1>16. ASSUME EditSpec
      PROVE  Frame'
  <2>1. cr'.status = cr.status
    BY <1>0, <1>16 DEF EditSpec, Cr
  <2>2. UNCHANGED <<clock, job, task>>
    BY <1>16 DEF EditSpec, cluster
  <2> QED
    BY <1>c, <2>1, <2>2, JobSteps
<1>17. ASSUME NEW i \in Images, ScanPodFails(i) \/ JobTTLExpires(i) \/ JobController(i)
      PROVE  Frame'
  <2>1. JobStep
    BY <1>17, JobSteps DEF JobController
  <2>2. UNCHANGED <<clock, cr, task>>
    BY <1>17 DEF ScanPodFails, JobTTLExpires, JobController, ScanPodSucceeds, JobFinishes,
                 JobCollected, cluster
  <2> QED
    BY <1>c, <2>1, <2>2
<1>18. ASSUME UNCHANGED vars
      PROVE  Frame'
  BY <1>18, <1>c, JobSteps DEF vars
<1>19. ASSUME NEW r \in Replicas, Progress(r) \/ Failure(r) \/ WatchDeliver(r)
      PROVE  Frame'
  BY <1>1, <1>2, <1>3, <1>4, <1>5, <1>6, <1>7, <1>8, <1>9, <1>10, <1>11, <1>12, <1>13, <1>19
     DEF Progress, Failure, WatchDeliver
<1> QED
  BY <1>14, <1>15, <1>16, <1>17, <1>18, <1>19 DEF Next, Environment

LEMMA FrameHolds ==
    ASSUME \A q, r \in Replicas : q = r, StaleCache = FALSE
    PROVE  Spec => []Frame
<1>1. Init => Frame
  <2> SUFFICES ASSUME Init PROVE Frame
    OBVIOUS
  <2>1. cr.status = NoStatus
    BY DEF Init
  <2>2. Past(NoStatus, clock) /\ JobsAfter(NoStatus) /\ FitsSchedule(NoStatus)
    BY DEF NoStatus, Past, JobsAfter, FitsSchedule, Terminal
  <2>3. Lifecycle!Covered(NoStatus)
    BY DEF NoStatus, Lifecycle!Covered, Lifecycle!Entries
  <2>4. JobsPast /\ \A r \in Replicas : ~InFlight(r)
    BY DEF Init, JobsPast, InFlight, Blank
  <2> QED
    BY <2>1, <2>2, <2>3, <2>4 DEF Frame, Published
<1>2. TypeOK /\ TypeOK' /\ Frame /\ [Next]_vars => Frame'
  BY FrameStep
<1> QED
  BY <1>1, <1>2, TypeCorrect, PTL DEF Spec

\* Only a patch changes the stored status, and to a successor.
LEMMA StatusStep ==
    ASSUME TypeOK, Frame, [Next]_vars
    PROVE  \/ cr'.status = cr.status /\ (clock' = clock \/ clock' = clock + 1)
           \/ clock' = clock /\ Lifecycle!Successor(cr.status, cr'.status, clock)
<1>1. cr \in Cr
  BY DEF TypeOK
<1>2. ASSUME NEW r \in Replicas, PatchStatus(r) \/ PatchStatusError(r)
      PROVE  /\ clock' = clock
             /\ cr'.status = cr.status \/ Lifecycle!Successor(cr.status, cr'.status, clock)
  BY <1>2, PatchPublishes DEF PatchStatus, PatchStatusError, cluster
<1>3. CASE EditSpec
  BY <1>1, <1>3 DEF EditSpec, Cr, cluster
<1>4. ASSUME NEW r \in Replicas, Progress(r) \/ Failure(r) \/ WatchDeliver(r),
             ~PatchStatus(r), ~PatchStatusError(r)
      PROVE  clock' = clock /\ cr' = cr
  BY <1>4 DEF Progress, Failure, Begin, ListPods, ListPodsDenied, CollectImages, BuildFails,
              CreateJob, CreateJobDenied, Spawned, ListOwnedJobs, ListTerminalJobs,
              ListJobsError, DeleteJob, DeleteJobError, Crash, Restart, WatchDeliver, cluster
<1>5. CASE \E i \in Images : ScanPodFails(i) \/ JobTTLExpires(i) \/ JobController(i)
  BY <1>5 DEF ScanPodFails, JobTTLExpires, JobController, ScanPodSucceeds, JobFinishes,
              JobCollected, cluster
<1>6. CASE Tick \/ (\E p \in Pods : PodChanges(p)) \/ UNCHANGED vars
  BY <1>6 DEF Tick, PodChanges, vars
<1> QED
  BY <1>2, <1>3, <1>4, <1>5, <1>6 DEF Next, Environment

-----------------------------------------------------------------------------
(* The reconcile loop of one replica with a current cache implements the   *)
(* life cycle of ScanLifecycle, whatever calls fail or are applied without *)
(* an answer, whenever the process crashes and whatever the user edits.    *)
THEOREM StatusHasLifecycle ==
    ASSUME \A q, r \in Replicas : q = r, StaleCache = FALSE
    PROVE  Spec => ImplementsLifecycle
<1>1. Init => Lifecycle!Init
  BY DEF Init, NoStatus, Lifecycle!Init
<1>2. TypeOK /\ Frame /\ [Next]_vars => [Lifecycle!Next]_(Lifecycle!vars)
  BY StatusStep DEF Lifecycle!Next, Lifecycle!Publish, Lifecycle!Tick, Lifecycle!vars
<1> QED
  BY <1>1, <1>2, FrameHolds, TypeCorrect, PTL DEF Spec, ImplementsLifecycle, Lifecycle!Spec

(* In a terminal scan state the stored nextScheduledScanAt belongs to the  *)
(* stored anchor under a schedule the user wrote (schedule_decision and    *)
(* the merge patch of namespace_scan.rs).                                  *)
THEOREM NextFitsAnchor ==
    ASSUME \A q, r \in Replicas : q = r, StaleCache = FALSE
    PROVE  Spec => []NextMatchesAnchor
<1>1. Frame => NextMatchesAnchor
  BY DEF Frame, Published, FitsSchedule, NextMatchesAnchor
<1> QED
  BY <1>1, FrameHolds, PTL
=============================================================================
