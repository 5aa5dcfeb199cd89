------------------------------ MODULE JobStatus ------------------------------
(***************************************************************************)
(* The scan Job as the operator sees it, and the pure aggregator of        *)
(* reconcile/status_aggregator.rs.  A Job's name is a function of the CR   *)
(* name and of the image reference (scan_job/mod.rs), so within one CR a   *)
(* Job is identified by its image: a listing of the owned Jobs is a        *)
(* function from Images to Job records, NoJob where there is no object.    *)
(***************************************************************************)
EXTENDS Naturals

CONSTANTS
    Images,        \* image references that pods of the targets may run
    BackoffLimit,  \* spec.backoffLimit of every scan Job
    None,          \* an absent Option
    NoJob          \* no Job object of that name

ASSUME BackoffLimitAssumption == BackoffLimit \in Nat

Time == Nat
OptTime == Time \cup {None}

ASSUME NoneAssumption == None \notin Time

(* The fields the operator reads. finishTime is the moment, on the Job     *)
(* controller's clock, of the Complete or Failed condition, which for a    *)
(* successful Job is status.completionTime; terminating stands for a set   *)
(* metadata.deletionTimestamp.                                             *)
Job == [succeeded   : 0 .. 1,
        failed      : 0 .. (BackoffLimit + 1),
        finishTime  : OptTime,
        terminating : BOOLEAN]

ASSUME NoJobAssumption == NoJob \notin Job

(* The Job that build_scan_job describes, as it is right after its creation. *)
build_scan_job == [succeeded   |-> 0,
                   failed      |-> 0,
                   finishTime  |-> None,
                   terminating |-> FALSE]

is_job_succeeded(j) == j.succeeded >= 1

is_job_finally_failed(j) == j.failed > BackoffLimit

\* scheduler.rs: terminal, therefore safe to delete before a re-scan.
should_delete_job(j) == is_job_succeeded(j) \/ is_job_finally_failed(j)

\* The images whose Job a listing of the owned Jobs returns.
Listed(owned) == {i \in Images : owned[i] # NoJob}

\* Mutant: failed Jobs are not looked at.
aggregate_ignoring_failures(owned) ==
    IF Listed(owned) # {} /\ \A i \in Listed(owned) : is_job_succeeded(owned[i])
    THEN "AllSucceeded" ELSE "StillRunning"

(* Failure dominates, then success of every listed Job; an empty listing   *)
(* is still running.                                                       *)
aggregate_job_outcomes(owned) ==
    IF Listed(owned) = {} THEN "StillRunning"
    ELSE IF \E i \in Listed(owned) : is_job_finally_failed(owned[i]) THEN "AnyFailed"
    ELSE IF \A i \in Listed(owned) : is_job_succeeded(owned[i]) THEN "AllSucceeded"
    ELSE "StillRunning"

(* The completedAt of the entry a succeeded Job gives: its completionTime, *)
(* or the operator's current time when the Job has no completionTime yet.  *)
(* The completionTime that a later listing has may be the earlier one.     *)
completed_at(j, current) == IF j.finishTime = None THEN current ELSE j.finishTime

(* The entries of a listing that aggregates to AllSucceeded, as a partial  *)
(* function from images to their completedAt.                              *)
scanned_images(owned, current) ==
    [i \in Images |-> IF owned[i] = NoJob THEN None
                      ELSE completed_at(owned[i], current)]

(* Append-only merge keyed by image; the newly completed entry wins.       *)
merge_scanned_images_append_only(existing, newly) ==
    [i \in Images |-> IF newly[i] = None THEN existing[i] ELSE newly[i]]
=============================================================================
