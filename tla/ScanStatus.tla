------------------------------ MODULE ScanStatus ------------------------------
(***************************************************************************)
(* The status mappers of status.rs and the schedule decision of            *)
(* reconcile/namespace_scan.rs, as operators on abstract status records.   *)
(* The Ready condition is its reason: Ready is True exactly for            *)
(* ScanCompleted, so comparing reasons compares (status, reason).          *)
(* lastReconciledAt, messages and SBOM locations are left out.             *)
(***************************************************************************)
EXTENDS JobStatus, Scheduler, FiniteSetsExt

CONSTANT Namespaces   \* namespaces that a spec.target may name

\* Mutant: the schedule is consulted during a scan as well.
TerminalOrScanning == {"ScanCompleted", "ScanFailed", "Scanning"}

Terminal == {"ScanCompleted", "ScanFailed"}

Reasons == {"Absent", "NotYetReconciled", "InvalidSpec", "Scanning",
            "NoImagesInScope", "RBACInsufficient", "BuildFailed"} \cup Terminal

(* What the operator reads of a NamespaceScan spec.  buildable is FALSE    *)
(* when build_scan_job rejects the spec: an empty mikebomImage, or an      *)
(* output block that lacks what its type requires.                         *)
ScanSpec == [namespaces    : SUBSET Namespaces,
             labelSelector : BOOLEAN,
             schedule      : Schedule,
             buildable     : BOOLEAN]

(* conditions[Ready].(reason, lastTransitionTime), lastScanCompletedAt,    *)
(* scannedImages (image -> completedAt) and nextScheduledScanAt.           *)
Status == [reason  : Reasons,
           ltt     : OptTime,
           last    : OptTime,
           scanned : [Images -> OptTime],
           next    : OptTime]

\* A CR that was never reconciled has no status.
NoStatus == [reason  |-> "Absent",
             ltt     |-> None,
             last    |-> None,
             scanned |-> [i \in Images |-> None],
             next    |-> None]

is_target_valid(spec) == spec.namespaces # {} \/ spec.labelSelector

SpecIsValid(spec) == is_target_valid(spec) /\ parse_schedule(spec.schedule) # "Err"

\* lastTransitionTime is kept while the condition does not change.
last_transition_time(existing, reason, now) ==
    IF existing.reason = reason THEN existing.ltt ELSE now

WithReason(base, existing, reason, now) ==
    [base EXCEPT !.reason = reason,
                 !.ltt    = last_transition_time(existing, reason, now)]

desired_status(spec, now, existing) ==
    WithReason(existing, existing,
               IF SpecIsValid(spec) THEN "NotYetReconciled" ELSE "InvalidSpec", now)

\* Mutant: a result without a reason of its own.
status_with_orchestration_result_raw(base, existing, result, now) ==
    WithReason(base, existing, IF result = "Scanning" THEN "Spawned" ELSE result, now)

(* result is the reason the orchestration result maps to: Scanning for     *)
(* Spawned, otherwise the result's own name.                               *)
status_with_orchestration_result(base, existing, result, now) ==
    WithReason(base, existing, result, now)

\* Mutant: only the first scan sets lastScanCompletedAt.
advance_last_once(last, newly) ==
    LET times == {newly[i] : i \in Images} \ {None}
    IN  IF last # None \/ times = {} THEN last ELSE Max(times)

\* lastScanCompletedAt advances to the latest of itself and the new entries.
advance_last(last, newly) ==
    LET times == ({last} \cup {newly[i] : i \in Images}) \ {None}
    IN  IF times = {} THEN None ELSE Max(times)

status_with_aggregated_outcome(base, existing, owned, current, now) ==
    LET newly == scanned_images(owned, current)
    IN  CASE aggregate_job_outcomes(owned) = "AllSucceeded" ->
               [WithReason(base, existing, "ScanCompleted", now) EXCEPT
                  !.scanned = merge_scanned_images_append_only(base.scanned, newly),
                  !.last    = advance_last(base.last, newly)]
          [] aggregate_job_outcomes(owned) = "AnyFailed" ->
               WithReason(base, existing, "ScanFailed", now)
          [] OTHER -> base

\* Mutant: the cadence is counted from the creation for ever.
anchor_creation(status) == 0

(* The anchor is lastScanCompletedAt, else metadata.creationTimestamp,     *)
(* which is time 0 here.                                                   *)
anchor(status) == IF status.last = None THEN 0 ELSE status.last

schedule_decision(spec, status) ==
    compute_next_scheduled_time(parse_schedule(spec.schedule), anchor(status))

\* Mutant: a nextScheduledScanAt that is stored already is never replaced.
merge_patch_keep_next(stored, patch) ==
    [patch EXCEPT !.last = IF patch.last = None THEN stored.last ELSE patch.last,
                  !.next = IF stored.next = None THEN patch.next ELSE stored.next]

(* A JSON merge patch of the status: the Option fields that are None are   *)
(* not serialised, so the stored value stays; the arrays are replaced.     *)
merge_patch(stored, patch) ==
    [patch EXCEPT !.last = IF patch.last = None THEN stored.last ELSE patch.last,
                  !.next = IF patch.next = None THEN stored.next ELSE patch.next]
=============================================================================
