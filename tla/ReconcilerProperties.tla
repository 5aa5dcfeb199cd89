------------------------ MODULE ReconcilerProperties ------------------------
(***************************************************************************)
(* What the reconcile loop promises, stated over the variables of          *)
(* Reconciler.                                                             *)
(***************************************************************************)
EXTENDS Reconciler

\* Every variable has its type (the fields of the CRD, Job and locals).
TypeOK ==
    /\ clock \in Time
    /\ cr \in Cr
    /\ pod \in [Pods -> PodPhases]
    /\ job \in [Images -> Job \cup {NoJob}]
    /\ born \in [Images -> OptTime]
    /\ cache \in [Replicas -> Cr]
    /\ task \in [Replicas -> Task]
    /\ budget \in Budget

-----------------------------------------------------------------------------
(* A scan Job that is still in progress is never deleted: neither by the   *)
(* clean-up of a due schedule, which acts on a listing read before         *)
(* (scheduler.rs cleanup_terminal_jobs), nor by its TTL.                   *)
NeverDeletesInProgress ==
    [][\A i \in Images : InProgress(i) => job'[i] # NoJob /\ ~job'[i].terminating]_vars

(* The stored lastScanCompletedAt, the anchor of the schedule, is never    *)
(* older than an entry of scannedImages (status.rs                         *)
(* status_with_aggregated_outcome), whatever merge patch is applied last.  *)
AnchorCoversEntries ==
    \A i \in Images : cr.status.scanned[i] # None =>
        /\ cr.status.last # None
        /\ cr.status.scanned[i] <= cr.status.last

(* In a terminal scan state the stored nextScheduledScanAt is the one that *)
(* the stored lastScanCompletedAt gives under some schedule the user       *)
(* wrote: the merge patch never leaves one of the two behind.              *)
NextMatchesAnchor ==
    cr.status.reason \in Terminal =>
        \E s \in Specs : SpecIsValid(s) /\ cr.status.next = schedule_decision(s, cr.status)

-----------------------------------------------------------------------------
Lifecycle == INSTANCE ScanLifecycle WITH status <- cr.status

(* The stored status goes through the life cycle of ScanLifecycle: every   *)
(* patch, applied with or without its answer, before or after a crash, an  *)
(* edit or a denied call (namespace_scan.rs reconcile), is one of its      *)
(* steps, and nothing else changes the status.                             *)
ImplementsLifecycle == Lifecycle!Spec

-----------------------------------------------------------------------------
(* A reconcile that is about to report ScanCompleted records an entry for  *)
(* every image it found in scope (FR-005, FR-006 of feature 008).          *)
CompletedCoversImages ==
    \A r \in Replicas :
        At(r, "patch_status") /\ task[r].new.reason = "ScanCompleted" =>
            \A i \in task[r].images : task[r].new.scanned[i] # None

(* No image is scanned again before its schedule says so: a Job replaces   *)
(* an earlier one of its image only an interval after that one was made,   *)
(* give or take what the clocks differ by.                                 *)
RespawnKeepsCadence ==
    [][\A i \in Images : ~Exists(i) /\ job'[i] # NoJob /\ born[i] # None =>
         clock + Skew >= born[i] + Interval]_vars

StartsCleanup(r) == ~At(r, "cleanup") /\ task'[r].step = "cleanup"

(* The clean-up of a due schedule starts only when no Job of the CR is in  *)
(* progress (FR-006 of feature 009).                                       *)
NoRescanWhileScanning ==
    [][\A r \in Replicas : StartsCleanup(r) => \A i \in Images : ~InProgress(i)]_vars

(* The clean-up acts on a listing later than the one that was aggregated,  *)
(* and yet it starts while a Job is in progress only if the scan failed:   *)
(* no schedule, expiry, crash or edit lets it cut into a scan otherwise.   *)
OnlyFailureCutsIn ==
    [][\A r \in Replicas : StartsCleanup(r) =>
         task[r].new.reason = "ScanFailed" \/ \A i \in Images : ~InProgress(i)]_vars

-----------------------------------------------------------------------------
\* A valid and buildable spec and at least one image in its scope.
InScope(i) == \E ns \in cr.spec.namespaces : i \in collect_images(ns)

Scannable == SpecIsValid(cr.spec) /\ cr.spec.buildable

(* While a scannable CR has an image in scope, the user sees a terminal    *)
(* scan state again and again: no reconcile leaves it in Scanning or in an *)
(* error for ever, whatever failed, crashed or expired before.             *)
ScansSettle ==
    \A i \in Images : <>[](Scannable /\ InScope(i)) => []<>(cr.status.reason \in Terminal)

(* An image that stays in scope has a live Job again and again: one that   *)
(* was deleted for a re-scan or expired is replaced.                       *)
ScannedAgain ==
    \A i \in Images :
        <>[](Scannable /\ InScope(i)) => []<>(Exists(i) /\ ~job[i].terminating)
=============================================================================
