# Verification of mikebom-operator

TLA+ models of the operator, checked with TLC on small instances, and proofs of
its central properties for every value of the constants, checked with TLAPS.
Paths below are relative to the repository; `op/` stands for
`crates/operator/src/`.

## The system

mikebom-operator is a Kubernetes operator with one custom resource,
`NamespaceScan`. For every image run by pods of the target namespaces it keeps a
`batch/v1` Job that makes an SBOM, aggregates the Jobs' outcomes into the
resource's status, and repeats the scan on a schedule. Replicas elect a leader
through a `Lease`; only the leader runs the controller.

| Component | Code | State | Operations |
|---|---|---|---|
| Leader election | `op/leader.rs` | the `Lease` (holder, renewTime); per replica: waiting, acquiring, leading | `try_acquire` (get, then create or patch), retry after 3 s, renew after 5 s, exit on a failed renewal |
| Controller and Job watch | `op/main.rs`, kube-runtime | a watch cache of the CRs, a queue of requests | hand a cached CR to `reconcile`, map Job events to a CR, requeue |
| Reconcile loop | `op/reconcile/namespace_scan.rs`, `scan_orchestrator.rs` | locals of one reconcile: `now`, base status, images, new status | list pods, create Jobs, list owned Jobs, consult the schedule, clean up, patch the status |
| Status mapping | `op/status.rs`, `op/crds/namespace_scan.rs` | the CR's `.status` | pure: `desired_status`, `status_with_orchestration_result`, `status_with_aggregated_outcome` |
| Job aggregation | `op/reconcile/status_aggregator.rs` | none | pure: terminal tests, aggregate, entry of a Job with its location, append-only merge |
| Scheduler | `op/reconcile/scheduler.rs` | none | pure: validate, next instant, due test; `cleanup_terminal_jobs` deletes Jobs |
| Scan Job builder | `op/scan_job/mod.rs` | none of its own; the Job's pod has the workdir and the backends | names, labels, owner, containers, volumes, or a `BuildError`; the pod pulls, scans, uploads |
| CRD generator, chart, CI | `op/crds/serialize.rs`, `crates/ctl`, `charts/`, `.github/` | none | static text |

Everything interacts through the API server. A reconcile reads the CR from the
watch cache, then makes three to dozens of API calls, each an await point; the
Job controller, the TTL controller, the user, the target pods, other CRs'
reconciles and (while two processes believe they lead) another replica act
between any two of them. The last call replaces the status by a JSON merge patch
without a resourceVersion. Its own watch event starts the next reconcile.

What is hard here, and what each component must get right:

- *interleaving and stale reads*: the status is computed from a cached CR and
  written blindly; Jobs are deleted by name from a listing; the Lease is read and
  then patched unconditionally. Entries must not vanish, a Job in progress must
  not be deleted, one replica must lead.
- *partial failure*: any of the calls may fail, or succeed with its answer lost,
  after some Jobs were created or deleted; any container may fail. The next
  reconcile, the next pod, must recover.
- *external deletion*: finished Jobs expire (TTL of an hour) or are deleted while
  a reconcile runs; deleted Jobs stay as terminating objects and answer 409; CRs
  are deleted and created again under a reconcile in flight.
- *sharing*: all Jobs of all CRs live in one namespace under names that may clash.
- *time*: due tests, completion times, transition times, requeues, lease expiry.
- *liveness*: a CR must not be stuck in `Scanning` or forgotten; a lost leader is
  replaced; orphaned Jobs go.

`PROJECT.json` lists the hazards line by line with the properties aimed at them.

## Modules

| Module | Models |
|---|---|
| `JobStatus` | a scan Job as the reconcile loop sees it; `status_aggregator.rs` |
| `Scheduler` | validation, next instant and due test of `scheduler.rs` |
| `ScanStatus` | the status record, the mappers of `status.rs`, `schedule_decision`, the effect of the merge patch |
| `Reconciler` | the reconcile loop, its failures, crashes and cache, the cluster around it |
| `ScanLifecycle` | abstract: what the stored status of a CR promises to whoever watches it |
| `ReconcilerProperties`, `MCReconciler` | types, safety, refinement, action and liveness properties of `Reconciler`; its instances |
| `ReconcilerProofs`, `RoundsProofs`, `LifecycleProofs` | theorems about `Reconciler`: types, Jobs in progress and the anchor; the rounds of scans; that it implements `ScanLifecycle` |
| `ScanJob` | what `scan_job/mod.rs` builds from a spec: addresses, volumes, containers |
| `ScanOutput`, `MCScanOutput`, `ScanOutputProofs` | the pods of the scan Jobs, the backends and the recorded locations |
| `SharedJobs`, `MCSharedJobs`, `SharedJobsProofs` | several CRs over one pool of Jobs: names, labels, owners, deletion |
| `Cadence`, `CadenceProofs` | when reconciles happen: requeues, watch events and latencies, in seconds |
| `LeaderElection`, `MCLeaderElection`, `LeaderProofs` | `leader.rs`, with its properties, instances and theorems |

`Reconciler` is the whole of one CR. `ScanOutput`, `SharedJobs` and `Cadence` each
take the same loop, cut down to the calls that matter to their question, and add
what `Reconciler` leaves out (pods and storage; other CRs; real delays).

### Reconciler

`task[r].step` says which API call the reconcile of replica `r` makes next; the
other fields of `task[r]` are the function's locals. Each action is one call with
all code up to the next one:

| step | code | actions |
|---|---|---|
| `idle` | `reconcile` is entered with the cached object; `desired_status` | `Begin` |
| `list_pods` | one `list` per target namespace, any order; afterwards image collection | `ListPods`, `ListPodsDenied`, `CollectImages` |
| `ensure_jobs` | build and create per image | `CreateJob`, `CreateJobDenied`, `BuildFails`, `Spawned` |
| `list_owned` | list, aggregate, map, schedule decision | `ListOwnedJobs`, `ListJobsError` |
| `relist` | the second listing of a due schedule | `ListTerminalJobs`, `ListJobsError` |
| `cleanup` | one delete per terminal Job | `DeleteJob`, `DeleteJobError` |
| `patch_status` | the merge patch | `PatchStatus`, `PatchStatusError` |
| `off` | the process is down | `Crash`, `Restart` |

A failing write has two outcomes: not applied, and applied with the answer lost.
`Begin` is enabled whenever the replica is idle: each status patch changes
`lastReconciledAt` and so triggers a watch event, besides Job events and requeues.
With `StaleCache` the object comes from `cache[r]`, which `WatchDeliver` brings to
the stored version; otherwise the cache is taken to be current. All runs of it have
one replica, the case of a leader election that works; the theorems say where
more are allowed.

Data is reduced to what the properties distinguish. A Job is identified by its
image (names of one CR are taken to be distinct; `SharedJobs` drops that); the
`Ready` condition is its reason, since its status is a function of it; `scannedImages` is a function from
images to `completedAt`; a schedule is what parsing makes of its two strings; a
cron expression ticks at the multiples of `CronPeriod`; `creationTimestamp` is
time 0. Messages, `lastReconciledAt` and logs are left out, `sbomLocation` is in
`ScanOutput`. The order in which images and namespaces are visited is left open, a superset of the
sorted order of the code. A missing namespace (404) lists as an empty one.

Outside `src/` and modelled from its use: a Job gains failed pods up to
`backoffLimit + 1` or succeeds, its condition and `completionTime` may follow
the counters, it expires a TTL after it finished, and a foreground deletion
leaves a terminating object until it is collected. There are two clocks. The
operator's never runs back; `completionTime` is the Job controller's, in whole
seconds, and may be up to `Skew` before or after it. So an entry that took
`Utc::now()` because the Job had no `completionTime` yet may later be replaced by
an earlier one, while the anchor, once set, keeps the later.

### ScanLifecycle

The abstract specification has two variables, the clock and the stored status, and
one step besides the clock's: `Publish` replaces the status by a `Successor`. A
successor is one of three: a *report* (scanning, no image, denied, invalid, build
failed) leaves the history, its anchor `lastScanCompletedAt` and
`nextScheduledScanAt` alone; a *failure* leaves the history alone and schedules the
next scan from the anchor; a *completion* takes no entry away, moves none back by
more than the two clocks can differ (`2 * Skew`), makes the
anchor the latest of the entries and the former anchor, and schedules from it. `lastTransitionTime` moves, forwards
only, exactly when the reason changes. The refinement mapping of
`ReconcilerProperties!Lifecycle` is the stored `status`: deletions, listings,
crashes, edits and patches that are not applied must be stutters of it, and a patch that
is applied one step, whether or not its answer arrives.

### LeaderElection

One tick is one second and the constants of the runs are the code's: 15 s lease,
renewal after 5 s, retry after 3 s. Reading and patching are two actions, and the
timestamp written is the one taken before (`age`). Ages and countdowns replace
timestamps, so the clock needs no bound. `timer` runs while a replica sleeps and
`age` while an attempt is out. Clocks agree, the Lease is not deleted by hand, and a
container keeps its identity when it restarts, at any later moment.

The renewal (`leader.rs:186`) is a merge patch with `PatchParams::apply(..).force()`.
kube 0.97 allows `force` only with an apply patch and refuses any other before it
makes a call, so every renewal fails and ends the process: `RenewalRefused` is the only
thing a renewer does. A leader leads for 5 s, exits, and Kubernetes restarts it.

No call has a timeout. An attempt that takes longer than `Latency` is a fault here
(`Stall`): it may then hang as long as it likes and write its old stamp at any time,
which `late` remembers. Every other attempt is over within `Latency`.

### ScanJob and ScanOutput

`ScanJob` has the pure part of the builder. An address is a backend type, store
(claim, bucket, repository), prefix, image and extension. A prefix is the blanks around
it, a number of leading slashes and a folder: the upload strips one slash and trims
nothing, `derive_sbom_location` trims the blanks and strips no slash, and `Seen` is what
the backend makes of it (a file system ignores repeated slashes, an object key does not). A claim, bucket or
repository with blanks around its name passes the builder's checks but exists nowhere
(`StoreExists`): its Job never succeeds. `volumes` and `mounts` are
separate, as in the code, where two matches on the output block must agree.

`ScanOutput` runs the pods: `init-pull`, `mikebom-scan`, then `output-upload`, each an
action that may fail (`ContainerFails`: the pod is replaced with an empty workdir, up
to `backoffLimit`; a failing upload may have stored its files). `copied` is the shell
`cp` and the recursive S3 copy, which succeeds without any file; `pushed` is `oras`
with its one named file. The user edits the whole spec between and during the Jobs;
`Record` is the aggregation, which takes the location from the CR it read and not
from the Job. Reading a failing `crane | tar` without `pipefail` as a failing
container, and `oras` with an absolute path as accepted, are assumptions about
images outside the repository.

### SharedJobs

Job names are computed character by character (`sanitize_dns1123`, truncation,
trimming), because two properties are about them; hashes are any function of images,
colliding ones included. The instances make the limits 3 characters (name) and 4
(label) where the code and Kubernetes have more, so that short names meet them. A
Job carries name, label, IMAGE_REF and the owner's uid; creation answers 409 for an
existing name of whoever, 422 for a label that is too long; listing is by label; the
garbage collector looks an owner up by uid in the Job's own namespace. A patch goes
by name and so lands on a CR re-created meanwhile. The images in scope belong to the
object (`scope`): a CR created again may have another target, and `Retarget` changes it
in place, an edit or pods that come and go. `scoped` remembers what was in scope of an
object of that name. Scans do not fail here and the
clock is left out.

### Cadence

One tick is one second. `queue` is the runtime's scheduler entry of the object, the
earliest of all requests; a reconcile begins when it is 0 and none is in flight.
`Calls` is the reconcile up to its patch; whether a schedule is due follows from the
Jobs it lists, as in the code, where the anchor is the one just aggregated.
`PatchStatus` is the patch with the requeue of `next_requeue_interval`, computed from the
`nextScheduledScanAt` the new status has (in `Scanning` the one stored before, if any),
or, on a 404, none; failing calls requeue after the error delay. Each
reconcile and each watch event takes at most `Latency`. The event of a CR triggers
whatever changed in it, as no predicate filters; the event of a Job only when CR
and Job are in one namespace (`job_to_cr_request`). `Work` is what only a reconcile
can do for the CR: create missing Jobs, report a finished scan, fire a due schedule;
`late` counts how long it has waited.

## Runs

Passing runs:

| Run | Instance | Shows |
|---|---|---|
| `reconciler_core` | 2 images, 2 pods in 2 namespaces, a lagging cache, interval 1, time to 2, 1 fault (an API error or crash); no failing scan, TTL out of reach | types; the anchor covers the entries; a re-scan waits for its interval |
| `reconciler_edits` | 1 image, 1 pod, 5 specs (good, selector only, both schedules, cron, bad output), 1 edit or pod change, 1 failed pod, TTL 1, 1 fault, `Skew` 1 | the loop implements `ScanLifecycle`; `nextScheduledScanAt` fits the stored anchor |
| `reconciler_live` | 2 images, `FairSpec`, `backoffLimit` 1, 2 failed pods, TTL 1, 1 fault | a scannable CR reaches a terminal reason again and again, and its deleted Jobs come back; `ScanLifecycle` with two images; a clean-up cuts into a scan only when that has failed; no Job in progress is deleted, neither by a clean-up on an older listing nor by its TTL |
| `leader_failover` | 3 replicas, the code's durations, latency 2, 1 fault (crash, failed or hung call) | types; a replica that is up sees a leader within 30 s; nobody finds a lease expired under a leader unless the attempt that wrote it had hung |
| `scan_output` | 2 images, 10 specs (all backends, blanks and slashes, rejected ones), 1 edit, 3 failing containers, `backoffLimit` 1 | a succeeded Job stored its SBOM where its own spec says; its pod has what it asks for; a location recorded for a plain prefix leads to an object |
| `shared_jobs` | 2 CRs in 5 scenarios: unlike names, names that clash after sanitising, namesakes in two namespaces, a name too long for the label, colliding hashes; `FairSpec`, 1 deletion or new target | names are unique and within limits; nothing is recorded that was not scanned, nor an image that was never in scope of that name; orphans go; a CR that shares nothing completes |
| `cadence` | a tenth of the code's delays, interval 33 s, latency 2, 1 failing call, 1 deletion, inside or outside the operator's namespace | a living CR is never forgotten; work waits for two reconciles and the event between them, 6 s without faults |

The bounds `MaxTime`, `MaxEdits`, `MaxFaults`, `MaxFailures`, `MaxDeletes` and
`MaxChanges` only cut behaviours short, and the clock may stop while everything else
goes on. Two images are the least for which a listing is mixed (one succeeded, one
failed, absent or running) and a create loop or clean-up stops half-way;
`reconciler_edits` has one, to afford edits, clocks and failures together, and
`reconciler_live` checks the same refinement with two. In `reconciler_core` the interval
is 1, so time to 2 has a scan, its due schedule, the re-scan and the next due schedule.
One fault at any call covers each error path and the recovery from it; three failing
containers end one Job and burn a retry of the other. `Interval` of one tick stands for
any interval: only differences between times count. In `cadence` the interval is beyond
one heartbeat, so that a schedule becomes due with a heartbeat queued and with an
imminent requeue; the order of the delays is the code's, their size does not matter to
the proofs. `Skew` is 0 in `reconciler_live`, whose clock may stop for ever: with a TTL
as short as `Skew` Jobs would then expire as fast as they are created.

Some instances are assumptions and not bounds. `RespawnKeepsCadence` in
`reconciler_core` takes the TTL to be no shorter than the interval, which
`respawn_after_ttl` drops, and no scan to fail for good: a failing scan is respawned as
soon as it is due again, without a run (see below). `reconciler_edits` and
`reconciler_live` take the cache to be current: a stale one can drop entries (below).
`leader_failover` has one fault because 30 s are enough for one: a second may cost
another lease duration (`Within` in `LeaderProofs`). The proofs cover what the bounds cut
off.

Fairness is weak everywhere. In `reconciler_live`: on the steps a replica takes by
itself, because every requeue of the code is finite (5 s, 60 s, 300 s) and the
runtime polls every future, and Kubernetes restarts the container; on watch delivery;
and on the Job controller, which ends every scan and collects deleted Jobs. In
`shared_jobs`: on the reconcile of every CR, for the same reason (`NeverForgotten` of
`Cadence` is what backs it), on scans and on the garbage collector. Faults, edits,
ticks, expiries, deletions and creations are not fair.

Deadlock is checked in every run. Every property of a passing run is paired with a
mutant of the modelled code (an operator defined just before the one it replaces)
that makes it fail.

## Findings

Each is a run that TLC finds violated, for a property that a comment or document
of the repository states (quoted in `PROJECT.json`):

- `two_leaders`: every renewal is refused, so a leader exits after 5 s. When it restarts
  as its lease expires, it takes the lease back by its identity while another replica has
  read it as expired: both patch, both lead. No crash or failed call is needed.
- `respawn_after_ttl`: Jobs that expire are recreated by the next reconcile, so
  with a schedule longer than the TTL the images are scanned every hour. (FR-002 of
  feature 007 asks for a Job wherever there is no live one; that is what the code does.)
- `completed_coverage`: a Job that succeeded expires after `ensure_jobs` saw it and before
  the listing; the others aggregate to `ScanCompleted`, and its image has no entry.
- `rescan_beside_scan`: one failed Job makes `ScanFailed`, which opens the schedule gate
  while other Jobs still run; the clean-up of a due schedule then starts beside them. It
  leaves those alone (`NeverDeletesInProgress`).
- `recorded_location`: `sbomLocation` ends in `.json`, where the object ends in
  `.cdx.json`, `.spdx.json` or `.spdx3.json`.

Also seen while modelling, without a run:

- Each reconcile writes a new `lastReconciledAt` (`status.rs:88`), whose event starts the
  next: with nothing to do the status is patched without pause, where
  `specs/002-reconciler-skeleton/research.md:37` expects once in 5 minutes.
- The refused renewal itself: `contracts/leader-election.md:30` of feature 002 has
  `renewTime` updated every ~5 seconds, SC-004 there no flapping; no lease is ever
  renewed, and the leader changes or restarts all the time.
- A scan that fails does not advance the anchor; once due it is deleted and respawned
  back to back, `nextScheduledScanAt` staying in the past.
- When a failed Job vanishes between create (409) and list, the rest may aggregate to
  `ScanCompleted` just the same.
- `sbomLocation` follows the output block the CR has when the outcome is recorded, not
  the Job's (against FR-008 of feature 008), and a prefix is trimmed in the location but
  not in the upload.
- `RBACInsufficient` may be reported after some Jobs were created. A CR whose name is
  too long for a label is refused (422) on every create and reported so for ever.
- A reconcile from an outdated cache drops entries.
- An error in the clean-up returns before the status patch and loses the completion
  just aggregated.
- Old Jobs of a CR that has another target now, or of a deleted CR of the same name, are
  listed by label and their images recorded.
- With two leaders a Job created by one can be deleted by the other from an older
  listing.
- Owner references of CRs outside the operator's namespace cross namespaces; the
  garbage collector takes such owners for absent and collects the Jobs, which the next
  reconcile creates again.
- A cron expression without a future tick (30 February), or an interval past the last
  date, panics at `scheduler.rs:105`; the restarted process meets the same CR again.

## Proofs

All theorems hold for every value of the constants that meets the named assumptions
of the modules: any number of images (finitely many where an anchor is the latest of
them), pods, namespaces, specs, CRs, replicas, any delays and any bounds.

`ReconcilerProofs`:

- `TypeCorrect`: `Spec => []TypeOK`. `TypeOK` is inductive. The work is in the
  types of the mappers: `AggregatedType` rests on `AdvanceLast`, which says that
  `advance_last` returns a time and that it is the latest; that in turn needs
  `FiniteSetHasMax`, proved from the well-foundedness of `<` on the naturals.
- `InProgressIsKept`: with one replica, `Spec => NeverDeletesInProgress`. The
  invariant `SafeToDelete` adds what makes the old listing safe: whatever waits
  in `dels` is still not in progress, because only a creation makes a Job
  progress and the one replica does not create while it cleans up; and a finished
  Job is terminal, so the TTL never hits one in progress. The assumption is needed:
  two leaders break the property.
- `AnchorIsCovering`: `Spec => []AnchorCoversEntries` for any number of replicas
  and any cache lag. The stored status alone is not inductive: `AllCover` states
  the property of every status in the system, in caches, in cached objects and in
  statuses about to be patched, and the merge patch keeps it because a patch that
  carries entries always carries the anchor over them.

`RoundsProofs`, for one replica:

- `OnlyFailedScansAreCutInto`: `Spec => OnlyFailureCutsIn`, for any cache lag, failed
  calls, crashes and failing pods. The invariant `Calm` says that from the second
  listing to the end of a clean-up every Job there is is terminal or the status about to
  be written is `ScanFailed`: any other aggregation that leaves `Scanning` means that
  every Job has succeeded, and nobody makes another meanwhile.
- `RespawnWaitsForInterval`: `Spec /\ []NoScanFails => RespawnKeepsCadence`, when
  schedules are intervals and the TTL is no shorter than the interval and `Skew`. Pods
  may fail and be retried; what `NoScanFails` excludes is a Job that uses up its
  `backoffLimit`. `Aged` says that a Job that is gone, terminating or about to be deleted
  was made an interval ago, give or take `Skew`. `DueJobsElapsed` is the heart of it: the
  anchor is no older than any listed Job's end (`AdvanceLast`), so when the next scan is
  due each of them is an interval old.

`ReplicaSteps` says once what a step of a replica may do to the Jobs and is what both
proofs split on.

`LifecycleProofs`, for one replica and a current cache (both are needed: two writers,
or an old base, put an older history back):

- `StatusHasLifecycle`: `Spec => ImplementsLifecycle`, the refinement, for any `Skew`
  between the two clocks. The invariant `Frame` says that the object a reconcile works on
  keeps the stored status, that the new status is untouched until the outcome of
  `ensure_jobs` is known and a `Successor` of the stored one from then on, and that no
  entry is further ahead of the clock than `Skew`, nor of its Job's end than twice that.
- `NextFitsAnchor`: `Spec => []NextMatchesAnchor` follows from `Frame`.

`LeaderProofs`, when `RenewInterval + Latency <= LeaseDuration`:

- `NoTakeover`: the invariant `Fresh` bounds the age of the lease under every leader
  together with what is left of the 5 s it leads, unless an attempt that had hung wrote
  the lease; so a lease found expired otherwise has no leader. It speaks of the moment of
  the read only: the patch that follows may meet another leader (`two_leaders`).
- `ElectionTypes`: countdowns stay within the sleep they belong to, stamps within
  `Latency` unless the attempt hangs.
- `LeaderIsReplaced`: `Spec => []FailoverInTime`, when moreover a retry fits in the lease
  (`RetryInterval + 2 * Latency <= LeaseDuration + 1`) and the limit allows for the faults
  (`FailoverLimit >= Within(MaxFaults + 1)`, the one more being the exit at the refused
  renewal). `Bounded` ties the seconds a replica has been without a leader to the age of
  the lease, the countdown to its next attempt and the number of faults spent. Every second
  fault costs at most one outage: a whole lease, and an attempt after it; an even number
  costs one attempt more. With the code's durations, a latency of 2 s and one fault that is
  30 s, just what FR-008 asks.

`ScanOutputProofs`: the invariant `Sound` follows each Job through its containers: a
finished scan left its file in the workdir, a finished upload the object in the store,
and Jobs come from specs that pass the builder's checks (which is what `JobsCanRun` needs:
the two matches on the output block agree on volumes, store and Secret). From it
`SuccessIsStored`, `JobsCanRun`, and `RecordedLeads` (recording happens only when the Job succeeded);
`OutputTypes`.

`SharedJobsProofs`: `RecordedRan` from `Genuine` (a done Job's image ran, and no
status, stored or in flight, has another image) and `RecordsOwnImages` from `Separate`
(the Jobs with the label of a CR that alone has its name are for its own images). Both
hold whatever `job_name` and the hashes are: only labels and IMAGE_REF matter. Own
images are those an object of that name had in scope at some time; old Jobs outlive a
change of target, so no more can be said.
`SharedTypes` (`Spec => []TypeOK`) is about the names: whatever a CR is called, each Job
has a name of allowed characters within the limit (`WellNamed`), after
sanitising, cutting and trimming, and no two Jobs have the same. `HashSurvives`: cutting
the CR's name never cuts the hash, so two images of one CR clash only when their
hashes do.

`CadenceProofs`: `NeverLost` from `Hot`: a CR without a reconcile has an event under
way, a request for now, or after an error one within `ERROR_REQUEUE`. The 404 that
ends a reconcile without a requeue is harmless because a re-creation has an event of
its own. `ActsInTime` from `InTime`, a potential: what was waited for plus what is
still ahead is at most the bound, where ahead of a useful reconcile (one that will do
the work) is the rest of its calls, and ahead of any other also its event and the
calls of the next. The bound grows with each fault by the error delay and a latency.
The heartbeat is never needed: the operator is always hot (above).
`CadenceTypes`: no request waits longer than a heartbeat.

Model-checked only: the liveness properties `ScansSettle`, `ScannedAgain`,
`OrphansCollected` and `ApartCompletes`, since liveness under fairness and ENABLED are
out of the prover's reach, as is induction over data, such as what `sanitize_dns1123`
returns for every name beyond its characters and length. Every other property of a
passing run is a theorem. No module declares a recursive operator.

## Not modelled

A cron expression without a future tick (the grammar is that of the `cron` crate,
version 0.12); a CR without a uid (`namespace_scan.rs:98`, which publishes
`NotYetReconciled` without orchestrating; the API server stamps a uid on every object);
replicas that share the identity `unknown` because `POD_NAME` is unset (`main.rs:27`; the
chart sets it); image
references as text, arguments, resources and security contexts of the containers; what
the images of the containers do beyond success and failure; log messages and condition
messages; the CRD generator (`crates/ctl`, pure serialisation), the chart and CI. The
stubs `output/mod.rs`, `image_diff.rs` and `job_template.rs` hold comments only. The
chart's `leaderElection.enabled` only sets the name of the Lease: the code elects a
leader in any case.

## Plan

Done: the core loop, its life cycle and refinement, the scan Jobs and their output, CRs
that share Jobs, requeue timing, the election, and the proofs above. Left, in order:

1. `OperatorCluster`: `LeaderElection` with `Reconciler`: what two leaders may do to
   Jobs and history, and that one leader at a time suffices.
2. The lemmas of `RoundsProofs` for several CRs that share no label, in `SharedJobs`.
