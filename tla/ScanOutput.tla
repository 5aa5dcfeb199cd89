------------------------------ MODULE ScanOutput ------------------------------
(***************************************************************************)
(* Where the SBOMs of one NamespaceScan end up: the pods of its scan Jobs, *)
(* container by container, the storage they write to, and the              *)
(* sbomLocation that reconciles record, while the user edits the output    *)
(* block.  All images stay in scope.  A reconcile is cut down to what      *)
(* reads or writes a Job; Reconciler has the rest of it.                   *)
(***************************************************************************)
EXTENDS ScanJob

CONSTANTS
    Specs,         \* the specs the user writes
    BackoffLimit,  \* spec.backoffLimit of a scan Job
    NoJob,         \* no Job object of that name
    None,          \* no scannedImages entry
    MaxEdits,      \* bound on spec edits
    MaxFailures    \* bound on failing containers

ASSUME SpecsAssumption == Specs \subseteq ScanSpec /\ Specs # {}

ASSUME BoundsAssumption == /\ BackoffLimit \in Nat
                           /\ MaxEdits \in Nat
                           /\ MaxFailures \in Nat

VARIABLES
    spec,      \* spec of the stored CR
    job,       \* the scan Job of every image and its latest pod
    store,     \* the SBOMs in the backends: their address and image
    recorded,  \* sbomLocation of every image's scannedImages entry
    rec,       \* the reconcile in flight
    budget     \* what is left of the bounds

vars == <<spec, job, store, recorded, rec, budget>>

Extensions == {scan_format_args(f) : f \in Formats}

\* Where an SBOM is, or is said to be.
Location == [type   : {"Pvc", "S3", "Oci"},
             store  : Stores \cup {Absent},
             prefix : Prefix,
             image  : Images,
             ext    : Extensions \cup {"", "json"}]

(* A Job with the spec it was built from.  done and out belong to its      *)
(* present pod: the containers that ended well and the files under         *)
(* /workdir/out, each known by its extension.                              *)
Job == [spec      : Specs,
        volumes   : SUBSET {"workdir", "pvc-output", "oci-credentials"},
        done      : SUBSET Containers,
        out       : SUBSET Extensions,
        failed    : 0 .. BackoffLimit + 1]

build_scan_job(s) == [spec    |-> s,
                      volumes |-> volumes(s),
                      done    |-> {},
                      out     |-> {},
                      failed  |-> 0]

Succeeded(j) == j.done = Containers

\* Mutant: one pod more than backoffLimit allows.
FailedLate(j) == j.failed > BackoffLimit + 1

Failed(j) == j.failed > BackoffLimit

Active(j)    == j # NoJob /\ ~Succeeded(j) /\ ~Failed(j)

Idle == [step |-> "idle", spec |-> CHOOSE s \in Specs : TRUE, todo |-> {}]

Init ==
    /\ spec \in Specs
    /\ job = [i \in Images |-> NoJob]
    /\ store = {}
    /\ recorded = [i \in Images |-> None]
    /\ rec = Idle
    /\ budget = [edits |-> MaxEdits, failures |-> MaxFailures]

-----------------------------------------------------------------------------
(* The reconcile. *)

Begin ==
    /\ rec.step = "idle"
    /\ rec' = [step |-> "ensure_jobs", spec |-> spec, todo |-> Images]
    /\ UNCHANGED <<spec, job, store, recorded, budget>>

BuildFails ==
    /\ rec.step = "ensure_jobs"
    /\ ~Buildable(rec.spec)
    /\ rec' = Idle
    /\ UNCHANGED <<spec, job, store, recorded, budget>>

\* A Job that exists (409) stays as it is, whatever spec it was built from.
CreateJob(i) ==
    /\ rec.step = "ensure_jobs"
    /\ i \in rec.todo
    /\ Buildable(rec.spec)
    /\ job' = [job EXCEPT ![i] = IF @ = NoJob THEN build_scan_job(rec.spec) ELSE @]
    /\ rec' = [rec EXCEPT !.todo = @ \ {i}]
    /\ UNCHANGED <<spec, store, recorded, budget>>

Listed == {i \in Images : job[i] # NoJob}

(* List and aggregate; when every listed Job succeeded, the patch records  *)
(* one entry for each.                                                     *)
Record ==
    /\ rec.step = "ensure_jobs"
    /\ rec.todo = {}
    /\ recorded' = [i \in Images |->
                      IF i \in Listed /\ \A k \in Listed : Succeeded(job[k])
                      THEN derive_sbom_location(rec.spec, i) ELSE recorded[i]]
    /\ rec' = Idle
    /\ UNCHANGED <<spec, job, store, budget>>

-----------------------------------------------------------------------------
(* The containers of a Job's pod. *)

(* init containers start in order, the others when all of them are done;   *)
(* no pod starts before its claim is there.                                *)
MayRun(j, c) ==
    /\ Active(j)
    /\ c \notin j.done
    /\ j.spec.output.type = "Pvc" => StoreExists(j.spec.output)
    /\ \/ \E k \in DOMAIN pod_template.init :
             /\ pod_template.init[k] = c
             /\ \A l \in 1 .. k - 1 : pod_template.init[l] \in j.done
       \/ /\ c \in pod_template.main
          /\ \A l \in DOMAIN pod_template.init : pod_template.init[l] \in j.done

Ends(i, c) == [job EXCEPT ![i].done = @ \cup {c}]

InitPull(i) ==
    /\ MayRun(job[i], "init-pull")
    /\ job' = Ends(i, "init-pull")
    /\ UNCHANGED <<spec, store, recorded, rec, budget>>

MikebomScan(i) ==
    /\ MayRun(job[i], "mikebom-scan")
    /\ job' = [Ends(i, "mikebom-scan") EXCEPT
                 ![i].out = @ \cup {scan_format_args(job[i].spec.format)}]
    /\ UNCHANGED <<spec, store, recorded, rec, budget>>

\* cp, and aws s3 cp --recursive, take every *.json file there is.
copied(i) ==
    {[upload_address(job[i].spec, i) EXCEPT !.ext = e] : e \in job[i].out}

\* oras takes the one file named in its arguments.
pushed(i) ==
    {upload_address(job[i].spec, i) : e \in job[i].out \cap {scan_format_args(job[i].spec.format)}}

uploads(i) == IF job[i].spec.output.type = "Oci" THEN pushed(i) ELSE copied(i)

\* cp and oras fail when there is no file to send; aws s3 cp --recursive does not.
OutputUpload(i) ==
    /\ MayRun(job[i], "output-upload")
    /\ StoreExists(job[i].spec.output)
    /\ uploads(i) # {} \/ job[i].spec.output.type = "S3"
    /\ store' = store \cup uploads(i)
    /\ job' = Ends(i, "output-upload")
    /\ UNCHANGED <<spec, recorded, rec, budget>>

(* A container fails and with it the pod (restartPolicy Never); the next   *)
(* pod has an empty workdir.  A failing upload may have stored its files.  *)
ContainerFails(i, c) ==
    /\ MayRun(job[i], c)
    /\ budget.failures > 0
    /\ budget' = [budget EXCEPT !.failures = @ - 1]
    /\ job' = [job EXCEPT ![i].done = {}, ![i].out = {}, ![i].failed = @ + 1]
    /\ \/ UNCHANGED store
       \/ /\ c = "output-upload"
          /\ StoreExists(job[i].spec.output)
          /\ store' = store \cup uploads(i)
    /\ UNCHANGED <<spec, recorded, rec>>

-----------------------------------------------------------------------------
(* The user, and whoever deletes a finished Job: its TTL or a re-scan. *)

EditSpec ==
    /\ budget.edits > 0
    /\ budget' = [budget EXCEPT !.edits = @ - 1]
    /\ spec' \in Specs \ {spec}
    /\ UNCHANGED <<job, store, recorded, rec>>

JobDeleted(i) ==
    /\ job[i] # NoJob
    /\ ~Active(job[i])
    /\ job' = [job EXCEPT ![i] = NoJob]
    /\ UNCHANGED <<spec, store, recorded, rec, budget>>

Next ==
    \/ Begin
    \/ BuildFails
    \/ Record
    \/ EditSpec
    \/ \E i \in Images :
         \/ CreateJob(i)
         \/ InitPull(i)
         \/ MikebomScan(i)
         \/ OutputUpload(i)
         \/ JobDeleted(i)
         \/ \E c \in Containers : ContainerFails(i, c)

Spec == Init /\ [][Next]_vars

-----------------------------------------------------------------------------
\* Every variable has its type.
TypeOK ==
    /\ spec \in Specs
    /\ job \in [Images -> Job \cup {NoJob}]
    /\ store \subseteq {a \in Location : a.store # Absent}
    /\ recorded \in [Images -> Location \cup {None}]
    /\ rec \in [step : {"idle", "ensure_jobs"}, spec : Specs, todo : SUBSET Images]
    /\ budget \in [edits : Nat, failures : Nat]

(* What a user looks up is the object whatever its extension. *)
SameObject(a, b) == /\ a.type = b.type /\ a.store = b.store
                    /\ a.prefix = b.prefix /\ a.image = b.image

(* A Job that succeeded left its image's SBOM, in the format of its spec,  *)
(* where its own output block says, although containers fail, pods are     *)
(* retried and only the last container decides the outcome (mod.rs:8).     *)
SucceededIsStored ==
    \A i \in Images : job[i] # NoJob /\ Succeeded(job[i]) =>
        upload_address(job[i].spec, i) \in store

(* No Job is created whose containers ask for what its spec does not       *)
(* have: what they mount is among its volumes, and the store and the       *)
(* credentials Secret of its type are named (the checks of                 *)
(* build_output_upload_container and of build_scan_job agree, and the      *)
(* expect of mod.rs:415 never panics).                                     *)
BuiltJobsCanRun ==
    \A i \in Images : job[i] # NoJob =>
        LET o == job[i].spec.output
        IN  /\ mounts(job[i].spec) \subseteq job[i].volumes
            /\ o.store # Absent
            /\ o.type # "Pvc" => o.secret

\* derive_sbom_location trims a prefix, output-upload strips it of a slash.
PlainPrefix(output) == /\ output.prefix.pad = {}
                       /\ output.type = "S3" => output.prefix.slashes = 0

(* An entry recorded under the output block its Job was built with leads   *)
(* to a stored SBOM, but for the extension, if the prefix has no blanks    *)
(* around it and, in a bucket, no leading slash: for other prefixes the    *)
(* location that derive_sbom_location makes up is another one.             *)
RecordedLeadsToObject ==
    [][\A i \in Images :
         /\ recorded'[i] # recorded[i]
         /\ job[i].spec.output = rec.spec.output
         /\ PlainPrefix(rec.spec.output)
         => \E a \in store : SameObject(recorded'[i], a)]_vars

(* The recorded location is that of a stored SBOM (quickstart of feature   *)
(* 008: SBOMs are in the output backend, enumerate them by sbomLocation).  *)
RecordedIsStored == \A i \in Images : recorded[i] # None => recorded[i] \in store
=============================================================================
