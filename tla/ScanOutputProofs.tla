--------------------------- MODULE ScanOutputProofs ---------------------------
(***************************************************************************)
(* ScanOutput for any images, specs and bounds: what Jobs are built, what  *)
(* a Job that succeeded has stored, and where recorded locations lead.     *)
(***************************************************************************)
EXTENDS ScanOutput, TLAPS

-----------------------------------------------------------------------------
(* The builder. *)

LEMMA SpecFields ==
  ASSUME NEW s \in Specs
  PROVE  /\ s \in ScanSpec
         /\ s.format \in Formats
         /\ s.output \in Output
         /\ s.output.type \in {"Pvc", "S3", "Oci"}
         /\ s.output.prefix \in Prefix
         /\ s.output.store \in Stores \cup {Absent}
         /\ s.output.prefix.slashes \in Nat
  BY SpecsAssumption DEF ScanSpec, Output, Prefix

LEMMA TheContainers == Containers = {"init-pull", "mikebom-scan", "output-upload"}
<1>1. DOMAIN pod_template.init = {1, 2}
  BY DEF pod_template
<1>2. pod_template.init[1] = "init-pull" /\ pod_template.init[2] = "mikebom-scan"
  BY DEF pod_template
<1> QED
  BY <1>1, <1>2 DEF Containers, pod_template

\* The main container waits for the init containers.
LEMMA UploadIsLast ==
  ASSUME NEW j, MayRun(j, "output-upload")
  PROVE  "mikebom-scan" \in j.done
<1>1. DOMAIN pod_template.init = {1, 2}
  BY DEF pod_template
<1>2. pod_template.init[1] = "init-pull" /\ pod_template.init[2] = "mikebom-scan"
  BY DEF pod_template
<1> QED
  BY <1>1, <1>2 DEF MayRun

\* What the containers mount, the builder has put among the volumes.
LEMMA MountsAreVolumes ==
  ASSUME NEW s \in Specs, Buildable(s)
  PROVE  /\ mounts(s) \subseteq volumes(s) /\ s.output.store \in Stores
         /\ s.output.type # "Pvc" => s.output.secret
<1>1. s.output.type \in {"Pvc", "S3", "Oci"} /\ s.output.store \in Stores
  BY SpecFields, SpecsAssumption DEF ScanSpec, Output, Buildable, OutputIsComplete
<1>2. CASE s.output.type = "Pvc"
  BY <1>1, <1>2 DEF mounts, volumes, Buildable, OutputIsComplete
<1>3. CASE s.output.type = "S3"
  BY <1>1, <1>3 DEF mounts, volumes, Buildable, OutputIsComplete
<1>4. CASE s.output.type = "Oci"
  BY <1>1, <1>4 DEF mounts, volumes, Buildable, OutputIsComplete
<1> QED
  BY <1>1, <1>2, <1>3, <1>4

\* strip_leading_slash matters in an object key only, and only to a slash.
LEMMA StrippedPrefix ==
  ASSUME NEW type \in {"Pvc", "S3", "Oci"}, NEW p \in Prefix,
         p.pad = {}, type = "S3" => p.slashes = 0
  PROVE  Seen(type, strip_leading_slash(p)) = Seen(type, trim(p))
<1>1. trim(p) = p
  BY DEF trim, Prefix
<1>2. CASE type = "Pvc"
  <2> DEFINE q == strip_leading_slash(p)
  <2>1. q.pad = {}
    BY DEF strip_leading_slash, Prefix
  <2>2. [q EXCEPT !.slashes = 0] = [p EXCEPT !.slashes = 0]
    BY DEF strip_leading_slash, Prefix
  <2>3. Seen(type, q) = [q EXCEPT !.slashes = 0]
    BY <1>2, <2>1 DEF Seen
  <2>4. Seen(type, p) = [p EXCEPT !.slashes = 0]
    BY <1>2 DEF Seen
  <2> HIDE DEF q
  <2> QED
    BY <1>1, <2>2, <2>3, <2>4 DEF q
<1>3. CASE type = "S3"
  BY <1>1, <1>3 DEF Seen, strip_leading_slash, Prefix
<1>4. CASE type = "Oci"
  BY <1>4 DEF Seen
<1> QED
  BY <1>2, <1>3, <1>4

LEMMA SameButExtension ==
  ASSUME NEW o, NEW p, NEW q, NEW i, NEW e, NEW f,
         Seen(o.type, p) = Seen(o.type, q)
  PROVE  SameObject(Address(o, p, i, e), Address(o, q, i, f))
  BY DEF SameObject, Address

\* Both addresses of one output block are those of one object, but for ext.
LEMMA DerivedIsUploaded ==
  ASSUME NEW s \in Specs, NEW t \in Specs, NEW i,
         s.output = t.output, PlainPrefix(t.output)
  PROVE  SameObject(derive_sbom_location(t, i), upload_address(s, i))
<1> DEFINE o == t.output
<1>1. o.type \in {"Pvc", "S3", "Oci"} /\ o.prefix \in Prefix
  BY SpecFields
<1>2. Seen(o.type, strip_leading_slash(o.prefix)) = Seen(o.type, trim(o.prefix))
  BY <1>1, StrippedPrefix DEF PlainPrefix
<1> QED
  BY <1>2, SameButExtension DEF derive_sbom_location, upload_address

\* No conversion leaves the type of a prefix.
LEMMA SeenType ==
  ASSUME NEW type \in {"Pvc", "S3", "Oci"}, NEW p \in Prefix
  PROVE  Seen(type, p) \in Prefix /\ trim(p) \in Prefix /\ strip_leading_slash(p) \in Prefix
<1>1. trim(p) \in Prefix /\ strip_leading_slash(p) \in Prefix
  BY DEF trim, strip_leading_slash, Prefix
<1>2. NoPrefix \in Prefix
  BY DEF NoPrefix, Prefix
<1>3. [p EXCEPT !.slashes = 0] \in Prefix /\ [p EXCEPT !.slashes = 1] \in Prefix
  BY DEF Prefix
<1>4. Seen(type, p) \in Prefix
  BY <1>2, <1>3 DEF Seen
<1> QED
  BY <1>1, <1>4

\* Whatever is written or made up is a location in its spec's store.
LEMMA AddressType ==
  ASSUME NEW s \in Specs, NEW i \in Images, NEW p \in Prefix,
         NEW e \in Extensions \cup {"", "json"}
  PROVE  Address(s.output, p, i, e) \in Location
<1>1. Seen(s.output.type, p) \in Prefix
  BY SpecFields, SeenType
<1> QED
  BY <1>1, SpecFields DEF Address, Location

LEMMA DerivedType ==
  ASSUME NEW s \in Specs, NEW i \in Images
  PROVE  derive_sbom_location(s, i) \in Location
  BY SpecFields, SeenType, AddressType DEF derive_sbom_location

LEMMA UploadedType ==
  ASSUME NEW s \in Specs, NEW i \in Images
  PROVE  upload_address(s, i) \in Location
<1>1. scan_format_args(s.format) \in Extensions
  BY SpecFields DEF Extensions
<1> QED
  BY <1>1, SpecFields, SeenType, AddressType DEF upload_address

LEMMA AddressFields ==
  ASSUME NEW s \in Specs, NEW i
  PROVE  /\ upload_address(s, i).store = s.output.store
         /\ upload_address(s, i).image = i
         /\ s.output.type # "Oci" => upload_address(s, i).ext = scan_format_args(s.format)
         /\ \A e : [upload_address(s, i) EXCEPT !.ext = e].store = s.output.store
         /\ \A e : [upload_address(s, i) EXCEPT !.ext = e].image = i
         /\ [upload_address(s, i) EXCEPT !.ext = upload_address(s, i).ext] = upload_address(s, i)
  BY DEF upload_address, Address

\* The upload of a complete out folder stores the SBOM the Job was made for.
LEMMA UploadsTheSbom ==
  ASSUME NEW i \in Images, NEW s \in Specs, job[i].spec = s,
         scan_format_args(s.format) \in job[i].out
  PROVE  upload_address(s, i) \in uploads(i)
<1>1. CASE s.output.type = "Oci"
  BY <1>1 DEF uploads, pushed
<1>2. CASE s.output.type # "Oci"
  <2>1. upload_address(s, i).ext \in job[i].out
    BY <1>2, AddressFields
  <2> QED
    BY <1>2, <2>1, AddressFields DEF uploads, copied
<1> QED
  BY <1>1, <1>2

\* Whatever is uploaded goes to the store of the Job's output block.
LEMMA UploadsToItsStore ==
  ASSUME NEW i \in Images, job[i] \in Job, NEW a \in uploads(i)
  PROVE  a \in Location /\ a.store = job[i].spec.output.store
<1> DEFINE u == upload_address(job[i].spec, i)
<1>1. job[i].spec \in Specs /\ u \in Location /\ u.store = job[i].spec.output.store
  BY UploadedType, AddressFields DEF Job
<1> HIDE DEF u
<1>2. CASE job[i].spec.output.type = "Oci"
  BY <1>1, <1>2 DEF uploads, pushed, u
<1>3. CASE job[i].spec.output.type # "Oci"
  <2>1. PICK e \in job[i].out : a = [u EXCEPT !.ext = e]
    BY <1>3 DEF uploads, copied, u
  <2>2. e \in Extensions
    BY <2>1 DEF Job
  <2> QED
    BY <1>1, <2>1, <2>2 DEF Location
<1> QED
  BY <1>2, <1>3

-----------------------------------------------------------------------------
(***************************************************************************)
(* Sound says of every Job how far its pod has come: that is what makes    *)
(* SucceededIsStored inductive.  Jobs are built from accepted specs only,  *)
(* so that every store written to is one of Stores.                        *)
(***************************************************************************)
Progressed(i) ==
    LET j == job[i]
    IN  /\ j.volumes = volumes(j.spec)
        /\ Buildable(j.spec)
        /\ "mikebom-scan" \in j.done => scan_format_args(j.spec.format) \in j.out
        /\ "output-upload" \in j.done => upload_address(j.spec, i) \in store

Sound == \A i \in Images : job[i] # NoJob => Progressed(i)

LEMMA InitSound == Init => TypeOK /\ Sound
  BY BoundsAssumption, SpecsAssumption DEF Init, TypeOK, Sound, Idle

\* A step that changes one Job and at most adds to the store.
LEMMA JobStep ==
  ASSUME TypeOK, Sound, NEW i \in Images,
         \A k \in Images \ {i} : job'[k] = job[k],
         store \subseteq store',
         job'[i] # NoJob => Progressed(i)'
  PROVE  Sound'
<1> SUFFICES ASSUME NEW k \in Images, job'[k] # NoJob PROVE Progressed(k)'
  BY DEF Sound
<1>1. CASE k = i
  BY <1>1
<1>2. CASE k # i
  BY <1>2 DEF Sound, Progressed
<1> QED
  BY <1>1, <1>2

LEMMA CreateJobSound ==
  ASSUME TypeOK, Sound, NEW i \in Images, CreateJob(i)
  PROVE  TypeOK' /\ Sound'
<1> DEFINE new == build_scan_job(rec.spec)
<1>1. rec.spec \in Specs /\ Buildable(rec.spec)
  BY DEF TypeOK, CreateJob
<1>2. new \in Job
  BY <1>1, BoundsAssumption DEF build_scan_job, Job, volumes
<1>3. TypeOK'
  BY <1>2 DEF TypeOK, CreateJob
<1>4. CASE job[i] = NoJob
  <2>1. job'[i] = new /\ \A k \in Images \ {i} : job'[k] = job[k]
    BY <1>4 DEF TypeOK, CreateJob
  <2>2. Progressed(i)'
    BY <1>1, <2>1 DEF Progressed, build_scan_job, CreateJob
  <2> QED
    BY <1>3, <2>1, <2>2, JobStep DEF CreateJob
<1>5. CASE job[i] # NoJob
  BY <1>3, <1>5, JobStep DEF TypeOK, CreateJob, Sound, Progressed
<1> QED
  BY <1>4, <1>5

LEMMA ContainerIsOfAJob ==
  ASSUME TypeOK, NEW i \in Images, NEW c, MayRun(job[i], c)
  PROVE  job[i] # NoJob /\ job[i] \in Job /\ job[i].failed \in 0 .. BackoffLimit
  BY BoundsAssumption DEF TypeOK, MayRun, Active, Failed, Job

LEMMA InitPullSound ==
  ASSUME TypeOK, Sound, NEW i \in Images, InitPull(i)
  PROVE  TypeOK' /\ Sound'
<1>1. job[i] # NoJob /\ job[i] \in Job
  BY ContainerIsOfAJob DEF InitPull
<1>2. job' = [job EXCEPT ![i] = [job[i] EXCEPT !.done = @ \cup {"init-pull"}]]
  BY DEF InitPull, Ends
<1>3. job'[i] = [job[i] EXCEPT !.done = @ \cup {"init-pull"}]
  BY <1>2 DEF TypeOK
<1>4. job'[i] \in Job
  BY <1>1, <1>3, TheContainers DEF Job
<1>5. TypeOK'
  BY <1>2, <1>3, <1>4 DEF TypeOK, InitPull
<1>6. Progressed(i)'
  BY <1>1, <1>3 DEF Progressed, Sound, InitPull, Job
<1> QED
  BY <1>2, <1>5, <1>6, JobStep DEF InitPull, TypeOK

LEMMA MikebomScanSound ==
  ASSUME TypeOK, Sound, NEW i \in Images, MikebomScan(i)
  PROVE  TypeOK' /\ Sound'
<1> DEFINE e == scan_format_args(job[i].spec.format)
<1>1. job[i] # NoJob /\ job[i] \in Job /\ job[i].spec \in Specs
  BY ContainerIsOfAJob DEF MikebomScan, Job
<1>2. job' = [job EXCEPT ![i] = [job[i] EXCEPT !.done = @ \cup {"mikebom-scan"},
                                               !.out = @ \cup {e}]]
  BY <1>1 DEF MikebomScan, Ends, TypeOK
<1>3. job'[i] = [job[i] EXCEPT !.done = @ \cup {"mikebom-scan"}, !.out = @ \cup {e}]
  BY <1>2 DEF TypeOK
<1>4. e \in Extensions
  BY <1>1, SpecFields DEF Extensions
<1>5. job'[i] \in Job
  <2> DEFINE j == [job[i] EXCEPT !.done = @ \cup {"mikebom-scan"}]
  <2>1. j \in Job
    BY <1>1, TheContainers DEF Job
  <2>2. job'[i] = [j EXCEPT !.out = @ \cup {e}]
    BY <1>1, <1>3 DEF Job
  <2> HIDE DEF j, e
  <2> QED
    BY <1>4, <2>1, <2>2 DEF Job
<1>6. TypeOK'
  BY <1>2, <1>3, <1>5 DEF TypeOK, MikebomScan
<1>7. Progressed(i)'
  <2>1. /\ job'[i].spec = job[i].spec /\ job'[i].volumes = job[i].volumes
        /\ job'[i].done = job[i].done \cup {"mikebom-scan"} /\ e \in job'[i].out
    BY <1>1, <1>3 DEF Job
  <2> QED
    BY <1>1, <2>1 DEF Progressed, Sound, MikebomScan
<1> QED
  BY <1>2, <1>6, <1>7, JobStep DEF MikebomScan, TypeOK

LEMMA OutputUploadSound ==
  ASSUME TypeOK, Sound, NEW i \in Images, OutputUpload(i)
  PROVE  TypeOK' /\ Sound'
<1>1. job[i] # NoJob /\ job[i] \in Job /\ job[i].spec \in Specs
  BY ContainerIsOfAJob DEF OutputUpload, Job
<1>2. job' = [job EXCEPT ![i] = [job[i] EXCEPT !.done = @ \cup {"output-upload"}]]
  BY DEF OutputUpload, Ends
<1>3. job'[i] = [job[i] EXCEPT !.done = @ \cup {"output-upload"}]
  BY <1>2 DEF TypeOK
<1>4. job'[i] \in Job
  BY <1>1, <1>3, TheContainers DEF Job
<1>5. Progressed(i)
  BY <1>1 DEF Sound
<1>6. upload_address(job[i].spec, i) \in store'
  <2>1. "mikebom-scan" \in job[i].done
    BY UploadIsLast DEF OutputUpload
  <2>2. scan_format_args(job[i].spec.format) \in job[i].out
    BY <1>5, <2>1 DEF Progressed
  <2> QED
    BY <1>1, <2>2, UploadsTheSbom DEF OutputUpload
<1>7. job[i].spec.output.store \in Stores
  BY <1>1, <1>5, MountsAreVolumes DEF Progressed
<1>8. TypeOK'
  <2>1. store' \subseteq {a \in Location : a.store # Absent}
    BY <1>1, <1>7, UploadsToItsStore, AbsentAssumption DEF TypeOK, OutputUpload
  <2> QED
    BY <1>2, <1>3, <1>4, <2>1 DEF TypeOK, OutputUpload
<1>9. Progressed(i)'
  BY <1>1, <1>3, <1>5, <1>6 DEF Progressed, OutputUpload, Job
<1> QED
  BY <1>2, <1>8, <1>9, JobStep DEF OutputUpload, TypeOK

LEMMA ContainerFailsSound ==
  ASSUME TypeOK, Sound, NEW i \in Images, NEW c \in Containers, ContainerFails(i, c)
  PROVE  TypeOK' /\ Sound'
<1>1. /\ job[i] # NoJob /\ job[i] \in Job /\ job[i].spec \in Specs
      /\ job[i].failed \in 0 .. BackoffLimit
  BY ContainerIsOfAJob DEF ContainerFails, Job
<1>2. job'[i] = [job[i] EXCEPT !.done = {}, !.out = {}, !.failed = @ + 1]
  BY DEF ContainerFails, TypeOK
<1>3. job'[i] \in Job
  <2> DEFINE j == [job[i] EXCEPT !.done = {}, !.out = {}]
  <2>1. j \in Job /\ j.failed = job[i].failed
    BY <1>1 DEF Job
  <2>2. job'[i] = [j EXCEPT !.failed = @ + 1]
    BY <1>1, <1>2 DEF Job
  <2> HIDE DEF j
  <2> QED
    BY <1>1, <2>1, <2>2, BoundsAssumption DEF Job
<1>4. Progressed(i)
  BY <1>1 DEF Sound
<1>5. job[i].spec.output.store \in Stores
  BY <1>1, <1>4, MountsAreVolumes DEF Progressed
<1>6. store' = store \/ store' = store \cup uploads(i)
  BY DEF ContainerFails
<1>7. store' \subseteq {a \in Location : a.store # Absent}
  BY <1>1, <1>5, <1>6, UploadsToItsStore, AbsentAssumption DEF TypeOK
<1>8. TypeOK'
  BY <1>2, <1>3, <1>7 DEF TypeOK, ContainerFails
<1>9. Progressed(i)'
  BY <1>1, <1>2, <1>4 DEF Progressed, Job
<1> QED
  BY <1>6, <1>8, <1>9, JobStep DEF ContainerFails, TypeOK

LEMMA NextSound ==
  ASSUME TypeOK, Sound, [Next]_vars
  PROVE  TypeOK' /\ Sound'
<1>1. CASE Begin
  BY <1>1 DEF Begin, TypeOK, Sound, Progressed
<1>2. CASE BuildFails
  BY <1>2, SpecsAssumption DEF BuildFails, Idle, TypeOK, Sound, Progressed
<1>3. CASE Record
  <2>1. recorded' \in [Images -> Location \cup {None}]
    <3>1. \A i \in Images : derive_sbom_location(rec.spec, i) \in Location
      BY DerivedType DEF TypeOK
    <3> QED
      BY <1>3, <3>1 DEF Record, TypeOK
  <2> QED
    BY <1>3, <2>1, SpecsAssumption DEF Record, Idle, TypeOK, Sound, Progressed
<1>4. CASE EditSpec
  BY <1>4 DEF EditSpec, TypeOK, Sound, Progressed
<1>5. ASSUME NEW i \in Images, JobDeleted(i)
      PROVE  TypeOK' /\ Sound'
  <2>1. TypeOK'
    BY <1>5 DEF JobDeleted, TypeOK
  <2> QED
    BY <1>5, <2>1, JobStep DEF JobDeleted, TypeOK
<1>6. CASE UNCHANGED vars
  BY <1>6 DEF vars, TypeOK, Sound, Progressed
<1> QED
  BY <1>1, <1>2, <1>3, <1>4, <1>5, <1>6, CreateJobSound, InitPullSound, MikebomScanSound,
     OutputUploadSound, ContainerFailsSound DEF Next

(* Every variable of ScanOutput has its type, recorded locations and       *)
(* stored objects too, and every object is in a store that a spec named.   *)
THEOREM OutputTypes == Spec => []TypeOK
  BY InitSound, NextSound, PTL DEF Spec

LEMMA SoundHolds == Spec => []Sound
  BY InitSound, NextSound, PTL DEF Spec

(* A Job that succeeded left its SBOM where its own output block says,     *)
(* whatever containers failed and pods were replaced before.               *)
THEOREM SuccessIsStored == Spec => []SucceededIsStored
<1>1. Sound => SucceededIsStored
  BY TheContainers DEF Sound, Progressed, SucceededIsStored, Succeeded
<1> QED
  BY <1>1, SoundHolds, PTL

(* No Job is created whose containers ask for a volume, a store or a       *)
(* Secret that its spec does not name, for every spec.                     *)
THEOREM JobsCanRun == Spec => []BuiltJobsCanRun
<1>1. TypeOK /\ Sound => BuiltJobsCanRun
  <2> SUFFICES ASSUME TypeOK, Sound, NEW i \in Images, job[i] # NoJob
               PROVE  LET o == job[i].spec.output
                      IN  /\ mounts(job[i].spec) \subseteq job[i].volumes
                          /\ o.store # Absent
                          /\ o.type # "Pvc" => o.secret
    BY DEF BuiltJobsCanRun
  <2>1. job[i].spec \in Specs /\ Progressed(i)
    BY DEF TypeOK, Sound, Job
  <2> QED
    BY <2>1, MountsAreVolumes, AbsentAssumption DEF Progressed
<1> QED
  BY <1>1, OutputTypes, SoundHolds, PTL

(* A location recorded under the output block its Job was built with leads *)
(* to a stored SBOM but for the extension, if its prefix has no blanks     *)
(* around it and, in a bucket, no leading slash.                           *)
THEOREM RecordedLeads == Spec => RecordedLeadsToObject
<1>1. ASSUME TypeOK, Sound, [Next]_vars, NEW i \in Images,
             recorded'[i] # recorded[i],
             job[i].spec.output = rec.spec.output,
             PlainPrefix(rec.spec.output)
      PROVE  \E a \in store : SameObject(recorded'[i], a)
  <2>1. Record
    BY <1>1 DEF Next, Begin, BuildFails, EditSpec, CreateJob, InitPull, MikebomScan,
                OutputUpload, JobDeleted, ContainerFails, vars
  <2>2. /\ job[i] # NoJob /\ Succeeded(job[i])
        /\ recorded'[i] = derive_sbom_location(rec.spec, i)
    BY <1>1, <2>1 DEF Record, Listed
  <2>3. job[i].spec \in Specs /\ rec.spec \in Specs /\ Progressed(i)
    BY <1>1, <2>2 DEF TypeOK, Sound, Job
  <2>4. upload_address(job[i].spec, i) \in store
    BY <2>2, <2>3, TheContainers DEF Succeeded, Progressed
  <2> QED
    BY <1>1, <2>2, <2>3, <2>4, DerivedIsUploaded
<1>2. TypeOK /\ Sound /\ [Next]_vars =>
        [\A i \in Images :
           /\ recorded'[i] # recorded[i]
           /\ job[i].spec.output = rec.spec.output
           /\ PlainPrefix(rec.spec.output)
           => \E a \in store : SameObject(recorded'[i], a)]_vars
  BY <1>1
<1> QED
  BY <1>2, OutputTypes, SoundHolds, PTL DEF Spec, RecordedLeadsToObject
=============================================================================
