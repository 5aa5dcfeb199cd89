------------------------------ MODULE SharedJobs ------------------------------
(***************************************************************************)
(* Several NamespaceScans and the one pool of scan Jobs they all keep in   *)
(* the operator's namespace.  A Job is created under a name made from the  *)
(* CR's name and a hash of the image (scan_job/mod.rs), listed by the      *)
(* label that holds the CR's name (status_aggregator.rs), watched by that  *)
(* label (main.rs) and collected by its owner's uid.  CRs are deleted and  *)
(* created again while their reconciles are in flight, and their targets   *)
(* change.  Scans do not fail here and the clock is left out: Reconciler   *)
(* has both.                                                               *)
(***************************************************************************)
EXTENDS Naturals, SequencesExt

CONSTANTS
    CRs,          \* the NamespaceScans
    Scenarios,    \* pairs of a function from CRs to [namespace, name], where name
                  \* is a sequence, and one that short_image_hash may be on Images
    OperatorNs,   \* namespace of the operator and of every Job
    Images,       \* image references
    Targets,      \* the scopes that a CR's target may have, each a set of images
    NameLimit,    \* characters of the CR's name kept in a Job's name
    LabelLimit,   \* length the API server allows for a label's value
    MaxChanges    \* bound on deletions of CRs and of finished Jobs, and on new targets

Alphanumeric == {"a", "b", "c"}

ASSUME ScenariosAssumption ==
    \A s \in Scenarios :
        /\ \A c, d \in CRs : s[1][c] = s[1][d] => c = d
        /\ \A c \in CRs : s[1][c].name \in Seq(STRING)

ASSUME TargetsAssumption == Targets \in [CRs -> SUBSET ((SUBSET Images) \ {{}})]

ASSUME BoundsAssumption == /\ NameLimit \in Nat \ {0}
                           /\ LabelLimit \in Nat
                           /\ MaxChanges \in Nat

VARIABLES
    id,      \* namespace and name of every CR
    hash,    \* short_image_hash
    job_names,  \* what job_name makes of the two
    cr,      \* the stored object of every CR
    jobs,    \* the Jobs in the operator's namespace
    task,    \* the reconcile in flight for every CR
    uids,    \* number of uids given out
    ran,     \* images that some Job scanned (history)
    scoped,  \* images that were ever in scope of an object of that name (history)
    budget   \* deletions and new targets that are left

ids  == <<id, hash, job_names>>
vars == <<id, hash, job_names, cr, jobs, task, uids, ran, scoped, budget>>

-----------------------------------------------------------------------------
(* Names. *)

to_ascii_lowercase(ch) == CASE ch = "A" -> "a" [] ch = "B" -> "b" [] ch = "C" -> "c"
                            [] OTHER -> ch

Push(out, ch) ==
    IF to_ascii_lowercase(ch) \in Alphanumeric THEN Append(out, to_ascii_lowercase(ch))
    ELSE IF out = <<>> \/ Last(out) = "-" THEN out
    ELSE Append(out, "-")

trim_end_hyphen(s) == IF s # <<>> /\ Last(s) = "-" THEN Front(s) ELSE s

\* Runs of other characters become one hyphen, none at the ends.
sanitize_dns1123(s) ==
    LET out[n \in 0 .. Len(s)] == IF n = 0 THEN <<>> ELSE Push(out[n - 1], s[n])
    IN  trim_end_hyphen(out[Len(s)])

Take(s, n) == SubSeq(s, 1, IF Len(s) > n THEN n ELSE Len(s))

\* Mutant: the name as a whole is cut, hash and all.
job_name_cut(name, short_hash) ==
    Take(sanitize_dns1123(name) \o <<"-", short_hash>>, NameLimit)

\* Mutant: the name is not cut.
job_name_long(name, short_hash) == sanitize_dns1123(name) \o <<"-", short_hash>>

\* Without the constant "nsscan-" in front.
job_name(name, short_hash) ==
    trim_end_hyphen(Take(sanitize_dns1123(name), NameLimit)) \o <<"-", short_hash>>

-----------------------------------------------------------------------------
(* State. *)

(* uid, scannedImages, and in scope the images that spec.target selects    *)
(* from the pods there are; the reason is left out.                        *)
NoCr == [uid |-> 0, scope |-> {}, scanned |-> {}]

Alive(c) == cr[c] # NoCr

\* new is the object that was read, with the status until it is replaced.
Idle == [step |-> "idle", todo |-> {}, new |-> NoCr]

Update(c, t) == task' = [task EXCEPT ![c] = t]

At(c, step) == task[c].step = step

PatchNext(c, new) == Update(c, [task[c] EXCEPT !.step = "patch_status", !.new = new])

Init ==
    /\ \E s \in Scenarios : id = s[1] /\ hash = s[2]
    /\ job_names = [c \in CRs |-> [i \in Images |-> job_name(id[c].name, hash[i])]]
    /\ cr = [c \in CRs |-> NoCr]
    /\ jobs = {}
    /\ task = [c \in CRs |-> Idle]
    /\ uids = 0
    /\ ran = {}
    /\ scoped = [c \in CRs |-> {}]
    /\ budget = MaxChanges

-----------------------------------------------------------------------------
(* The reconcile of one CR.  The controller works on one reconcile of an   *)
(* object reference at a time, whatever the uid behind it.                 *)

Begin(c) ==
    /\ At(c, "idle")
    /\ Alive(c)
    /\ Update(c, [Idle EXCEPT !.step = "ensure_jobs", !.new = cr[c], !.todo = cr[c].scope])
    /\ UNCHANGED <<ids, cr, jobs, uids, ran, scoped, budget>>

\* Mutant: Jobs carry no owner.
owner_of_nobody(meta) == 0

make_owner_reference(meta) == meta.uid

\* image is IMAGE_REF of init-pull; label and hash are the two labels.
build_scan_job(c, i) ==
    [name  |-> job_names[c][i],
     label |-> id[c].name,
     image |-> i,
     hash  |-> hash[i],
     owner |-> make_owner_reference(task[c].new),
     done  |-> FALSE]

\* A Job of that name that exists already (409), whoever made it, is fine.
CreateJob(c, i) ==
    /\ At(c, "ensure_jobs")
    /\ i \in task[c].todo
    /\ Len(id[c].name) <= LabelLimit
    /\ jobs' = IF \E j \in jobs : j.name = job_names[c][i] THEN jobs
               ELSE jobs \cup {build_scan_job(c, i)}
    /\ Update(c, [task[c] EXCEPT !.todo = @ \ {i}])
    /\ UNCHANGED <<ids, cr, uids, ran, scoped, budget>>

(* The Job's name is cut to its limit but the label is not: the API server *)
(* refuses the Job of a CR with a long name (422).                         *)
CreateJobInvalid(c) ==
    /\ At(c, "ensure_jobs")
    /\ task[c].todo # {}
    /\ Len(id[c].name) > LabelLimit
    /\ PatchNext(c, task[c].new)
    /\ UNCHANGED <<ids, cr, jobs, uids, ran, scoped, budget>>

\* Mutant: the listing has no label selector.
list_all_jobs(c) == jobs

\* By label, in the operator's namespace.
list_owned_jobs(c) == {j \in jobs : j.label = id[c].name}

\* Mutant: a Job stands for every image in scope that has its hash.
image_by_hash(c, j) == {i \in task[c].new.scope : hash[i] = j.hash}

extract_image_ref_from_job(c, j) == {j.image}

(* List and aggregate.  The clean-up of a due schedule is left to          *)
(* Reconciler: here JobDeleted deletes finished Jobs at any time.          *)
ListOwnedJobs(c) ==
    LET owned == list_owned_jobs(c)
    IN  /\ At(c, "ensure_jobs")
        /\ task[c].todo = {}
        /\ PatchNext(c, IF owned # {} /\ \A j \in owned : j.done
                        THEN [task[c].new EXCEPT
                                !.scanned = @ \cup UNION {extract_image_ref_from_job(c, j)
                                                           : j \in owned}]
                        ELSE task[c].new)
        /\ UNCHANGED <<ids, cr, jobs, uids, ran, scoped, budget>>

(* By name: a status computed for a deleted object lands on a later one of *)
(* the same name.  Without an object it is a 404, on which error_policy    *)
(* awaits the next change.                                                 *)
PatchStatus(c) ==
    /\ At(c, "patch_status")
    /\ cr' = [cr EXCEPT ![c] = IF @ = NoCr THEN NoCr
                               ELSE [@ EXCEPT !.scanned = task[c].new.scanned]]
    /\ Update(c, Idle)
    /\ UNCHANGED <<ids, jobs, uids, ran, scoped, budget>>

-----------------------------------------------------------------------------
(* The user and the cluster. *)

CreateCr(c, target) ==
    /\ ~Alive(c)
    /\ uids' = uids + 1
    /\ cr' = [cr EXCEPT ![c] = [uid |-> uids + 1, scope |-> target, scanned |-> {}]]
    /\ scoped' = [scoped EXCEPT ![c] = @ \cup target]
    /\ UNCHANGED <<ids, jobs, task, ran, budget>>

\* The user edits spec.target, or pods come and go in its namespaces.
Retarget(c, target) ==
    /\ Alive(c)
    /\ target # cr[c].scope
    /\ budget > 0
    /\ budget' = budget - 1
    /\ cr' = [cr EXCEPT ![c].scope = target]
    /\ scoped' = [scoped EXCEPT ![c] = @ \cup target]
    /\ UNCHANGED <<ids, jobs, task, uids, ran>>

DeleteCr(c) ==
    /\ Alive(c)
    /\ budget > 0
    /\ budget' = budget - 1
    /\ cr' = [cr EXCEPT ![c] = NoCr]
    /\ UNCHANGED <<ids, jobs, task, uids, ran, scoped>>

JobSucceeds(j) ==
    /\ ~j.done
    /\ jobs' = (jobs \ {j}) \cup {[j EXCEPT !.done = TRUE]}
    /\ ran' = ran \cup {j.image}
    /\ UNCHANGED <<ids, cr, task, uids, scoped, budget>>

\* By its TTL or by a clean-up.
JobDeleted(j) ==
    /\ j.done
    /\ budget > 0
    /\ budget' = budget - 1
    /\ jobs' = jobs \ {j}
    /\ UNCHANGED <<ids, cr, task, uids, ran, scoped>>

(* An owner is looked up in the Job's own namespace, by uid: that of a CR  *)
(* elsewhere is absent from the start.                                     *)
OwnerIsPresent(j) == \E c \in CRs : /\ Alive(c)
                                    /\ id[c].namespace = OperatorNs
                                    /\ cr[c].uid = j.owner

JobCollected(j) ==
    /\ j.owner # 0
    /\ ~OwnerIsPresent(j)
    /\ jobs' = jobs \ {j}
    /\ UNCHANGED <<ids, cr, task, uids, ran, scoped, budget>>

-----------------------------------------------------------------------------
Reconcile(c) ==
    \/ Begin(c)
    \/ \E i \in Images : CreateJob(c, i)
    \/ CreateJobInvalid(c)
    \/ ListOwnedJobs(c)
    \/ PatchStatus(c)

Succeed == \E j \in jobs : JobSucceeds(j)
Collect == \E j \in jobs : JobCollected(j)

Next ==
    \/ \E c \in CRs :
         \/ Reconcile(c)
         \/ \E t \in Targets[c] : CreateCr(c, t) \/ Retarget(c, t)
         \/ DeleteCr(c)
    \/ \E j \in jobs : JobDeleted(j)
    \/ Succeed
    \/ Collect

Spec == Init /\ [][Next]_vars

(* A living CR is reconciled again and again, scan pods run and the        *)
(* garbage collector works; users owe nothing.                             *)
FairSpec == /\ Spec
            /\ \A c \in CRs : WF_vars(Reconcile(c))
            /\ WF_vars(Succeed)
            /\ WF_vars(Collect)

-----------------------------------------------------------------------------
(* Types, and names within their limits: no two Jobs of one name, and a    *)
(* Job's name is alphanumeric with hyphens and no longer than allowed      *)
(* (FR-001 of feature 003).                                                *)
TypeOK ==
    /\ \A j, k \in jobs : j.name = k.name => j = k
    /\ \A j \in jobs : /\ Len(j.name) <= NameLimit + 2
                       /\ \A k \in 1 .. Len(j.name) - 1 : j.name[k] \in Alphanumeric \cup {"-"}
                       /\ j.owner \in 0 .. uids
    /\ \A c \in CRs : /\ cr[c].scanned \subseteq Images
                      /\ task[c].todo \subseteq scoped[c]

(* An image with an entry in some CR's scannedImages was scanned by a Job: *)
(* entries come from the Job's IMAGE_REF, never from names or hashes that  *)
(* two images or two CRs may share.                                        *)
RecordedWasScanned == \A c \in CRs : cr[c].scanned \subseteq ran

OnlyOneNamed(c) == \A d \in CRs \ {c} : id[d].name # id[c].name

(* A CR whose name no other CR has, in any namespace, records only images  *)
(* that were in scope of an object of that name at some time, whatever CRs *)
(* share its Job names.  (Old Jobs of an earlier target, or of an object   *)
(* deleted before, are listed by that name and recorded too.)              *)
OwnImagesOnly ==
    \A c \in CRs : OnlyOneNamed(c) => cr[c].scanned \subseteq scoped[c]

(* Once a CR is gone for good, its Jobs disappear without waiting for      *)
(* their TTL, also those a reconcile created that was in flight when the   *)
(* CR was deleted (FR-005 of feature 007: collection by owner reference).  *)
OrphansCollected ==
    \A c \in CRs : OnlyOneNamed(c) /\ <>[]~Alive(c)
                      => <>[](\A j \in jobs : j.label # id[c].name)

\* Nothing of c's Jobs is shared with another CR or between two images.
Apart(c) ==
    /\ id[c].namespace = OperatorNs
    /\ Len(id[c].name) <= LabelLimit
    /\ \A d \in CRs \ {c} : /\ id[d].name # id[c].name
                            /\ \A i, k \in Images : job_names[d][i] # job_names[c][k]
    /\ \A i, k \in Images : hash[i] = hash[k] => i = k

(* A CR in the operator's namespace that shares no name with another one   *)
(* gets an entry for each image in its scope, whatever other CRs do and    *)
(* after any deletion, re-creation and new target.                         *)
ApartCompletes ==
    \A c \in CRs : Apart(c) /\ <>[]Alive(c) => []<>(cr[c].scope \subseteq cr[c].scanned)
=============================================================================
