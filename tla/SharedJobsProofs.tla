--------------------------- MODULE SharedJobsProofs ---------------------------
(***************************************************************************)
(* SharedJobs for any CRs, names, hashes and images: which images a CR     *)
(* records, whatever Jobs it shares with others, and that Jobs have names  *)
(* of their own within the limits.                                         *)
(***************************************************************************)
EXTENDS SharedJobs, TLAPS, SequenceTheorems, WellFoundedInduction

CrStatus == [uid : Nat, scope : SUBSET Images, scanned : SUBSET Images]

TaskType == [step : {"idle", "ensure_jobs", "patch_status"},
             todo : SUBSET Images,
             new  : CrStatus]

USE DEF TaskType

\* The types the proofs need; what is in scope stays among what ever was.
Shape ==
    /\ cr \in [CRs -> CrStatus]
    /\ task \in [CRs -> TaskType]
    /\ scoped \in [CRs -> SUBSET Images]
    /\ \A c \in CRs : task[c].todo \subseteq scoped[c] /\ cr[c].scope \subseteq scoped[c]
    /\ uids \in Nat

LEMMA NoCrType == NoCr \in CrStatus /\ NoCr.scanned = {} /\ NoCr.scope = {}
  BY DEF NoCr, CrStatus

LEMMA IdleType ==
  /\ Idle \in TaskType
  /\ Idle.todo = {} /\ Idle.new.scanned = {}
  BY NoCrType DEF Idle

(***************************************************************************)
(* Every step of a reconcile changes the task of its CR only.  What the    *)
(* new one is, field by field:                                             *)
(***************************************************************************)
LEMMA UpdateShape ==
  ASSUME Shape, NEW c \in CRs, NEW t, Update(c, t),
         t \in TaskType,
         t.todo \subseteq scoped[c]
  PROVE  /\ task' \in [CRs -> TaskType]
         /\ \A d \in CRs : task'[d].todo \subseteq scoped[d]
         /\ task'[c] = t
         /\ \A d \in CRs \ {c} : task'[d] = task[d]
  BY DEF Shape, Update

LEMMA PatchNextShape ==
  ASSUME Shape, NEW c \in CRs, NEW s \in CrStatus, PatchNext(c, s)
  PROVE  /\ task' \in [CRs -> TaskType]
         /\ \A d \in CRs : task'[d].todo \subseteq scoped[d]
         /\ task'[c].new = s
         /\ \A d \in CRs \ {c} : task'[d] = task[d]
<1> DEFINE t == [task[c] EXCEPT !.step = "patch_status", !.new = s]
<1>1. t \in TaskType
  <2> DEFINE u == [task[c] EXCEPT !.step = "patch_status"]
  <2>1. u \in TaskType
    BY DEF Shape
  <2>2. t = [u EXCEPT !.new = s]
    BY DEF Shape
  <2> HIDE DEF u, t
  <2> QED
    BY <2>1, <2>2
<1>2. t.new = s /\ t.todo = task[c].todo
  BY DEF Shape
<1>3. Update(c, t) /\ t.todo \subseteq scoped[c]
  BY <1>2 DEF PatchNext, Shape
<1> HIDE DEF t
<1> QED
  BY <1>1, <1>2, <1>3, UpdateShape

-----------------------------------------------------------------------------
\* What each step of a reconcile of c leaves in flight, and the types after it.
OthersSame(c) == \A d \in CRs \ {c} : task'[d] = task[d]

LEMMA BeginTask ==
  ASSUME Shape, NEW c \in CRs, Begin(c)
  PROVE  Shape' /\ task'[c].new = cr[c] /\ OthersSame(c)
<1> DEFINE t == [Idle EXCEPT !.step = "ensure_jobs", !.new = cr[c], !.todo = cr[c].scope]
<1>1. cr[c] \in CrStatus /\ cr[c].scope \subseteq Images /\ cr[c].scope \subseteq scoped[c]
  BY DEF Shape, CrStatus
<1>2. /\ t \in TaskType
      /\ t.new = cr[c] /\ t.todo = cr[c].scope
  <2> DEFINE u == [Idle EXCEPT !.step = "ensure_jobs", !.new = cr[c]]
  <2>1. /\ u \in TaskType
        /\ u.new = cr[c]
    BY <1>1 DEF Idle
  <2>2. t = [u EXCEPT !.todo = cr[c].scope]
    BY DEF Idle
  <2> HIDE DEF u, t
  <2> QED
    BY <1>1, <2>1, <2>2
<1>3. Update(c, t)
  BY DEF Begin
<1> HIDE DEF t
<1> QED
  BY <1>1, <1>2, <1>3, UpdateShape DEF Shape, Begin, OthersSame

LEMMA CreateJobTask ==
  ASSUME Shape, NEW c \in CRs, NEW i \in Images, CreateJob(c, i)
  PROVE  Shape' /\ task'[c].new = task[c].new /\ OthersSame(c)
<1> DEFINE t == [task[c] EXCEPT !.todo = @ \ {i}]
<1>1. /\ t \in TaskType
      /\ t.todo = task[c].todo \ {i} /\ t.new = task[c].new
  BY DEF Shape
<1>2. Update(c, t) /\ t.todo \subseteq scoped[c]
  BY <1>1 DEF CreateJob, Shape
<1> HIDE DEF t
<1> QED
  BY <1>1, <1>2, UpdateShape DEF Shape, CreateJob, OthersSame

LEMMA CreateJobInvalidTask ==
  ASSUME Shape, NEW c \in CRs, CreateJobInvalid(c)
  PROVE  Shape' /\ task'[c].new = task[c].new /\ OthersSame(c)
<1>1. task[c].new \in CrStatus /\ PatchNext(c, task[c].new)
  BY DEF Shape, CreateJobInvalid
<1> QED
  BY <1>1, PatchNextShape DEF Shape, CreateJobInvalid, OthersSame

\* The images of the listed Jobs, which the aggregate adds.
Found(c) == {j.image : j \in list_owned_jobs(c)}

LEMMA ListOwnedJobsTask ==
  ASSUME Shape, \A j \in jobs : j.image \in Images, NEW c \in CRs, ListOwnedJobs(c)
  PROVE  /\ Shape' /\ OthersSame(c)
         /\ task'[c].new.uid = task[c].new.uid
         /\ \/ task'[c].new.scanned = task[c].new.scanned
            \/ /\ task'[c].new.scanned = task[c].new.scanned \cup Found(c)
               /\ \A j \in list_owned_jobs(c) : j.done
<1> DEFINE owned == list_owned_jobs(c)
           found == UNION {extract_image_ref_from_job(c, j) : j \in owned}
           old == task[c].new
<1>1. old \in CrStatus
  BY DEF Shape
<1>2. found = Found(c) /\ found \subseteq Images
  BY DEF list_owned_jobs, extract_image_ref_from_job, Found
<1>3. PICK s \in CrStatus :
        /\ PatchNext(c, s) /\ s.uid = old.uid
        /\ s.scanned = old.scanned \/ (s.scanned = old.scanned \cup found /\ \A j \in owned : j.done)
  <2>1. CASE owned # {} /\ \A j \in owned : j.done
    <3> DEFINE s == [old EXCEPT !.scanned = @ \cup found]
    <3>1. PatchNext(c, s)
      BY <2>1 DEF ListOwnedJobs
    <3> HIDE DEF found, owned, old
    <3>2. s \in CrStatus /\ s.scanned = old.scanned \cup found /\ s.uid = old.uid
      BY <1>1, <1>2 DEF CrStatus
    <3> QED
      BY <2>1, <3>1, <3>2
  <2>2. CASE ~(owned # {} /\ \A j \in owned : j.done)
    BY <1>1, <2>2 DEF ListOwnedJobs
  <2> QED
    BY <2>1, <2>2
<1>4. Shape' /\ task'[c].new = s /\ OthersSame(c)
  BY <1>3, PatchNextShape DEF Shape, ListOwnedJobs, OthersSame
<1> HIDE DEF found, owned
<1> QED
  BY <1>2, <1>3, <1>4 DEF owned

LEMMA PatchStatusTask ==
  ASSUME Shape, NEW c \in CRs, PatchStatus(c)
  PROVE  /\ Shape' /\ OthersSame(c)
         /\ task'[c].new = NoCr
         /\ cr'[c].scanned \subseteq task[c].new.scanned
         /\ cr'[c].uid = cr[c].uid
         /\ \A d \in CRs \ {c} : cr'[d] = cr[d]
<1> DEFINE s == [cr[c] EXCEPT !.scanned = task[c].new.scanned]
<1>1. Update(c, Idle) /\ Idle.new = NoCr
  BY DEF PatchStatus, Idle
<1>2. /\ s \in CrStatus /\ s.scanned = task[c].new.scanned
      /\ s.uid = cr[c].uid /\ s.scope = cr[c].scope
  BY DEF Shape, CrStatus
<1>3. cr' = [cr EXCEPT ![c] = IF @ = NoCr THEN NoCr ELSE s]
  BY DEF PatchStatus
<1> HIDE DEF s
<1>4. Shape' /\ task'[c].new = NoCr /\ OthersSame(c)
  <2>1. /\ task' \in [CRs -> TaskType] /\ task'[c] = Idle
        /\ \A d \in CRs : task'[d].todo \subseteq scoped[d]
        /\ \A d \in CRs \ {c} : task'[d] = task[d]
    BY <1>1, IdleType, UpdateShape
  <2>2. cr' \in [CRs -> CrStatus]
    BY <1>2, <1>3, NoCrType DEF Shape
  <2>3. uids' \in Nat /\ scoped' = scoped
    BY DEF Shape, PatchStatus
  <2>4. \A d \in CRs : cr'[d].scope \subseteq cr[d].scope
    BY <1>2, <1>3, NoCrType DEF Shape
  <2> QED
    BY <1>1, <2>1, <2>2, <2>3, <2>4 DEF Shape, OthersSame
<1> QED
  BY <1>2, <1>3, <1>4, NoCrType DEF Shape

\* What the user does: a new object, another target, or no object.
UserStep(c) == \/ \E t \in Targets[c] : CreateCr(c, t) \/ Retarget(c, t)
               \/ DeleteCr(c)

\* s is what becomes of c's object.
Becomes(c, s) ==
    /\ cr' = [cr EXCEPT ![c] = s]
    /\ s.scanned \subseteq cr[c].scanned
    /\ s.uid <= uids' \/ s.uid = cr[c].uid
    /\ s.scope \subseteq scoped'[c]
    /\ scoped' \in [CRs -> SUBSET Images]
    /\ \A d \in CRs : scoped[d] \subseteq scoped'[d]
    /\ UNCHANGED <<id, job_names, jobs, task, ran>>
    /\ uids' \in Nat /\ uids' >= uids

LEMMA UserStepBecomes ==
  ASSUME Shape, NEW c \in CRs, UserStep(c)
  PROVE  \E s \in CrStatus : Becomes(c, s)
<1>1. ASSUME NEW t \in Targets[c], CreateCr(c, t)
      PROVE  \E s \in CrStatus : Becomes(c, s)
  <2> DEFINE s == [uid |-> uids + 1, scope |-> t, scanned |-> {}]
  <2>1. /\ t \subseteq Images /\ s \in CrStatus
        /\ s.uid = uids + 1 /\ s.scope = t /\ s.scanned = {}
    BY TargetsAssumption DEF CrStatus, Shape
  <2>2. /\ scoped' \in [CRs -> SUBSET Images] /\ t \subseteq scoped'[c]
        /\ \A d \in CRs : scoped[d] \subseteq scoped'[d]
    BY <1>1, <2>1 DEF CreateCr, Shape
  <2>3. cr' = [cr EXCEPT ![c] = s] /\ uids' = uids + 1 /\ uids \in Nat
    BY <1>1 DEF CreateCr, Shape
  <2>4. UNCHANGED <<id, job_names, jobs, task, ran>>
    BY <1>1 DEF CreateCr, ids
  <2> HIDE DEF s
  <2>5. uids' \in Nat /\ uids' >= uids /\ (s.uid <= uids' \/ s.uid = cr[c].uid)
    BY <2>1, <2>3
  <2>6. s.scanned \subseteq cr[c].scanned /\ s.scope \subseteq scoped'[c]
    BY <2>1, <2>2
  <2>7. Becomes(c, s)
    BY <2>2, <2>3, <2>4, <2>5, <2>6 DEF Becomes
  <2> QED
    BY <2>1, <2>7
<1>2. ASSUME NEW t \in Targets[c], Retarget(c, t)
      PROVE  \E s \in CrStatus : Becomes(c, s)
  <2> DEFINE s == [cr[c] EXCEPT !.scope = t]
  <2>1. /\ t \subseteq Images /\ s \in CrStatus /\ s.scope = t
        /\ s.uid = cr[c].uid /\ s.scanned = cr[c].scanned
    BY TargetsAssumption DEF CrStatus, Shape
  <2>2. /\ scoped' \in [CRs -> SUBSET Images] /\ t \subseteq scoped'[c]
        /\ \A d \in CRs : scoped[d] \subseteq scoped'[d]
    BY <1>2, <2>1 DEF Retarget, Shape
  <2>3. cr' = [cr EXCEPT ![c] = s] /\ uids' = uids /\ uids \in Nat
    BY <1>2 DEF Retarget, Shape
  <2>4. UNCHANGED <<id, job_names, jobs, task, ran>>
    BY <1>2 DEF Retarget, ids
  <2> HIDE DEF s
  <2>5. uids' \in Nat /\ uids' >= uids /\ (s.uid <= uids' \/ s.uid = cr[c].uid)
    BY <2>1, <2>3
  <2>6. s.scanned \subseteq cr[c].scanned /\ s.scope \subseteq scoped'[c]
    BY <2>1, <2>2
  <2>7. Becomes(c, s)
    BY <2>2, <2>3, <2>4, <2>5, <2>6 DEF Becomes
  <2> QED
    BY <2>1, <2>7
<1>3. CASE DeleteCr(c)
  <2>1. cr' = [cr EXCEPT ![c] = NoCr] /\ uids' = uids /\ uids \in Nat /\ scoped' = scoped
    BY <1>3 DEF DeleteCr, Shape
  <2>2. NoCr.uid = 0
    BY DEF NoCr
  <2>3. UNCHANGED <<id, job_names, jobs, task, ran>> /\ scoped \in [CRs -> SUBSET Images]
    BY <1>3 DEF DeleteCr, ids, Shape
  <2>4. uids' \in Nat /\ uids' >= uids /\ NoCr.uid <= uids'
    BY <2>1, <2>2
  <2>5. NoCr.scanned \subseteq cr[c].scanned /\ NoCr.scope \subseteq scoped'[c]
    BY NoCrType
  <2>6. Becomes(c, NoCr)
    BY <2>1, <2>3, <2>4, <2>5 DEF Becomes
  <2> QED
    BY <2>6, NoCrType
<1> QED
  BY <1>1, <1>2, <1>3 DEF UserStep

\* A CR that is made gets the next uid; entries are never added.
LEMMA CrTask ==
  ASSUME Shape, NEW c \in CRs, UserStep(c)
  PROVE  /\ Shape' /\ UNCHANGED <<id, job_names, jobs, task, ran>>
         /\ uids' >= uids
         /\ \A d \in CRs : scoped[d] \subseteq scoped'[d]
         /\ cr'[c].scanned \subseteq cr[c].scanned
         /\ cr'[c].uid <= uids' \/ cr'[c].uid = cr[c].uid
         /\ \A d \in CRs \ {c} : cr'[d] = cr[d]
<1>1. PICK s \in CrStatus : Becomes(c, s)
  BY UserStepBecomes
<1>2. cr'[c] = s /\ \A d \in CRs \ {c} : cr'[d] = cr[d]
  BY <1>1 DEF Becomes, Shape
<1>3. \A d \in CRs : task'[d].todo \subseteq scoped'[d] /\ cr'[d].scope \subseteq scoped'[d]
  BY <1>1, <1>2 DEF Becomes, Shape
<1>4. Shape'
  BY <1>1, <1>3 DEF Becomes, Shape
<1> QED
  BY <1>1, <1>2, <1>4 DEF Becomes

-----------------------------------------------------------------------------
(***************************************************************************)
(* The images of finished Jobs have been scanned, and those of Jobs under  *)
(* a name that no other CR has were in its scope at some time; so the      *)
(* aggregate of listed Jobs may be added to a status, stored or about to   *)
(* be patched.                                                             *)
(***************************************************************************)
Genuine ==
    /\ \A j \in jobs : j.done => j.image \in ran
    /\ \A c \in CRs : cr[c].scanned \subseteq ran /\ task[c].new.scanned \subseteq ran

Separate ==
    \A c \in CRs : OnlyOneNamed(c) =>
        /\ \A j \in jobs : j.label = id[c].name => j.image \in scoped[c]
        /\ cr[c].scanned \subseteq scoped[c]
        /\ task[c].new.scanned \subseteq scoped[c]

Inv == Shape /\ Genuine /\ Separate /\ \A j \in jobs : j.image \in Images

LEMMA InitInv == Init => Inv
<1> SUFFICES ASSUME Init PROVE Inv
  OBVIOUS
<1>1. Shape
  BY NoCrType, IdleType DEF Init, Shape
<1> QED
  BY <1>1, NoCrType, IdleType DEF Init, Inv, Genuine, Separate

LEMMA BeginInv ==
  ASSUME Inv, NEW c \in CRs, Begin(c)
  PROVE  Inv'
<1>1. Shape' /\ task'[c].new = cr[c] /\ OthersSame(c)
  BY BeginTask DEF Inv
<1> QED
  BY <1>1 DEF Begin, Inv, Genuine, Separate, OnlyOneNamed, ids, OthersSame

LEMMA CreateJobInv ==
  ASSUME Inv, NEW c \in CRs, NEW i \in Images, CreateJob(c, i)
  PROVE  Inv'
<1> DEFINE new == build_scan_job(c, i)
<1>1. Shape' /\ task'[c].new = task[c].new /\ \A d \in CRs \ {c} : task'[d] = task[d]
  BY CreateJobTask DEF Inv, OthersSame
<1>2. new.label = id[c].name /\ new.image = i /\ ~new.done /\ i \in scoped[c]
  BY DEF build_scan_job, CreateJob, Inv, Shape
<1>3. jobs' \subseteq jobs \cup {new}
  BY DEF CreateJob
<1> HIDE DEF new
<1>4. UNCHANGED <<id, cr, ran, scoped>>
  BY DEF CreateJob, ids
<1>5. Genuine'
  BY <1>1, <1>2, <1>3, <1>4 DEF Inv, Genuine
<1>6. Separate'
  BY <1>1, <1>2, <1>3, <1>4 DEF Inv, Separate, OnlyOneNamed
<1> QED
  BY <1>1, <1>2, <1>3, <1>5, <1>6 DEF Inv

LEMMA CreateJobInvalidInv ==
  ASSUME Inv, NEW c \in CRs, CreateJobInvalid(c)
  PROVE  Inv'
<1>1. Shape' /\ task'[c].new = task[c].new /\ OthersSame(c)
  BY CreateJobInvalidTask DEF Inv
<1> QED
  BY <1>1 DEF CreateJobInvalid, Inv, Genuine, Separate, OnlyOneNamed, ids, OthersSame

\* What the aggregate adds comes from finished Jobs under c's label.
LEMMA ListOwnedJobsInv ==
  ASSUME Inv, NEW c \in CRs, ListOwnedJobs(c)
  PROVE  Inv'
<1> DEFINE s == task'[c].new
           old == task[c].new
<1>1. /\ Shape' /\ OthersSame(c)
      /\ \/ s.scanned = old.scanned
         \/ s.scanned = old.scanned \cup Found(c) /\ \A j \in list_owned_jobs(c) : j.done
  BY ListOwnedJobsTask DEF Inv
<1>2. \A i \in Found(c) : \E j \in jobs : j.label = id[c].name /\ j.image = i
                                           /\ j \in list_owned_jobs(c)
  BY DEF list_owned_jobs, Found
<1>3. UNCHANGED <<id, cr, jobs, ran, scoped>>
  BY DEF ListOwnedJobs, ids
<1>4. s.scanned \subseteq ran
  BY <1>1, <1>2 DEF Inv, Genuine
<1>5. OnlyOneNamed(c) => s.scanned \subseteq scoped[c]
  BY <1>1, <1>2 DEF Inv, Separate
<1>6. Genuine'
  BY <1>1, <1>3, <1>4 DEF Inv, Genuine, OthersSame
<1>7. Separate'
  BY <1>1, <1>3, <1>5 DEF Inv, Separate, OnlyOneNamed, OthersSame
<1> QED
  BY <1>1, <1>3, <1>6, <1>7 DEF Inv

LEMMA PatchStatusInv ==
  ASSUME Inv, NEW c \in CRs, PatchStatus(c)
  PROVE  Inv'
<1>1. /\ Shape' /\ task'[c].new.scanned = {} /\ \A d \in CRs \ {c} : task'[d] = task[d]
      /\ cr'[c].scanned \subseteq task[c].new.scanned
      /\ \A d \in CRs \ {c} : cr'[d] = cr[d]
  BY PatchStatusTask, NoCrType DEF Inv, OthersSame
<1>2. UNCHANGED <<id, jobs, ran, scoped>>
  BY DEF PatchStatus, ids
<1>3. Genuine'
  BY <1>1, <1>2 DEF Inv, Genuine
<1>4. Separate'
  BY <1>1, <1>2 DEF Inv, Separate, OnlyOneNamed
<1> QED
  BY <1>1, <1>2, <1>3, <1>4 DEF Inv

LEMMA CrInv ==
  ASSUME Inv, NEW c \in CRs, UserStep(c)
  PROVE  Inv'
<1>1. /\ Shape' /\ UNCHANGED <<id, jobs, task, ran>>
      /\ \A d \in CRs : scoped[d] \subseteq scoped'[d]
      /\ cr'[c].scanned \subseteq cr[c].scanned
      /\ \A d \in CRs \ {c} : cr'[d] = cr[d]
  BY CrTask DEF Inv
<1>2. \A d \in CRs : cr'[d].scanned \subseteq cr[d].scanned
  BY <1>1
<1>3. Genuine'
  BY <1>1, <1>2 DEF Inv, Genuine
<1>4. Separate'
  <2>1. \A d \in CRs : OnlyOneNamed(d)' => OnlyOneNamed(d)
    BY <1>1 DEF OnlyOneNamed
  <2> QED
    BY <1>1, <1>2, <2>1 DEF Inv, Separate
<1> QED
  BY <1>1, <1>3, <1>4 DEF Inv

LEMMA JobInv ==
  ASSUME Inv, NEW j \in jobs, JobSucceeds(j) \/ JobDeleted(j) \/ JobCollected(j)
  PROVE  Inv'
<1>1. UNCHANGED <<id, cr, task, uids, scoped>>
  BY DEF JobSucceeds, JobDeleted, JobCollected, ids
<1>2. Shape'
  BY <1>1 DEF Inv, Shape
<1>3. CASE JobSucceeds(j)
  <2> DEFINE k == [j EXCEPT !.done = TRUE]
  <2>1. jobs' = (jobs \ {j}) \cup {k} /\ ran' = ran \cup {j.image}
    BY <1>3 DEF JobSucceeds
  <2>2. k.image = j.image /\ k.label = j.label
    OBVIOUS
  <2> HIDE DEF k
  <2> QED
    BY <1>1, <1>2, <2>1, <2>2 DEF Inv, Genuine, Separate, OnlyOneNamed
<1>4. CASE JobDeleted(j) \/ JobCollected(j)
  <2>1. jobs' \subseteq jobs /\ ran' = ran
    BY <1>4 DEF JobDeleted, JobCollected
  <2> QED
    BY <1>1, <1>2, <2>1 DEF Inv, Genuine, Separate, OnlyOneNamed
<1> QED
  BY <1>3, <1>4

LEMMA InvHolds == Spec => []Inv
<1>1. Inv /\ [Next]_vars => Inv'
  <2>1. Inv /\ UNCHANGED vars => Inv'
    BY DEF vars, ids, Inv, Shape, Genuine, Separate, OnlyOneNamed
  <2> QED
    BY <2>1, BeginInv, CreateJobInv, CreateJobInvalidInv, ListOwnedJobsInv, PatchStatusInv,
       CrInv, JobInv DEF Next, Reconcile, UserStep, Succeed, Collect
<1> QED
  BY <1>1, InitInv, PTL DEF Spec

(* An image with an entry in some CR was scanned by some Job: no collision *)
(* of names, labels or hashes lets a CR claim a scan that never ran.       *)
THEOREM RecordedRan == Spec => []RecordedWasScanned
<1>1. Inv => RecordedWasScanned
  BY DEF Inv, Genuine, RecordedWasScanned
<1> QED
  BY <1>1, InvHolds, PTL

(* A CR whose name is its own records only images that an object of that   *)
(* name had in scope, whatever CRs made Jobs under the same Job names, and  *)
(* whatever was deleted, made again or given another target.               *)
THEOREM RecordsOwnImages == Spec => []OwnImagesOnly
<1>1. Inv => OwnImagesOnly
  BY DEF Inv, Separate, OwnImagesOnly
<1> QED
  BY <1>1, InvHolds, PTL

-----------------------------------------------------------------------------
(***************************************************************************)
(* Names.  sanitize_dns1123 builds its output character by character; that *)
(* this is a sequence of allowed ones goes by the shortest prefix that     *)
(* would have none.                                                        *)
(***************************************************************************)
Chars == Alphanumeric \cup {"-"}

LEMMA PushType ==
  ASSUME NEW out \in Seq(Chars), NEW ch
  PROVE  Push(out, ch) \in Seq(Chars)
<1>1. \A x \in Chars : Append(out, x) \in Seq(Chars)
  OBVIOUS
<1> QED
  BY <1>1 DEF Push, Chars

\* g holds the outputs for the prefixes of s of up to m characters.
Outputs(g, s, m) ==
    g = [n \in 0 .. m |-> IF n = 0 THEN <<>> ELSE Push(g[n - 1], s[n])]

LEMMA OneMoreCharacter ==
  ASSUME NEW s, NEW m \in Nat, NEW g, Outputs(g, s, m)
  PROVE  \E h : Outputs(h, s, m + 1)
<1> DEFINE h == [n \in 0 .. m + 1 |-> IF n = 0 THEN <<>> ELSE Push(g[n - 1], s[n])]
<1>1. \A n \in 0 .. m : g[n] = IF n = 0 THEN <<>> ELSE Push(g[n - 1], s[n])
  BY DEF Outputs
<1>2. \A n \in 0 .. m : h[n] = g[n]
  BY <1>1
<1>3. h = [n \in 0 .. m + 1 |-> IF n = 0 THEN <<>> ELSE Push(h[n - 1], s[n])]
  <2>1. \A n \in 1 .. m + 1 : h[n - 1] = g[n - 1]
    BY <1>2
  <2>2. ASSUME NEW n \in 0 .. m + 1
        PROVE  h[n] = IF n = 0 THEN <<>> ELSE Push(h[n - 1], s[n])
    <3>1. CASE n = 0
      BY <3>1
    <3>2. CASE n # 0
      <4>1. h[n] = Push(g[n - 1], s[n])
        BY <3>2
      <4>2. h[n - 1] = g[n - 1]
        <5>1. n \in 1 .. m + 1
          BY <3>2
        <5> HIDE DEF h
        <5> QED
          BY <2>1, <5>1
      <4> HIDE DEF h
      <4> QED
        BY <3>2, <4>1, <4>2
    <3> QED
      BY <3>1, <3>2
  <2>3. h = [n \in 0 .. m + 1 |-> h[n]]
    OBVIOUS
  <2> HIDE DEF h
  <2> QED
    BY <2>2, <2>3
<1> HIDE DEF h
<1> QED
  BY <1>3 DEF Outputs

LEMMA LeastNatural ==
  ASSUME NEW T \in SUBSET Nat, T # {}
  PROVE  \E n \in T : \A k \in T : ~(k < n)
<1>1. PICK n \in T : \A k \in T : ~(<<k, n>> \in OpToRel(<, Nat))
  BY NatLessThanWellFounded, WFMin
<1> QED
  BY <1>1 DEF OpToRel

LEMMA OutputsExist ==
  ASSUME NEW s, NEW m \in Nat
  PROVE  \E g : Outputs(g, s, m)
<1> DEFINE T == {n \in Nat : ~\E g : Outputs(g, s, n)}
<1> SUFFICES ASSUME T # {} PROVE FALSE
  OBVIOUS
<1>1. PICK n \in T : \A k \in T : ~(k < n)
  <2>1. T \in SUBSET Nat
    OBVIOUS
  <2> HIDE DEF T
  <2> QED
    BY <2>1, LeastNatural
<1>2. CASE n = 0
  <2> DEFINE e == [k \in 0 .. 0 |-> <<>>]
  <2>1. Outputs(e, s, 0)
    BY DEF Outputs
  <2> QED
    BY <1>2, <2>1
<1>3. CASE n # 0
  <2>1. n - 1 \in Nat /\ n - 1 < n /\ n - 1 + 1 = n
    BY <1>3
  <2>2. PICK g : Outputs(g, s, n - 1)
    BY <1>1, <2>1
  <2>3. \E h : Outputs(h, s, n - 1 + 1)
    BY <2>1, <2>2, OneMoreCharacter
  <2> QED
    BY <2>1, <2>3
<1> QED
  BY <1>2, <1>3

LEMMA OutputsType ==
  ASSUME NEW s, NEW m \in Nat, NEW g, Outputs(g, s, m)
  PROVE  g[m] \in Seq(Chars)
<1> DEFINE T == {n \in 0 .. m : g[n] \notin Seq(Chars)}
<1> SUFFICES ASSUME T # {} PROVE FALSE
  OBVIOUS
<1>1. PICK n \in T : \A k \in T : ~(k < n)
  <2>1. T \in SUBSET Nat
    OBVIOUS
  <2> HIDE DEF T
  <2> QED
    BY <2>1, LeastNatural
<1>2. \A k \in 0 .. m : g[k] = IF k = 0 THEN <<>> ELSE Push(g[k - 1], s[k])
  BY DEF Outputs
<1>3. CASE n = 0
  <2>1. g[0] = <<>> /\ g[n] \notin Seq(Chars)
    BY <1>2
  <2>2. <<>> \in Seq(Chars)
    BY EmptySeq
  <2> QED
    BY <1>3, <2>1, <2>2
<1>4. CASE n # 0
  <2>1. n - 1 \in 0 .. m /\ n - 1 < n
    BY <1>4
  <2>2. g[n - 1] \in Seq(Chars)
    BY <1>1, <2>1
  <2> QED
    BY <1>2, <1>4, <2>2, PushType
<1> QED
  BY <1>3, <1>4

LEMMA TrimType ==
  ASSUME NEW s \in Seq(Chars)
  PROVE  trim_end_hyphen(s) \in Seq(Chars) /\ Len(trim_end_hyphen(s)) <= Len(s)
<1>1. CASE s # <<>>
  <2>1. Len(s) \in Nat \ {0}
    BY <1>1, EmptySeq
  <2>2. Front(s) \in Seq(Chars) /\ Len(Front(s)) = Len(s) - 1
    <3>1. Len(s) - 1 \in Nat /\ \A i \in 1 .. Len(s) - 1 : s[i] \in Chars
      BY <2>1
    <3> DEFINE n == Len(s) - 1
    <3> HIDE DEF n
    <3>2. /\ SubSeq(s, 1, n) \in Seq(Chars)
          /\ Len(SubSeq(s, 1, n)) = IF 1 <= n THEN n - 1 + 1 ELSE 0
      <4>1. n \in Int /\ \A i \in 1 .. n : s[i] \in Chars
        BY <3>1 DEF n
      <4> QED
        BY <4>1, SubSeqProperties
    <3>3. Front(s) = SubSeq(s, 1, n) /\ n = Len(s) - 1
      BY DEF Front, n
    <3>4. n \in Nat
      BY <3>1, <3>3
    <3> DEFINE f == SubSeq(s, 1, n)
    <3>5. Front(s) = f /\ f \in Seq(Chars) /\ Len(f) = n
      <4>1. (IF 1 <= n THEN n - 1 + 1 ELSE 0) = n
        BY <3>4
      <4> QED
        BY <3>2, <3>3, <4>1
    <3> HIDE DEF f
    <3> QED
      BY <3>3, <3>5
  <2> QED
    BY <2>1, <2>2 DEF trim_end_hyphen
<1>2. CASE s = <<>>
  BY <1>2 DEF trim_end_hyphen
<1> QED
  BY <1>1, <1>2

LEMMA SanitizeType ==
  ASSUME NEW s \in Seq(STRING)
  PROVE  sanitize_dns1123(s) \in Seq(Chars)
<1> DEFINE out == CHOOSE g : Outputs(g, s, Len(s))
<1>1. Len(s) \in Nat
  OBVIOUS
<1>2. Outputs(out, s, Len(s))
  BY <1>1, OutputsExist
<1>3. out[Len(s)] \in Seq(Chars)
  <2> HIDE DEF out
  <2> QED
    BY <1>1, <1>2, OutputsType
<1>4. sanitize_dns1123(s) = trim_end_hyphen(out[Len(s)])
  BY DEF sanitize_dns1123, Outputs
<1> QED
  BY <1>3, <1>4, TrimType

WellNamed(name) ==
    /\ Len(name) \in Nat
    /\ Len(name) <= NameLimit + 2
    /\ \A k \in 1 .. Len(name) - 1 : name[k] \in Chars

\* The hash comes after what is left of the CR's name.
LEMMA JobNameShape ==
  ASSUME NEW s \in Seq(STRING), NEW h
  PROVE  \E v \in Seq(Chars) :
            /\ Len(v) <= NameLimit
            /\ Len(job_name(s, h)) = Len(v) + 2
            /\ \A k \in 1 .. Len(v) : job_name(s, h)[k] = v[k]
            /\ job_name(s, h)[Len(v) + 1] = "-"
            /\ job_name(s, h)[Len(v) + 2] = h
<1> DEFINE t == sanitize_dns1123(s)
           u == Take(t, NameLimit)
           v == trim_end_hyphen(u)
           w == <<"-", h>>
           D == Chars \cup {h}
<1>1. t \in Seq(Chars)
  BY SanitizeType
<1> HIDE DEF t
<1>2. u \in Seq(Chars) /\ Len(u) <= NameLimit
  <2>1. Len(t) \in Nat
    BY <1>1
  <2>2. (IF Len(t) > NameLimit THEN NameLimit ELSE Len(t)) \in 0 .. Len(t)
    BY <2>1, BoundsAssumption
  <2> QED
    BY <1>1, <2>1, <2>2, SubSeqProperties, BoundsAssumption DEF Take
<1> HIDE DEF u
<1>3. v \in Seq(Chars) /\ Len(v) <= NameLimit /\ Len(v) \in Nat
  BY <1>2, TrimType, BoundsAssumption
<1>4. job_name(s, h) = v \o w
  BY DEF job_name, t, u
<1> HIDE DEF v
<1>5. v \in Seq(D) /\ w \in Seq(D) /\ Len(w) = 2 /\ w[1] = "-" /\ w[2] = h
  <2>1. \A k \in 1 .. Len(v) : v[k] \in D
    BY <1>3
  <2> QED
    BY <1>3, <2>1 DEF Chars
<1> HIDE DEF w, D
<1>6. /\ Len(v \o w) = Len(v) + Len(w)
      /\ \A k \in 1 .. Len(v) + Len(w) :
           (v \o w)[k] = IF k <= Len(v) THEN v[k] ELSE w[k - Len(v)]
  BY <1>5, ConcatProperties
<1> DEFINE x == v \o w
           l == Len(v)
<1>7. l \in Nat /\ Len(x) = l + 2
  BY <1>3, <1>5, <1>6
<1>8. \A k \in 1 .. l + 2 : x[k] = IF k <= l THEN v[k] ELSE w[k - l]
  BY <1>5, <1>6
<1> HIDE DEF x, l
<1>9. \A k \in 1 .. l : x[k] = v[k]
  BY <1>7, <1>8
<1>10. x[l + 1] = "-" /\ x[l + 2] = h
  <2>1. l + 1 \in 1 .. l + 2 /\ ~(l + 1 <= l) /\ (l + 1) - l = 1
    BY <1>7
  <2>2. l + 2 \in 1 .. l + 2 /\ ~(l + 2 <= l) /\ (l + 2) - l = 2
    BY <1>7
  <2> QED
    BY <1>5, <1>8, <2>1, <2>2
<1> QED
  BY <1>3, <1>4, <1>7, <1>9, <1>10 DEF x, l

LEMMA JobNames ==
  ASSUME NEW s \in Seq(STRING), NEW h
  PROVE  WellNamed(job_name(s, h))
<1> DEFINE x == job_name(s, h)
<1>1. PICK v \in Seq(Chars) :
        /\ Len(v) <= NameLimit /\ Len(x) = Len(v) + 2
        /\ \A k \in 1 .. Len(v) : x[k] = v[k]
        /\ x[Len(v) + 1] = "-"
  BY JobNameShape
<1> HIDE DEF x
<1> DEFINE l == Len(v)
<1>2. l \in Nat /\ \A k \in 1 .. l : x[k] \in Chars
  BY <1>1
<1>3. Len(x) = l + 2 /\ l <= NameLimit /\ x[l + 1] \in Chars
  BY <1>1 DEF Chars
<1> HIDE DEF l
<1>4. \A k \in 1 .. l + 1 : x[k] \in Chars
  BY <1>2, <1>3
<1> QED
  BY <1>2, <1>3, <1>4, BoundsAssumption DEF WellNamed, x

(* Cutting the CR's name never cuts the hash: two images of one CR share a *)
(* Job name only if their hashes are equal (job_name).                     *)
THEOREM HashSurvives ==
  ASSUME NEW s \in Seq(STRING), NEW g, NEW h, job_name(s, g) = job_name(s, h)
  PROVE  g = h
<1> DEFINE x == job_name(s, g)
<1>1. PICK v \in Seq(Chars) : Len(x) = Len(v) + 2 /\ x[Len(v) + 2] = g
  BY JobNameShape
<1>2. PICK w \in Seq(Chars) : Len(x) = Len(w) + 2 /\ x[Len(w) + 2] = h
  BY JobNameShape
<1> HIDE DEF x
<1> QED
  BY <1>1, <1>2

-----------------------------------------------------------------------------
(***************************************************************************)
(* A Job is made only under a name that no Job has, and keeps it; its      *)
(* owner's uid is that of an object that was read, so it has been given    *)
(* out.                                                                    *)
(***************************************************************************)
Named ==
    /\ \A c \in CRs, i \in Images : WellNamed(job_names[c][i])
    /\ \A j \in jobs : WellNamed(j.name) /\ j.owner \in 0 .. uids
    /\ \A j, k \in jobs : j.name = k.name => j = k
    /\ \A c \in CRs : cr[c].uid <= uids /\ task[c].new.uid <= uids

LEMMA InitNamed == Init => Named
<1> SUFFICES ASSUME Init PROVE Named
  OBVIOUS
<1>1. ASSUME NEW c \in CRs, NEW i \in Images PROVE WellNamed(job_names[c][i])
  <2>1. job_names[c][i] = job_name(id[c].name, hash[i])
    BY DEF Init
  <2>2. id[c].name \in Seq(STRING)
    BY ScenariosAssumption DEF Init
  <2> HIDE DEF Init
  <2> QED
    BY <2>1, <2>2, JobNames
<1>2. NoCr.uid = 0 /\ Idle.new.uid = 0
  BY DEF NoCr, Idle
<1> QED
  BY <1>1, <1>2 DEF Init, Named

\* A reconcile's step that makes no Job and takes its uid from the task or the CR.
LEMMA SameJobsNamed ==
  ASSUME Named, NEW c \in CRs, OthersSame(c), UNCHANGED <<job_names, jobs, uids>>,
         task'[c].new.uid <= uids,
         \A d \in CRs : cr'[d].uid = cr[d].uid
  PROVE  Named'
  BY DEF Named, OthersSame, WellNamed

LEMMA CreateJobNamed ==
  ASSUME Inv, Named, NEW c \in CRs, NEW i \in Images, CreateJob(c, i)
  PROVE  Named'
<1> DEFINE new == build_scan_job(c, i)
<1>1. task'[c].new = task[c].new /\ \A d \in CRs \ {c} : task'[d] = task[d]
  BY CreateJobTask DEF Inv, OthersSame
<1>2. new.name = job_names[c][i] /\ new.owner = task[c].new.uid
  BY DEF build_scan_job, make_owner_reference
<1>3. task[c].new.uid \in 0 .. uids
  BY DEF Inv, Shape, CrStatus, Named
<1>4. \/ jobs' = jobs
      \/ jobs' = jobs \cup {new} /\ \A j \in jobs : j.name # new.name
  BY <1>2 DEF CreateJob
<1> HIDE DEF new
<1>5. UNCHANGED <<job_names, cr, uids>>
  BY DEF CreateJob, ids
<1>6. \A j \in jobs' : j \in jobs \/ (j = new /\ \A k \in jobs : k.name # new.name)
  BY <1>4
<1>7. \A j, k \in jobs' : j.name = k.name => j = k
  BY <1>6 DEF Named
<1>8. \A j \in jobs' : WellNamed(j.name) /\ j.owner \in 0 .. uids
  BY <1>2, <1>3, <1>6 DEF Named
<1> QED
  BY <1>1, <1>5, <1>7, <1>8 DEF Named, WellNamed

LEMMA CrNamed ==
  ASSUME Inv, Named, NEW c \in CRs, UserStep(c)
  PROVE  Named'
<1>1. /\ UNCHANGED <<job_names, jobs, task>> /\ uids' >= uids
      /\ cr'[c].uid <= uids' \/ cr'[c].uid = cr[c].uid
      /\ \A d \in CRs \ {c} : cr'[d] = cr[d]
      /\ Shape'
  BY CrTask DEF Inv
<1>2. uids \in Nat /\ uids' \in Nat
  BY <1>1 DEF Inv, Shape
<1>3. \A d \in CRs : cr[d].uid \in Nat /\ task[d].new.uid \in Nat
  BY DEF Inv, Shape, CrStatus
<1> QED
  BY <1>1, <1>2, <1>3 DEF Named, WellNamed

LEMMA JobNamed ==
  ASSUME Inv, Named, NEW j \in jobs, JobSucceeds(j) \/ JobDeleted(j) \/ JobCollected(j)
  PROVE  Named'
<1>1. UNCHANGED <<job_names, cr, task, uids>>
  BY DEF JobSucceeds, JobDeleted, JobCollected, ids
<1>2. PICK k : /\ k.name = j.name /\ k.owner = j.owner
               /\ jobs' \subseteq (jobs \ {j}) \cup {k}
  <2>1. CASE JobSucceeds(j)
    <3> DEFINE k == [j EXCEPT !.done = TRUE]
    <3>1. k.name = j.name /\ k.owner = j.owner
      OBVIOUS
    <3>2. jobs' = (jobs \ {j}) \cup {k}
      BY <2>1 DEF JobSucceeds
    <3> HIDE DEF k
    <3> QED
      BY <3>1, <3>2
  <2>2. CASE JobDeleted(j) \/ JobCollected(j)
    BY <2>2 DEF JobDeleted, JobCollected
  <2> QED
    BY <2>1, <2>2
<1>3. \A h \in jobs' : (h \in jobs /\ h # j) \/ h = k
  BY <1>2
<1>4. \A g, h \in jobs' : g.name = h.name => g = h
  BY <1>2, <1>3 DEF Named
<1>5. \A h \in jobs' : WellNamed(h.name) /\ h.owner \in 0 .. uids
  BY <1>2, <1>3 DEF Named
<1> QED
  BY <1>1, <1>4, <1>5 DEF Named, WellNamed

LEMMA ReconcileNamed ==
  ASSUME Inv, Named, NEW c \in CRs, Reconcile(c)
  PROVE  Named'
<1>1. cr[c].uid <= uids /\ task[c].new.uid <= uids
  BY DEF Named
<1>2. CASE Begin(c)
  <2>1. task'[c].new = cr[c] /\ OthersSame(c)
    BY <1>2, BeginTask DEF Inv
  <2> QED
    BY <1>1, <1>2, <2>1, SameJobsNamed DEF Begin, ids
<1>3. ASSUME NEW i \in Images, CreateJob(c, i) PROVE Named'
  BY <1>3, CreateJobNamed
<1>4. CASE CreateJobInvalid(c)
  <2>1. task'[c].new = task[c].new /\ OthersSame(c)
    BY <1>4, CreateJobInvalidTask DEF Inv
  <2> QED
    BY <1>1, <1>4, <2>1, SameJobsNamed DEF CreateJobInvalid, ids
<1>5. CASE ListOwnedJobs(c)
  <2>1. task'[c].new.uid = task[c].new.uid /\ OthersSame(c)
    BY <1>5, ListOwnedJobsTask DEF Inv
  <2> QED
    BY <1>1, <1>5, <2>1, SameJobsNamed DEF ListOwnedJobs, ids
<1>6. CASE PatchStatus(c)
  <2>1. /\ task'[c].new = NoCr /\ OthersSame(c)
        /\ \A d \in CRs : cr'[d].uid = cr[d].uid
    BY <1>6, PatchStatusTask DEF Inv
  <2>2. NoCr.uid = 0 /\ uids \in Nat
    BY DEF NoCr, Inv, Shape
  <2> QED
    BY <1>6, <2>1, <2>2, SameJobsNamed DEF PatchStatus, ids
<1> QED
  BY <1>2, <1>3, <1>4, <1>5, <1>6 DEF Reconcile

(* Jobs have names of their own, of allowed characters and within the      *)
(* limit, whatever CRs are called, and owners among the uids given out;    *)
(* CRs record images only and reconciles work on what their CR had in      *)
(* scope.                                                                  *)
THEOREM SharedTypes == Spec => []TypeOK
<1>1. Inv /\ Named /\ [Next]_vars => Named'
  <2>1. Named /\ UNCHANGED vars => Named'
    BY DEF vars, ids, Named, WellNamed
  <2> QED
    BY <2>1, ReconcileNamed, CrNamed, JobNamed DEF Next, UserStep, Succeed, Collect
<1>2. Inv /\ Named => TypeOK
  <2> SUFFICES ASSUME Inv, Named PROVE TypeOK
    OBVIOUS
  <2>1. \A c \in CRs : cr[c].scanned \subseteq Images /\ task[c].todo \subseteq scoped[c]
    BY DEF Inv, Shape, CrStatus
  <2> QED
    BY <2>1 DEF Named, WellNamed, Chars, TypeOK
<1> QED
  BY <1>1, <1>2, InitNamed, InvHolds, PTL DEF Spec
=============================================================================
