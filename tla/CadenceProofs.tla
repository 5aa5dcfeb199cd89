---------------------------- MODULE CadenceProofs ----------------------------
(***************************************************************************)
(* Cadence for all delays, latencies and numbers of faults and deletions:  *)
(* no living CR is forgotten, and work for a reconcile is done in time.    *)
(***************************************************************************)
EXTENDS Cadence, TLAPS

Run == [step : {"idle", "calls", "patch"}, age : 0 .. Latency,
        left : Left, new : {"Scanning", "Terminal"}, fired : BOOLEAN]

Queue == (0 .. REQUEUE_INTERVAL) \cup {Never}

LEMMA IdleType == Idle \in Run
  BY DelaysAssumption DEF Idle, Run, Left

\* What the scheduler keeps is the earlier of the two.
LEMMA ScheduleType ==
  ASSUME TypeOK, NEW d \in Queue
  PROVE  /\ Schedule(d) \in Queue
         /\ d # Never => Schedule(d) # Never /\ Schedule(d) <= d
         /\ queue # Never => Schedule(d) # Never /\ Schedule(d) <= queue
  BY DelaysAssumption, NeverAssumption DEF Schedule, TypeOK, Queue

\* Every delay the controller asks for is at most a heartbeat.
LEMMA Delays ==
  ASSUME TypeOK
  PROVE  /\ \A left \in Left : next_requeue_interval(left) \in 0 .. REQUEUE_INTERVAL
         /\ error_policy(FALSE) = ERROR_REQUEUE /\ ERROR_REQUEUE \in 1 .. REQUEUE_INTERVAL
         /\ error_policy(TRUE) = Never
         /\ FireRequeue \in 0 .. REQUEUE_INTERVAL
         /\ job_to_cr_request \in Queue
         /\ Triggered = 0 /\ 0 \in Queue
  BY DelaysAssumption, NeverAssumption
     DEF next_requeue_interval, error_policy, job_to_cr_request, Triggered, Queue, Left

LEMMA AfterError ==
  ASSUME TypeOK, queue' = Schedule(error_policy(FALSE))
  PROVE  queue' \in Queue /\ queue' # Never /\ queue' <= ERROR_REQUEUE
<1>1. error_policy(FALSE) = ERROR_REQUEUE /\ ERROR_REQUEUE \in Queue /\ ERROR_REQUEUE # Never
  BY DelaysAssumption, NeverAssumption DEF error_policy, Queue
<1>2. queue' = Schedule(ERROR_REQUEUE)
  BY <1>1
<1> QED
  BY <1>1, <1>2, ScheduleType

\* Countdowns keep their ranges.
LEMMA CountDownType ==
  ASSUME NEW m \in Int, -Latency <= m, NEW n \in -Latency .. m
  PROVE  CountDown(n) \in -Latency .. m /\ CountDown(n) <= n
  BY DelaysAssumption DEF CountDown

\* What a patch stores.
LEMMA AfterPatched ==
  ASSUME TypeOK, Patched
  PROVE  /\ next' \in Left
         /\ status' = run.new /\ status' \in {"Scanning", "Terminal"}
         /\ event' = 0 /\ event' \in (0 .. Latency) \cup {Never}
<1>1. run.left \in Left /\ run.age \in 0 .. Latency /\ next \in Left
  BY DEF TypeOK
<1>2. CASE run.left = Never
  BY <1>1, <1>2, DelaysAssumption DEF Patched, TypeOK
<1>3. CASE run.left # Never
  <2>1. run.left \in -Latency .. Interval + Latency
    BY <1>1, <1>3 DEF Left
  <2>2. next' = IF run.left - run.age < -Latency THEN -Latency ELSE run.left - run.age
    BY <1>3 DEF Patched
  <2>3. next' \in -Latency .. Interval + Latency
    BY <1>1, <2>1, <2>2, DelaysAssumption
  <2> QED
    BY <2>3, DelaysAssumption DEF Patched, TypeOK, Left
<1> QED
  BY <1>2, <1>3

\* A patch that is answered.
LEMMA AfterPatch ==
  ASSUME TypeOK, PatchStatus
  PROVE  /\ queue' \in Queue
         /\ alive => status' = run.new /\ event' = 0
         /\ ~alive => status' = status /\ event' = event
         /\ next' \in Left
<1>1. CASE alive
  <2> DEFINE d == IF run.fired THEN FireRequeue ELSE next_requeue_interval(run.left)
  <2>1. run.left \in Left
    BY DEF TypeOK
  <2>2. d \in Queue
    BY <2>1, Delays DEF Queue
  <2>3. queue' = Schedule(d)
    BY <1>1 DEF PatchStatus
  <2> HIDE DEF d
  <2>4. queue' \in Queue
    BY <2>2, <2>3, ScheduleType
  <2> QED
    BY <1>1, <2>4, AfterPatched DEF PatchStatus
<1>2. CASE ~alive
  <2>1. Never \in Queue /\ error_policy(TRUE) = Never
    BY DEF Queue, error_policy
  <2>2. queue' = Schedule(Never)
    BY <1>2, <2>1 DEF PatchStatus
  <2>3. queue' \in Queue
    BY <2>1, <2>2, ScheduleType
  <2> QED
    BY <1>2, <2>3 DEF PatchStatus, TypeOK
<1> QED
  BY <1>1, <1>2

LEMMA FaultType ==
  ASSUME TypeOK, Fault
  PROVE  /\ budget' \in [faults : 0 .. MaxFaults, deletes : 0 .. MaxDeletes]
         /\ budget.faults \in 1 .. MaxFaults /\ budget'.faults = budget.faults - 1
  BY DelaysAssumption DEF TypeOK, Fault

LEMMA WaitsType ==
  ASSUME TypeOK, Waits
  PROVE  late' \in Nat
  BY DEF TypeOK, Waits

LEMMA InitType == Init => TypeOK
  BY IdleType, DelaysAssumption DEF Init, TypeOK, Run, Left

\* A reconcile knows the stored time of the next scan when it begins.
LEMMA BeginRun ==
  ASSUME TypeOK, Begin
  PROVE  /\ run' \in Run
         /\ alive => run'.step = "calls" /\ run'.age = 0
         /\ ~alive => run' = Idle
<1> DEFINE r == [Idle EXCEPT !.step = "calls"]
           t == [r EXCEPT !.left = next]
<1>1. r \in Run /\ r.step = "calls" /\ r.age = 0
  BY IdleType DEF Idle, Run
<1>2. run' = IF alive THEN t ELSE Idle
  BY DEF Begin, Idle
<1> HIDE DEF r
<1>3. t \in Run /\ t.step = "calls" /\ t.age = 0
  BY <1>1 DEF Run, TypeOK
<1> HIDE DEF t
<1> QED
  BY <1>2, <1>3, IdleType

LEMMA BeginType ==
  ASSUME TypeOK, Begin
  PROVE  TypeOK'
<1>1. run' \in Run
  BY BeginRun
<1> QED
  BY <1>1 DEF TypeOK, Run, Begin, cluster

\* The reconcile goes on to its patch with what it found.
LEMMA CallsRun ==
  ASSUME TypeOK, Calls
  PROVE  /\ run' \in Run
         /\ run'.step = "patch" /\ run'.age = run.age
         /\ run'.new = IF jobs = "finished" THEN "Terminal" ELSE "Scanning"
<1> DEFINE new  == IF jobs = "finished" THEN "Terminal" ELSE "Scanning"
           left == IF jobs = "finished" THEN toDue + run.age ELSE run.left
           r == [run EXCEPT !.step = "patch", !.new = new]
           t == [r EXCEPT !.left = left]
<1>1. r \in Run /\ r.step = "patch" /\ r.age = run.age /\ r.new = new
  BY DEF TypeOK, Run
<1>2. run' = [t EXCEPT !.fired = Due]
  BY DEF Calls, TypeOK
<1>3. left \in Left
  BY DelaysAssumption DEF TypeOK, Left
<1>4. Due \in BOOLEAN
  BY DEF Due
<1> HIDE DEF r, new, left
<1>5. t \in Run /\ t.step = "patch" /\ t.age = run.age /\ t.new = new
  BY <1>1, <1>3 DEF Run
<1> HIDE DEF t
<1>6. /\ run' \in Run
      /\ run'.step = "patch" /\ run'.age = run.age /\ run'.new = new
  BY <1>2, <1>4, <1>5 DEF Run
<1> QED
  BY <1>6 DEF new

LEMMA CallsType ==
  ASSUME TypeOK, Calls
  PROVE  TypeOK'
<1>1. run' \in Run
  BY CallsRun
<1>2. jobs' \in {"absent", "running", "finished"}
  BY DEF Calls, TypeOK
<1>3. queue' \in Queue
  BY ScheduleType, Delays DEF Calls, TypeOK, Queue
<1> QED
  BY <1>1, <1>2, <1>3, WaitsType DEF Calls, TypeOK, Run, Queue

LEMMA CallsFailType ==
  ASSUME TypeOK, CallsFail
  PROVE  TypeOK'
<1>1. queue' \in Queue
  BY AfterError DEF CallsFail
<1> QED
  BY <1>1, IdleType, FaultType, WaitsType DEF CallsFail, TypeOK, Run, Queue

LEMMA PatchStatusType ==
  ASSUME TypeOK, PatchStatus
  PROVE  TypeOK'
<1>1. queue' \in Queue /\ status' \in {"Scanning", "Terminal"} /\ next' \in Left
  BY AfterPatch DEF TypeOK
<1>2. event' \in (0 .. Latency) \cup {Never}
  BY AfterPatch, DelaysAssumption DEF TypeOK
<1> QED
  BY <1>1, <1>2, IdleType, WaitsType DEF PatchStatus, TypeOK, Run, Queue

LEMMA PatchFailsType ==
  ASSUME TypeOK, PatchFails
  PROVE  TypeOK'
<1>1. queue' \in Queue
  BY AfterError DEF PatchFails
<1>2. /\ status' \in {"Scanning", "Terminal"} /\ next' \in Left
      /\ event' \in (0 .. Latency) \cup {Never}
  BY AfterPatched DEF PatchFails, TypeOK
<1> QED
  BY <1>1, <1>2, IdleType, FaultType, WaitsType DEF PatchFails, TypeOK, Run, Queue

LEMMA EventArrivesType ==
  ASSUME TypeOK, EventArrives
  PROVE  TypeOK'
<1>1. queue' \in Queue
  BY ScheduleType, Delays DEF EventArrives
<1> QED
  BY <1>1 DEF EventArrives, cluster, TypeOK, Queue

LEMMA JobsType ==
  ASSUME TypeOK, JobsFinish \/ JobsDeleted
  PROVE  TypeOK'
<1>1. queue' \in Queue
  BY ScheduleType, Delays DEF JobsFinish, JobsDeleted
<1>2. toDue' \in -Latency .. Interval
  BY DelaysAssumption DEF JobsFinish, JobsDeleted, TypeOK
<1>3. late' \in Nat
  BY WaitsType DEF JobsFinish, JobsDeleted
<1> QED
  BY <1>1, <1>2, <1>3 DEF JobsFinish, JobsDeleted, TypeOK, Queue

LEMMA CrType ==
  ASSUME TypeOK, DeleteCr \/ CreateCr
  PROVE  TypeOK'
<1>1. next' \in Left /\ event' \in (0 .. Latency) \cup {Never}
  BY DelaysAssumption DEF DeleteCr, CreateCr, TypeOK, Left
<1>2. late' \in Nat
  BY WaitsType DEF DeleteCr, CreateCr
<1>3. budget' \in [faults : 0 .. MaxFaults, deletes : 0 .. MaxDeletes]
  BY DelaysAssumption DEF DeleteCr, CreateCr, TypeOK
<1> QED
  BY <1>1, <1>2, <1>3 DEF DeleteCr, CreateCr, TypeOK

LEMMA TickRun ==
  ASSUME TypeOK, Tick
  PROVE  /\ run' \in Run
         /\ run = Idle => run' = Idle
         /\ run # Idle => /\ run'.age = run.age + 1 /\ run'.age <= Latency
                          /\ run'.step = run.step /\ run'.new = run.new
  BY IdleType, DelaysAssumption DEF Tick, TypeOK, Run

LEMMA TickType ==
  ASSUME TypeOK, Tick
  PROVE  TypeOK'
<1>1. event' \in (0 .. Latency) \cup {Never}
  BY DelaysAssumption, NeverAssumption DEF Tick, TypeOK
<1>2. queue' \in Queue
  BY DelaysAssumption, NeverAssumption DEF Tick, TypeOK, Queue
<1>3. toDue' \in -Latency .. Interval /\ late' \in Nat
  BY CountDownType, DelaysAssumption DEF Tick, TypeOK
<1>4. next' \in Left
  <2>1. Interval + Latency \in Int /\ -Latency <= Interval + Latency
    BY DelaysAssumption
  <2>2. next # Never => CountDown(next) \in -Latency .. Interval + Latency
    BY <2>1, CountDownType DEF TypeOK, Left
  <2> QED
    BY <2>2 DEF Tick, Left
<1> QED
  BY <1>1, <1>2, <1>3, <1>4, TickRun DEF Tick, TypeOK, Run, Queue

LEMMA NextType ==
  ASSUME TypeOK, [Next]_vars
  PROVE  TypeOK'
<1>1. CASE UNCHANGED vars
  BY <1>1 DEF vars, TypeOK
<1> QED
  BY <1>1, BeginType, CallsType, CallsFailType, PatchStatusType, PatchFailsType,
     EventArrivesType, JobsType, CrType, TickType DEF Next, Controller

(* Every clock and queue entry keeps its range: no request waits longer    *)
(* than a heartbeat.                                                       *)
THEOREM CadenceTypes == Spec => []TypeOK
  BY InitType, NextType, PTL DEF Spec

-----------------------------------------------------------------------------
(***************************************************************************)
(* A reconcile is asked for at once, or after an error; so the wait for it *)
(* is charged to an event under way or to a fault.  InTime adds up what is *)
(* left of that wait: a reconcile in flight that is of use to the work     *)
(* needs the rest of its calls, any other one that rest, the event of its  *)
(* patch and the calls of the next one.                                    *)
(***************************************************************************)
Faults == MaxFaults - budget.faults

Bound == 3 * Latency + Faults * (ERROR_REQUEUE + Latency)

Steady == run.step = "idle" => run = Idle

Hot == alive /\ run = Idle =>
         \/ event # Never
         \/ queue = 0
         \/ Faults >= 1 /\ queue # Never /\ queue <= ERROR_REQUEUE

Useful == \/ run.step = "calls" /\ (Work = "fire" => Due)
          \/ run.step = "patch" /\ Work = "report" /\ run.new = "Terminal"

QueuedInTime == queue # Never /\ late + queue + Latency <= Bound

EventInTime == event # Never /\ late + (Latency - event) + Latency <= Bound

RunsInTime == late + (Latency - run.age) + (IF Useful THEN 0 ELSE 2 * Latency) <= Bound

InTime ==
    /\ Work = "none" => late = 0
    /\ Work # "none" /\ run = Idle => QueuedInTime \/ EventInTime
    /\ Work # "none" /\ run # Idle => RunsInTime

Inv == TypeOK /\ Steady /\ Hot /\ InTime

-----------------------------------------------------------------------------
(* The bound. *)

LEMMA Products ==
  ASSUME NEW a \in Nat, NEW c \in Nat
  PROVE  a * c \in Nat /\ (a + 1) * c = a * c + c
  OBVIOUS

LEMMA BoundIs ==
  ASSUME TypeOK
  PROVE  /\ Bound \in Nat /\ 3 * Latency <= Bound
         /\ Faults >= 1 => 3 * Latency + ERROR_REQUEUE + Latency <= Bound
<1> DEFINE c == ERROR_REQUEUE + Latency
<1>1. Faults \in Nat /\ c \in Nat /\ Latency \in Nat /\ ERROR_REQUEUE \in Nat
  BY DelaysAssumption DEF TypeOK, Faults
<1>2. Faults * c \in Nat
  BY <1>1, Products
<1>3. ASSUME Faults >= 1 PROVE c <= Faults * c
  <2>1. Faults - 1 \in Nat /\ Faults = (Faults - 1) + 1
    BY <1>1, <1>3
  <2>2. (Faults - 1) * c \in Nat /\ ((Faults - 1) + 1) * c = (Faults - 1) * c + c
    BY <1>1, <2>1, Products
  <2>3. Faults * c = (Faults - 1) * c + c
    BY <2>1, <2>2
  <2> HIDE DEF c
  <2> QED
    BY <1>1, <2>2, <2>3
<1>4. Bound = 3 * Latency + Faults * c
  BY DEF Bound
<1> QED
  BY <1>1, <1>2, <1>3, <1>4

LEMMA BoundGrows ==
  ASSUME TypeOK, Fault
  PROVE  Bound' = Bound + ERROR_REQUEUE + Latency /\ Faults' >= 1
<1> DEFINE c == ERROR_REQUEUE + Latency
<1>1. Faults \in Nat /\ c \in Nat /\ Latency \in Nat /\ ERROR_REQUEUE \in Nat
  BY DelaysAssumption DEF TypeOK, Faults
<1>2. Faults' = Faults + 1
  BY <1>1, FaultType, DelaysAssumption DEF Faults
<1>3. (Faults + 1) * c = Faults * c + c /\ Faults * c \in Nat
  BY <1>1, Products
<1>4. Bound = 3 * Latency + Faults * c /\ Bound' = 3 * Latency + Faults' * c
  BY DEF Bound
<1> QED
  BY <1>1, <1>2, <1>3, <1>4

LEMMA BoundKept ==
  ASSUME budget'.faults = budget.faults
  PROVE  Bound' = Bound /\ Faults' = Faults
  BY DEF Bound, Faults

LEMMA BoundTypes ==
  ASSUME TypeOK, budget'.faults = budget.faults \/ Fault
  PROVE  /\ Bound' \in Nat /\ 3 * Latency <= Bound'
         /\ Faults' >= 1 => 3 * Latency + ERROR_REQUEUE + Latency <= Bound'
         /\ Bound <= Bound'
  BY BoundIs, BoundGrows, BoundKept, DelaysAssumption

-----------------------------------------------------------------------------
(* What waits for how long. *)

LEMMA Times ==
  ASSUME TypeOK
  PROVE  /\ Latency \in Nat /\ ERROR_REQUEUE \in Nat \ {0} /\ late \in Nat
         /\ run.age \in 0 .. Latency
         /\ event # Never => event \in 0 .. Latency
         /\ queue # Never => queue \in Nat
         /\ 0 # Never
         /\ Work \in {"none", "create", "report", "fire"}
  BY DelaysAssumption, NeverAssumption DEF TypeOK, Work

LEMMA LateInTime ==
  ASSUME TypeOK, InTime
  PROVE  late <= Bound
<1>1. CASE Work = "none"
  BY <1>1, BoundIs, Times DEF InTime
<1>2. CASE Work # "none" /\ run = Idle
  BY <1>2, BoundIs, Times DEF InTime, QueuedInTime, EventInTime
<1>3. CASE Work # "none" /\ run # Idle
  BY <1>3, BoundIs, Times DEF InTime, RunsInTime
<1> QED
  BY <1>1, <1>2, <1>3

\* Work that a reconcile has not waited for yet.
LEMMA NewWork ==
  ASSUME TypeOK, TypeOK', Hot', late' = 0, budget'.faults = budget.faults \/ Fault
  PROVE  InTime'
<1>1. /\ Latency \in Nat /\ ERROR_REQUEUE \in Nat
      /\ run'.age \in 0 .. Latency
      /\ event' # Never => event' \in 0 .. Latency
      /\ queue' # Never => queue' \in Nat
      /\ 0 # Never
  BY DelaysAssumption, NeverAssumption DEF TypeOK
<1>2. /\ Bound' \in Nat /\ 3 * Latency <= Bound'
      /\ Faults' >= 1 => 3 * Latency + ERROR_REQUEUE + Latency <= Bound'
  BY BoundTypes
<1>3. ASSUME Work' # "none", (run = Idle)' PROVE QueuedInTime' \/ EventInTime'
  <2>1. alive'
    BY <1>3 DEF Work
  <2>2. CASE event' # Never
    BY <1>1, <1>2, <2>2 DEF EventInTime
  <2>3. CASE queue' = 0
    BY <1>1, <1>2, <2>3 DEF QueuedInTime
  <2>4. CASE Faults' >= 1 /\ queue' # Never /\ queue' <= ERROR_REQUEUE
    BY <1>1, <1>2, <2>4 DEF QueuedInTime
  <2> QED
    BY <1>3, <2>1, <2>2, <2>3, <2>4 DEF Hot
<1>4. RunsInTime'
  BY <1>1, <1>2 DEF RunsInTime
<1> QED
  BY <1>3, <1>4 DEF InTime

\* Any step but a tick leaves late alone or starts it anew.
LEMMA SameOrNewWork ==
  ASSUME TypeOK, TypeOK', InTime, Hot', Waits, budget'.faults = budget.faults \/ Fault,
         Work' = Work /\ Work # "none" /\ late' = late => InTime'
  PROVE  InTime'
<1>1. CASE Work' # Work
  BY <1>1, NewWork DEF Waits
<1>2. CASE Work' = Work /\ Work = "none"
  BY <1>2, NewWork DEF Waits, InTime
<1>3. CASE Work' = Work /\ Work # "none"
  BY <1>3 DEF Waits
<1> QED
  BY <1>1, <1>2, <1>3

-----------------------------------------------------------------------------
(* The steps of a reconcile. *)

LEMMA ScheduleAtOnce ==
  ASSUME TypeOK
  PROVE  Schedule(0) = 0
<1>1. 0 \in Queue /\ 0 # Never
  BY DelaysAssumption, NeverAssumption DEF Queue
<1> QED
  BY <1>1, ScheduleType, NeverAssumption DEF Queue

LEMMA IdleStep == Idle.step = "idle"
  BY DEF Idle

LEMMA BeginInv ==
  ASSUME Inv, Begin
  PROVE  Inv'
<1>1. TypeOK'
  BY BeginType DEF Inv
<1>2. /\ alive' = alive /\ Work' = Work /\ late' = late /\ budget' = budget /\ event' = event
      /\ toDue' = toDue /\ jobs' = jobs /\ run = Idle /\ queue = 0
  BY DEF Begin, cluster, Work
<1>3. /\ alive => run'.step = "calls" /\ run'.age = 0
      /\ ~alive => run' = Idle
  BY BeginRun DEF Inv
<1>4. Idle' = Idle
  BY DEF Idle
<1>5. Steady'
  BY <1>3, <1>4 DEF Steady
<1>6. Hot'
  BY <1>2, <1>3, <1>4, IdleStep DEF Hot
<1>7. Bound' = Bound
  BY <1>2, BoundKept
<1>8. ASSUME Work # "none" PROVE alive /\ (run # Idle)' /\ RunsInTime'
  <2>1. alive
    BY <1>8 DEF Work
  <2>2. (run # Idle)'
    BY <2>1, <1>3, <1>4, IdleStep
  <2>3. Work = "fire" => jobs = "finished" /\ toDue <= 0 /\ toDue \in Int
    BY DEF Work, Inv, TypeOK
  <2>4. Useful'
    BY <1>2, <1>3, <2>1, <2>3 DEF Useful, Due
  <2>5. late + Latency <= Bound
    BY <1>2, <1>8, Times, BoundIs DEF Inv, InTime, QueuedInTime, EventInTime
  <2> QED
    BY <1>2, <1>3, <1>7, <2>1, <2>2, <2>4, <2>5, Times DEF Inv, RunsInTime
<1>9. InTime'
  BY <1>2, <1>8 DEF Inv, InTime
<1> QED
  BY <1>1, <1>5, <1>6, <1>9 DEF Inv

LEMMA CallsInv ==
  ASSUME Inv, Calls
  PROVE  Inv'
<1>1. TypeOK'
  BY CallsType DEF Inv
<1>2. /\ run.step = "calls" /\ run # Idle /\ run' # Idle /\ Idle' = Idle
      /\ run'.step = "patch" /\ run'.age = run.age
      /\ run'.new = IF jobs = "finished" THEN "Terminal" ELSE "Scanning"
  BY CallsRun, IdleStep DEF Inv, Calls, Idle
<1>3. Steady' /\ Hot'
  BY <1>2 DEF Steady, Hot
<1>4. /\ alive' = alive /\ status' = status /\ toDue' = toDue /\ budget' = budget /\ Waits
      /\ jobs' = IF Due THEN "absent"
                 ELSE IF jobs = "absent" THEN "running" ELSE jobs
      /\ Due => jobs = "finished"
  BY DEF Calls, Due
<1>5. ASSUME Work' = Work, Work # "none", late' = late PROVE InTime'
  <2>1. jobs = "finished" /\ ~Due /\ (Work = "report" \/ Work = "fire")
    BY <1>4, <1>5 DEF Work
  <2>2. Useful' = Useful
    BY <1>2, <1>5, <2>1 DEF Useful
  <2>3. RunsInTime
    BY <1>2, <1>5 DEF Inv, InTime
  <2>4. Bound' = Bound
    BY <1>4, BoundKept
  <2>5. RunsInTime'
    BY <1>2, <1>5, <2>2, <2>3, <2>4 DEF RunsInTime
  <2> QED
    BY <1>2, <1>5, <2>5 DEF InTime
<1>6. InTime'
  BY <1>1, <1>3, <1>4, <1>5, SameOrNewWork DEF Inv
<1> QED
  BY <1>1, <1>3, <1>6 DEF Inv

\* A reconcile that fails leaves a retry in the queue.
LEMMA FailInv ==
  ASSUME Inv, CallsFail \/ PatchFails
  PROVE  Inv'
<1>1. TypeOK'
  BY CallsFailType, PatchFailsType DEF Inv
<1>2. queue' # Never /\ queue' <= ERROR_REQUEUE
  BY AfterError DEF Inv, CallsFail, PatchFails
<1>3. run' = Idle /\ Idle' = Idle /\ Waits /\ Fault /\ run # Idle
  BY IdleStep DEF CallsFail, PatchFails, Idle
<1>4. Bound' = Bound + ERROR_REQUEUE + Latency /\ Faults' >= 1
  BY <1>3, BoundGrows DEF Inv
<1>5. Steady' /\ Hot'
  BY <1>2, <1>3, <1>4 DEF Steady, Hot
<1>6. ASSUME Work' = Work, Work # "none", late' = late PROVE InTime'
  <2>1. late <= Bound
    BY LateInTime DEF Inv
  <2>2. QueuedInTime'
    BY <1>1, <1>2, <1>4, <1>6, <2>1, Times, BoundIs, DelaysAssumption, NeverAssumption
       DEF Inv, QueuedInTime, TypeOK
  <2> QED
    BY <1>3, <1>6, <2>2 DEF InTime
<1>7. InTime'
  BY <1>1, <1>3, <1>5, <1>6, SameOrNewWork DEF Inv
<1> QED
  BY <1>1, <1>5, <1>7 DEF Inv

\* A reconcile of no use to the work leaves the event of its patch.
LEMMA PatchInv ==
  ASSUME Inv, PatchStatus
  PROVE  Inv'
<1>1. TypeOK'
  BY PatchStatusType DEF Inv
<1>2. alive => status' = run.new /\ event' = 0
  BY AfterPatch DEF Inv
<1>3. /\ run.step = "patch" /\ run' = Idle /\ Idle' = Idle /\ run # Idle /\ Waits
      /\ alive' = alive /\ jobs' = jobs /\ toDue' = toDue /\ budget' = budget
  BY IdleStep DEF PatchStatus, Idle
<1>4. Steady' /\ Hot'
  BY <1>2, <1>3, NeverAssumption DEF Steady, Hot
<1>5. ASSUME Work' = Work, Work # "none", late' = late PROVE InTime'
  <2>1. alive
    BY <1>5 DEF Work
  <2>2. ~Useful
    <3>1. Work = "report" => run.new # "Terminal"
      BY <1>2, <1>3, <1>5, <2>1 DEF Work
    <3> QED
      BY <1>3, <3>1 DEF Useful
  <2>3. RunsInTime
    BY <1>3, <1>5 DEF Inv, InTime
  <2>4. Bound' = Bound
    BY <1>3, BoundKept
  <2>5. late + Latency + Latency <= Bound
    BY <2>2, <2>3, Times, BoundIs DEF Inv, RunsInTime
  <2>6. EventInTime'
    BY <1>2, <1>5, <2>1, <2>4, <2>5, Times DEF Inv, EventInTime
  <2> QED
    BY <1>3, <1>5, <2>6 DEF InTime
<1>6. InTime'
  BY <1>1, <1>3, <1>4, <1>5, SameOrNewWork DEF Inv
<1> QED
  BY <1>1, <1>4, <1>6 DEF Inv

-----------------------------------------------------------------------------
(* The steps of its surroundings. *)

LEMMA EventInv ==
  ASSUME Inv, EventArrives
  PROVE  Inv'
<1>1. TypeOK'
  BY EventArrivesType DEF Inv
<1>2. queue' = 0
  BY ScheduleAtOnce DEF Inv, EventArrives, Triggered
<1>3. /\ event # Never /\ run' = run /\ late' = late /\ budget' = budget
      /\ alive' = alive /\ Idle' = Idle /\ Work' = Work /\ Useful' = Useful
  BY DEF EventArrives, cluster, Work, Idle, Useful, Due
<1>4. Steady' /\ Hot'
  BY <1>2, <1>3 DEF Inv, Steady, Hot
<1>5. Bound' = Bound
  BY <1>3, BoundKept
<1>6. RunsInTime' <=> RunsInTime
  BY <1>3, <1>5 DEF RunsInTime
<1>7. QueuedInTime \/ EventInTime => QueuedInTime'
  BY <1>2, <1>3, <1>5, Times, BoundIs DEF Inv, QueuedInTime, EventInTime
<1>8. InTime'
  BY <1>3, <1>6, <1>7 DEF Inv, InTime
<1> QED
  BY <1>1, <1>4, <1>8 DEF Inv

LEMMA ClusterInv ==
  ASSUME Inv, JobsFinish \/ JobsDeleted \/ DeleteCr \/ CreateCr
  PROVE  Inv'
<1>1. TypeOK'
  BY JobsType, CrType DEF Inv
<1>2. /\ run' = run /\ Idle' = Idle /\ Waits
      /\ budget'.faults = budget.faults
  BY DEF JobsFinish, JobsDeleted, DeleteCr, CreateCr, Idle, Inv, TypeOK
<1>3. Faults' = Faults
  BY <1>2, BoundKept
<1>4. Hot'
  <2>1. CASE JobsFinish \/ JobsDeleted
    <3>1. job_to_cr_request \in Queue
      BY Delays DEF Inv
    <3>2. queue # Never => queue' # Never /\ queue' <= queue
      BY <2>1, <3>1, ScheduleType DEF Inv, JobsFinish, JobsDeleted
    <3>3. queue = 0 => queue' = 0
      BY <1>1, <3>2, NeverAssumption DEF TypeOK
    <3>4. alive' = alive /\ event' = event
      BY <2>1 DEF JobsFinish, JobsDeleted
    <3> QED
      BY <1>1, <1>2, <1>3, <3>2, <3>3, <3>4, DelaysAssumption, NeverAssumption
         DEF Inv, Hot, TypeOK
  <2>2. CASE DeleteCr
    BY <2>2 DEF DeleteCr, Hot
  <2>3. CASE CreateCr
    BY <2>3, NeverAssumption DEF CreateCr, Hot
  <2> QED
    BY <2>1, <2>2, <2>3
<1>5. ~(Work' = Work /\ Work # "none")
  BY DEF JobsFinish, JobsDeleted, DeleteCr, CreateCr, Work
<1>6. InTime'
  BY <1>1, <1>2, <1>4, <1>5, SameOrNewWork DEF Inv
<1> QED
  BY <1>1, <1>2, <1>4, <1>6 DEF Inv, Steady

LEMMA TickInv ==
  ASSUME Inv, Tick
  PROVE  Inv'
<1>1. TypeOK'
  BY TickType DEF Inv
<1>2. /\ run = Idle => run' = Idle
      /\ run # Idle => /\ run'.age = run.age + 1 /\ run'.age <= Latency
                       /\ run'.step = run.step /\ run'.new = run.new
  BY TickRun DEF Inv
<1>3. /\ run = Idle => queue # 0
      /\ Idle' = Idle /\ alive' = alive /\ jobs' = jobs /\ status' = status /\ budget' = budget
      /\ toDue' = IF jobs = "finished" THEN CountDown(toDue) ELSE toDue
      /\ event' = IF event = Never THEN Never ELSE event + 1
      /\ queue' = IF queue \in {Never, 0} THEN queue ELSE queue - 1
      /\ late' = IF Work = "none" THEN 0 ELSE late + 1
  BY DEF Tick, Idle
<1>4. run' = Idle => run = Idle
  BY <1>2, IdleStep DEF Inv, Steady
<1>5. Steady'
  BY <1>2, <1>3, IdleStep DEF Inv, Steady
<1>6. event # Never => event' # Never /\ event' = event + 1
  BY <1>3, Times, NeverAssumption DEF Inv
<1>7. queue # Never /\ queue # 0 => queue' # Never /\ queue' = queue - 1
  BY <1>3, Times, NeverAssumption DEF Inv
<1>8. Hot'
  BY <1>3, <1>4, <1>6, <1>7, BoundKept, Times DEF Inv, Hot
<1>9. CASE Work = "none"
  BY <1>1, <1>3, <1>5, <1>8, <1>9, NewWork DEF Inv
<1>10. CASE Work # "none"
  <2>1. Work' = Work /\ late' = late + 1
    <3>1. jobs = "finished" /\ toDue <= 0 => toDue' <= 0
      <4>1. toDue \in -Latency .. Interval /\ Interval \in Int /\ -Latency <= Interval
        BY DelaysAssumption DEF Inv, TypeOK
      <4>2. CountDown(toDue) \in -Latency .. Interval /\ CountDown(toDue) <= toDue
        BY <4>1, CountDownType
      <4> QED
        BY <1>3, <4>1, <4>2
    <3> QED
      BY <1>3, <1>10, <3>1 DEF Work
  <2>2. Bound' = Bound
    BY <1>3, BoundKept
  <2>3. run # Idle /\ Useful => Useful'
    <3>1. ASSUME run # Idle, Due PROVE Due'
      <4>1. /\ toDue \in Int /\ run.age \in Nat /\ toDue + run.age <= 0
            /\ run'.age = run.age + 1 /\ run'.age <= Latency /\ Latency \in Nat
        BY <1>2, <3>1, DelaysAssumption DEF Inv, TypeOK, Due
      <4>2. jobs' = "finished" /\ toDue' = IF toDue = -Latency THEN toDue ELSE toDue - 1
        BY <1>3, <3>1 DEF Due, CountDown
      <4> QED
        BY <4>1, <4>2 DEF Due
    <3> QED
      BY <1>2, <2>1, <3>1 DEF Useful
  <2>4. run = Idle => QueuedInTime' \/ EventInTime'
    BY <1>3, <1>6, <1>7, <1>10, <2>1, <2>2, Times, BoundIs
       DEF Inv, InTime, QueuedInTime, EventInTime
  <2>5. run # Idle => RunsInTime'
    BY <1>2, <1>10, <2>1, <2>2, <2>3, Times, BoundIs DEF Inv, InTime, RunsInTime
  <2>6. InTime'
    BY <1>2, <1>3, <1>4, <1>10, <2>1, <2>4, <2>5 DEF InTime
  <2> QED
    BY <1>1, <1>5, <1>8, <2>6 DEF Inv
<1> QED
  BY <1>9, <1>10

LEMMA InitInv == Init => Inv
<1> SUFFICES ASSUME Init PROVE Inv
  OBVIOUS
<1>1. TypeOK
  BY InitType
<1>2. Steady /\ Hot
  BY DEF Init, Steady, Hot
<1>3. late = 0 /\ queue = 0 /\ run = Idle /\ Work = "create"
  BY DEF Init, Work
<1>4. QueuedInTime
  BY <1>1, <1>3, Times, BoundIs DEF QueuedInTime
<1> QED
  BY <1>1, <1>2, <1>3, <1>4 DEF Inv, InTime

LEMMA NextInv ==
  ASSUME Inv, [Next]_vars
  PROVE  Inv'
<1>1. CASE UNCHANGED vars
  BY <1>1 DEF vars, Inv, TypeOK, Steady, Idle, Hot, Faults, InTime, Work, QueuedInTime,
              EventInTime, RunsInTime, Useful, Due, Bound
<1> QED
  BY <1>1, BeginInv, CallsInv, FailInv, PatchInv, EventInv, ClusterInv, TickInv
     DEF Next, Controller

LEMMA Invariance == Spec => []Inv
  BY InitInv, NextInv, PTL DEF Spec

(* A living CR always has a reconcile queued, in flight or on its way,     *)
(* whatever was deleted and created again under a reconcile.               *)
THEOREM NeverLost == Spec => []NeverForgotten
<1>1. Inv => NeverForgotten
  BY Times DEF Inv, Hot, NeverForgotten
<1> QED
  BY <1>1, Invariance, PTL

(* Whatever waits for a reconcile is done within two reconciles and the    *)
(* event between them, plus a retry and a reconcile for each failed call.  *)
THEOREM ActsInTime == Spec => []ActedOnInTime
<1>1. Inv => ActedOnInTime
  BY LateInTime DEF Inv, ActedOnInTime, Bound, Faults
<1> QED
  BY <1>1, Invariance, PTL
=============================================================================
