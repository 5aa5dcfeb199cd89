---------------------------- MODULE ScanLifecycle ----------------------------
(***************************************************************************)
(* What the stored status of one NamespaceScan promises to whoever watches *)
(* it, without the operator: how Ready and its transition time, the scan   *)
(* history, its anchor lastScanCompletedAt and nextScheduledScanAt may     *)
(* change.  Reconciler implements it while one replica reconciles from a   *)
(* current cache, whatever calls fail, crash or interleave.                *)
(***************************************************************************)
EXTENDS Scheduler

CONSTANTS Images, None,
          Skew   \* how far a completion time may be from the clock

VARIABLES
    clock,
    status   \* [reason, ltt, scanned, last, next], as in ScanStatus

vars == <<clock, status>>

\* Outcomes that say nothing of a scan that ended.
Reports == {"InvalidSpec", "RBACInsufficient", "BuildFailed",
            "NoImagesInScope", "Scanning"}

Init == /\ clock = 0
        /\ status = [reason  |-> "Absent",
                     ltt     |-> None,
                     last    |-> None,
                     scanned |-> [i \in Images |-> None],
                     next    |-> None]

-----------------------------------------------------------------------------
\* The transition time moves, forwards, when the reason does.
Restamped(old, new, now) ==
    IF new.reason = old.reason THEN new.ltt = old.ltt
    ELSE /\ new.ltt \in 0 .. now
         /\ old.ltt # None => old.ltt <= new.ltt

(* An entry never goes away.  A new one may lie as far ahead of now as the *)
(* clocks differ, so the one after it twice as far behind it.              *)
Refreshed(t1, t2, now) ==
    IF t2 = None THEN t1 = None
    ELSE /\ t2 \in 0 .. (now + Skew)
         /\ t1 # None => t1 <= t2 + 2 * Skew

Entries(s) == {s.scanned[i] : i \in Images} \ {None}

\* No entry is later than the anchor.
Covered(s) == \A t \in Entries(s) : s.last # None /\ t <= s.last

\* The anchor is the latest of the former anchor and the entries.
Anchored(old, new) ==
    LET times == ({old.last} \cup Entries(new)) \ {None}
    IN  new.last \in times /\ \A t \in times : t <= new.last

\* The next scan is counted from the anchor, else from the creation.
Scheduled(s) ==
    \E kind \in {"Cron", "Interval"} :
        s.next = compute_next_scheduled_time(kind, IF s.last = None THEN 0 ELSE s.last)

SameHistory(old, new) == new.scanned = old.scanned /\ new.last = old.last

GrownHistory(old, new, now) ==
    /\ \A i \in Images : Refreshed(old.scanned[i], new.scanned[i], now)
    /\ Entries(new) # {}
    /\ Anchored(old, new)

Report(old, new) ==
    /\ new.reason \in Reports
    /\ SameHistory(old, new)
    /\ new.next = old.next

Fail(old, new) ==
    /\ new.reason = "ScanFailed"
    /\ SameHistory(old, new)
    /\ Scheduled(new)

Complete(old, new, now) ==
    /\ new.reason = "ScanCompleted"
    /\ GrownHistory(old, new, now)
    /\ Scheduled(new)

\* new may follow old as the stored status.
Successor(old, new, now) ==
    /\ Restamped(old, new, now)
    /\ Report(old, new) \/ Fail(old, new) \/ Complete(old, new, now)

-----------------------------------------------------------------------------
Publish == Successor(status, status', clock) /\ UNCHANGED clock

Tick == clock' = clock + 1 /\ UNCHANGED status

Next == Publish \/ Tick

Spec == Init /\ [][Next]_vars
=============================================================================
