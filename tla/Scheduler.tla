------------------------------ MODULE Scheduler ------------------------------
(***************************************************************************)
(* The pure part of reconcile/scheduler.rs: which spec.schedule is valid,  *)
(* and when the next scan is due.  A schedule is a record of its two       *)
(* optional strings, each reduced to what parsing makes of it.             *)
(***************************************************************************)
EXTENDS Naturals

CONSTANTS
    Interval,    \* the duration a well-formed spec.schedule.interval denotes
    CronPeriod,  \* a well-formed cron expression ticks at its multiples
    Jitter       \* cr_uid_jitter_seconds of the CR's uid

ASSUME IntervalAssumption == Interval \in Nat \ {0}
ASSUME CronPeriodAssumption == CronPeriod \in Nat \ {0}
ASSUME JitterAssumption == Jitter \in Nat

Schedule == [cron     : {"unset", "ok", "malformed"},
             interval : {"unset", "ok", "malformed", "belowMinimum"}]

\* Exactly one of the two is set, and that one parses (interval: >= 1 minute).
parse_schedule(s) ==
    CASE s.cron = "ok"    /\ s.interval = "unset" -> "Cron"
      [] s.cron = "unset" /\ s.interval = "ok"    -> "Interval"
      [] OTHER                                    -> "Err"

\* The first cron tick strictly after the anchor, or one interval after it.
compute_next_scheduled_time(kind, anchor) ==
    (IF kind = "Cron" THEN CronPeriod * ((anchor \div CronPeriod) + 1)
                      ELSE anchor + Interval) + Jitter

is_schedule_due(next, now) == now >= next
=============================================================================
