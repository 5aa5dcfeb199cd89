----------------------------- MODULE MCReconciler -----------------------------
(***************************************************************************)
(* Small instances of Reconciler for TLC.                                  *)
(***************************************************************************)
EXTENDS ReconcilerProperties, TLC

CONSTANTS i1, i2, p1, p2, n1, n2

MCPodNamespace == [p \in Pods |-> IF p = p1 THEN n1 ELSE n2]

\* p1 runs every image in its containers, p2 (if there is one) only i2.
MCPodImages == [p \in Pods |-> IF p = p1 THEN Images ELSE Images \cap {i2}]

EveryInterval == [cron |-> "unset", interval |-> "ok"]
EveryTick     == [cron |-> "ok", interval |-> "unset"]

Good == [namespaces |-> Namespaces, labelSelector |-> FALSE,
         schedule |-> EveryInterval, buildable |-> TRUE]

\* Edits a user may make of it: target, schedule and output block.
NoTarget     == [Good EXCEPT !.namespaces = {}]
SelectorOnly == [NoTarget EXCEPT !.labelSelector = TRUE]
BothSet      == [Good EXCEPT !.schedule.cron = "ok"]
TooShort     == [Good EXCEPT !.schedule.interval = "belowMinimum"]
Cron         == [Good EXCEPT !.schedule = EveryTick]
NoOutput     == [Good EXCEPT !.buildable = FALSE]

GoodOnly == {Good}
EditedSpecs == {Good, SelectorOnly, BothSet, NoOutput, Cron}

ImageSymmetry == Permutations(Images)

RunningOnly == {"Running"}
RunThenEnd  == {"Running", "Succeeded"}
=============================================================================
