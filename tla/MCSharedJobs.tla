----------------------------- MODULE MCSharedJobs -----------------------------
(***************************************************************************)
(* Small instances of SharedJobs for TLC: two CRs, with a limit of three   *)
(* characters on names in Job names and of four on labels.                 *)
(***************************************************************************)
EXTENDS SharedJobs

CONSTANTS k1, k2, i1, i2, op, team

Pair(ns1, name1, ns2, name2) ==
    [c \in CRs |-> IF c = k1 THEN [namespace |-> ns1, name |-> name1]
                             ELSE [namespace |-> ns2, name |-> name2]]

\* Unlike names; equal once sanitised and cut; equal, elsewhere; too long.
Unlike    == Pair(op, <<"a", "b", "c", "a">>, op, <<"b">>)
Clashing  == Pair(op, <<"a", ".", "b", "c">>, op, <<"a", "-", "b", "a">>)
Namesakes == Pair(op, <<"a">>, team, <<"a">>)
TooLong   == Pair(op, <<"a", "b", "c", "a", "b">>, op, <<"b">>)

MCTargets == [c \in CRs |-> IF c = k1 THEN {{i1, i2}, {i1}} ELSE {{i2}}]

Injective == [i \in Images |-> IF i = i1 THEN "x" ELSE "y"]
Colliding == [i \in Images |-> "x"]

MCScenarios == ({Unlike, Clashing, Namesakes, TooLong} \X {Injective})
               \cup {<<Unlike, Colliding>>}
=============================================================================
