--------------------------- MODULE MCLeaderElection ---------------------------
(***************************************************************************)
(* Instances of LeaderElection for TLC.                                    *)
(***************************************************************************)
EXTENDS LeaderElection, TLC

ReplicaSymmetry == Permutations(Replicas)
=============================================================================
