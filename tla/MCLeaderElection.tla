-------------------------- MODULE MCLeaderElection --------------------------
(***************************************************************************)
(* Symmetry for the runs of LeaderElection.                                *)
(***************************************************************************)
EXTENDS LeaderElection, TLC

Symmetry == Permutations(Instances)
=============================================================================
