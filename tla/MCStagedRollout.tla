--------------------------- MODULE MCStagedRollout ---------------------------
(***************************************************************************)
(* Symmetry and view for the runs of StagedRollout.                        *)
(***************************************************************************)
EXTENDS StagedRollout, TLC

Symmetry ==
    Permutations(Nodes) \cup Permutations(Configs) \cup Permutations(Requests)

\* What the agents were served never influences the server.
ServerView == <<dbVars, serverVars, told>>
=============================================================================
