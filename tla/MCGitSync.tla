------------------------------ MODULE MCGitSync ------------------------------
(***************************************************************************)
(* Fault cases for the run of GitSync.  The processes are alike, so one of *)
(* them leads first.                                                       *)
(***************************************************************************)
EXTENDS GitSync

SomeFaults ==
    {{"handover", "user"}, {"delete", "unlink", "user"}, {"db", "crash", "user"}}

OneLeaderInit == Init /\ leader = CHOOSE i \in Instances : TRUE

OneLeaderSpec == OneLeaderInit /\ [][Next]_vars /\ Fairness
=============================================================================
