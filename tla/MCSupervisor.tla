---------------------------- MODULE MCSupervisor ----------------------------
(***************************************************************************)
(* Symmetry and views for the runs of Supervisor.                           *)
(***************************************************************************)
EXTENDS Supervisor, TLC

Symmetry == Permutations(Pipelines) \cup Permutations(Infos)

\* What an object can still influence: nothing once it is unused, and its
\* status and ports no longer after it has left the process map.
LiveInfo(i) ==
    IF Unused(i) THEN <<>>
    ELSE <<IF Registered(i) THEN info[i] ELSE info[i].pipeline,
           os[i], monitor[i], retry[i]>>

View == <<supervisorVars, callerVars, [i \in Infos |-> LiveInfo(i)]>>

\* For the run that asks about ports but not about sidecar files.
ViewPorts == <<supervisorVars, main, stopping, [i \in Infos |-> LiveInfo(i)]>>
=============================================================================
