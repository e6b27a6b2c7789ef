---------------------------- MODULE ProcessTable ----------------------------
(***************************************************************************)
(* What the supervisor promises to the agent's main goroutine: a table     *)
(* with at most one Vector process per pipeline.  Ports, goroutines,       *)
(* backoffs and process objects are gone; Supervisor implements this       *)
(* module (ImplementsProcessTable), and AgentReconcile is built on it.     *)
(*                                                                         *)
(* A pipeline that was removed from the table may still have a process     *)
(* that is being stopped; no new one is launched before it has exited.     *)
(***************************************************************************)
CONSTANT Pipelines

VARIABLES
    entry,      \* the Status of each pipeline's ProcessInfo, or "absent"
    alive       \* whether a Vector process of the pipeline runs

tableVars == <<entry, alive>>

EntryStatuses ==
    {"absent", "STARTING", "RUNNING", "STOPPED", "CRASHED", "CRASH_LOOP"}

TableTypeOK ==
    /\ entry \in [Pipelines -> EntryStatuses]
    /\ alive \in [Pipelines -> BOOLEAN]

TableInit ==
    /\ entry = [p \in Pipelines |-> "absent"]
    /\ alive = [p \in Pipelines |-> FALSE]

-----------------------------------------------------------------------------
\* startProcess, for a pipeline without an entry or in place of a crashed one.
Launch(p) ==
    /\ entry[p] \in {"absent", "CRASHED"}
    /\ ~alive[p]
    /\ entry' = [entry EXCEPT ![p] = "STARTING"]
    /\ alive' = [alive EXCEPT ![p] = TRUE]

\* Stop and RestartInPlace delete the entry before they stop the process.
Remove(p) ==
    /\ entry[p] # "absent"
    /\ entry' = [entry EXCEPT ![p] = "absent"]
    /\ UNCHANGED alive

\* ShutdownAll empties the map before it stops the processes.
RemoveAll ==
    /\ entry' = [p \in Pipelines |-> "absent"]
    /\ UNCHANGED alive

\* The process exits, because it was stopped or by itself.
Exit(p) ==
    /\ alive[p]
    /\ alive' = [alive EXCEPT ![p] = FALSE]
    /\ UNCHANGED entry

\* monitor, after startupDelay.
Settle(p) ==
    /\ entry[p] = "STARTING"
    /\ entry' = [entry EXCEPT ![p] = "RUNNING"]
    /\ UNCHANGED alive

\* monitor, after the process exited with status 0.
NoticeCleanExit(p) ==
    /\ entry[p] = "RUNNING"
    /\ ~alive[p]
    /\ entry' = [entry EXCEPT ![p] = "STOPPED"]
    /\ UNCHANGED alive

\* monitor, after any other exit: a restart will follow, or was given up.
NoticeCrash(p) ==
    /\ entry[p] = "RUNNING"
    /\ ~alive[p]
    /\ \E status \in {"CRASHED", "CRASH_LOOP"} :
          entry' = [entry EXCEPT ![p] = status]
    /\ UNCHANGED alive

\* reconcileFailedRestart: one failed restart too many.
GiveUpRestart(p) ==
    /\ entry[p] = "CRASHED"
    /\ entry' = [entry EXCEPT ![p] = "CRASH_LOOP"]
    /\ UNCHANGED alive

TableNext ==
    \/ RemoveAll
    \/ \E p \in Pipelines :
        \/ Launch(p)
        \/ Remove(p)
        \/ Exit(p)
        \/ Settle(p)
        \/ NoticeCleanExit(p)
        \/ NoticeCrash(p)
        \/ GiveUpRestart(p)

TableSpec == TableInit /\ [][TableNext]_tableVars
=============================================================================
