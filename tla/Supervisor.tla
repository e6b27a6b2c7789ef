----------------------------- MODULE Supervisor -----------------------------
(***************************************************************************)
(* The agent's process supervisor                                          *)
(* (agent/internal/supervisor/supervisor.go).                              *)
(*                                                                         *)
(* Threads of the code and how they appear here:                           *)
(*   - the agent's main goroutine, which calls Start, Stop, Restart,       *)
(*     RestartInPlace and ShutdownAll one after the other: variable main;  *)
(*   - one monitor goroutine per started process: monitor[i];              *)
(*   - one restartAfter goroutine per crashed process that waits for its   *)
(*     backoff: retry[i];                                                  *)
(*   - the Vector process itself, owned by the operating system: os[i].    *)
(* A section of code that holds s.mu is one step.                          *)
(*                                                                         *)
(* Infos is the set of ProcessInfo objects.  An object nothing refers to   *)
(* any more may be reused for a new process, so its size bounds how many   *)
(* processes and stale goroutines exist at once, not how many ever exist.  *)
(* Versions, log levels, secrets and checksums are left to AgentReconcile. *)
(***************************************************************************)
EXTENDS PortPool, FiniteSets, Functions

CONSTANTS
    Pipelines,
    Infos,          \* ProcessInfo objects that can exist at the same time
    NoInfo,
    MaxRestarts,    \* s.maxRestarts
    FreeBound,      \* bound: a process may crash while the free stack is shorter
    CountBound      \* bound: ShutdownAll is called while the counts are smaller

ASSUME SupervisorAssumption ==
    /\ IsFiniteSet(Pipelines) /\ Pipelines # {}
    /\ NoInfo \notin Infos
    /\ MaxRestarts \in Nat
    /\ FreeBound \in Nat
    /\ CountBound \in Nat

VARIABLES
    \* Fields of Supervisor, guarded by s.mu.
    processes,      \* map pipeline -> ProcessInfo, NoInfo when absent
    restartCounts,  \* consecutive crashes of each pipeline, 0 when absent
    pool,           \* freePorts and nextSeqPort
    \* Per ProcessInfo object.
    info,           \* the fields PipelineID, Status, MetricsPort, APIPort
    os,             \* its Vector process: none, alive, or how it exited
    monitor,        \* where its monitor goroutine is
    retry,          \* the ports its pending restart goroutine waits with
    \* The calling goroutine and the disk.
    main,           \* the operation in progress and its pipeline
    stopping,       \* objects whose stopProcess call has not returned
    sidecar         \* pipelines whose <pipeline>.yaml.vf-metrics.yaml exists

supervisorVars == <<processes, restartCounts, pool>>
objectVars     == <<info, os, monitor, retry>>
callerVars     == <<main, stopping, sidecar>>
vars           == <<supervisorVars, objectVars, callerVars>>

-----------------------------------------------------------------------------
Statuses == {"STARTING", "RUNNING", "STOPPED", "CRASHED", "CRASH_LOOP"}

NoPorts == <<NoPort, NoPort>>
PortPairs == (Ports \cup {NoPort}) \X (Ports \cup {NoPort})

\* The ports a restartAfter goroutine waits with; NoPorts: there is none.
NoRetry == NoPorts

InfoRecords ==
    [pipeline: Pipelines, status: Statuses, ports: PortPairs]

\* An operation that is running, and the pipeline it was called for.
Operations ==
    [op: {"Stop", "Restart", "RestartInPlace"}, pipeline: Pipelines]
        \cup [op: {"idle", "ShutdownAll"}]
Idle == [op |-> "idle"]

TypeOK ==
    /\ processes \in [Pipelines -> Infos \cup {NoInfo}]
    /\ restartCounts \in [Pipelines -> Nat]
    /\ pool \in Pools
    /\ info \in [Infos -> InfoRecords]
    /\ os \in [Infos -> {"none", "alive", "clean", "failed"}]
    /\ monitor \in [Infos -> {"none", "startup", "waiting", "exited"}]
    /\ retry \in [Infos -> (Ports \X Ports) \cup {NoRetry}]
    /\ main \in Operations
    /\ stopping \in SUBSET Infos
    /\ sidecar \in SUBSET Pipelines

Registered(i) == processes[info[i].pipeline] = i

PendingRetry(i) == retry[i] # NoRetry

Exited(i) == os[i] \in {"clean", "failed"}

\* info.done is closed once the monitor has seen the process exit.
Done(i) == Exited(i) /\ monitor[i] \in {"none", "exited"}

\* Nothing refers to the object: the next process may take its place.
Unused(i) ==
    /\ ~Registered(i)
    /\ os[i] # "alive"
    /\ monitor[i] = "none"
    /\ retry[i] = NoRetry
    /\ i \notin stopping

Init ==
    /\ processes = [p \in Pipelines |-> NoInfo]
    /\ restartCounts = [p \in Pipelines |-> 0]
    /\ pool = EmptyPool
    /\ info \in [Infos -> [pipeline: Pipelines, status: {"STOPPED"}, ports: {NoPorts}]]
    /\ \A i, j \in Infos : info[i] = info[j]      \* objects not in use yet
    /\ os = [i \in Infos |-> "none"]
    /\ monitor = [i \in Infos |-> "none"]
    /\ retry = [i \in Infos |-> NoRetry]
    /\ main = Idle
    /\ stopping = {}
    /\ sidecar = {}

-----------------------------------------------------------------------------
(***************************************************************************)
(* startProcess succeeds: the process runs, its entry is registered and    *)
(* its monitor goroutine exists.  The sidecar file is written first; a     *)
(* write error is only logged and leaves the previous file in place.       *)
(***************************************************************************)
WriteSidecar(p) == sidecar' = sidecar \cup {p} \/ UNCHANGED sidecar

Spawn(p, pair) ==
    \E i \in Infos :
        /\ Unused(i)
        /\ info' = [info EXCEPT ![i] =
              [pipeline |-> p, status |-> "STARTING", ports |-> pair]]
        /\ processes' = [processes EXCEPT ![p] = i]
        /\ os' = [os EXCEPT ![i] = "alive"]
        /\ monitor' = [monitor EXCEPT ![i] = "startup"]
        /\ WriteSidecar(p)

\* Mutant of AllocateAndStart: no port is returned when the process does not start.
AllocateAndStartLeaking(p) ==
    LET pair  == PairTaken(pool)
        taken == AfterAllocate(pool)
    IN  \/ /\ HasPair(pool)
           /\ Spawn(p, pair)
           /\ pool' = taken
        \/ /\ HasPair(pool)
           /\ pool' = taken
           /\ WriteSidecar(p)
           /\ UNCHANGED <<processes, info, os, monitor>>

(***************************************************************************)
(* What Start, Restart and RestartInPlace do under one lock: reserve two   *)
(* ports and start the process; every failure gives the ports back.        *)
(***************************************************************************)
AllocateAndStart(p) ==
    LET pair  == PairTaken(pool)
        taken == AfterAllocate(pool)
    IN  \/ /\ HasPair(pool)
           /\ Spawn(p, pair)
           /\ pool' = taken
        \/ /\ HasPair(pool)                        \* proc.Start fails
           /\ pool' = ReleasePair(taken, pair)
           /\ WriteSidecar(p)
           /\ UNCHANGED <<processes, info, os, monitor>>
        \/ /\ ~HasPair(pool)                       \* no available ports
           /\ pool' = taken
           /\ UNCHANGED <<processes, info, os, monitor, sidecar>>

\* Start: "already running" is an error return that changes nothing.
Start(p) ==
    /\ main = Idle
    /\ processes[p] = NoInfo
    /\ AllocateAndStart(p)
    /\ UNCHANGED <<restartCounts, retry, main, stopping>>

\* Mutant of Detach: the entry stays in the map while its process is stopped.
DetachKeepingEntry(op, p) ==
    /\ main = Idle
    /\ processes[p] # NoInfo
    /\ restartCounts' = [restartCounts EXCEPT ![p] = 0]
    /\ pool' = ReleasePair(pool, info[processes[p]].ports)
    /\ stopping' = {processes[p]}
    /\ main' = [op |-> op, pipeline |-> p]
    /\ UNCHANGED <<processes, info, os, monitor, retry, sidecar>>

(***************************************************************************)
(* The locked first part of Stop, which Restart calls too, and of          *)
(* RestartInPlace.  Stop of an absent pipeline returns at once, and        *)
(* RestartInPlace of one is an error; neither is a step.                   *)
(***************************************************************************)
Detach(op, p) ==
    /\ main = Idle
    /\ processes[p] # NoInfo
    /\ processes' = [processes EXCEPT ![p] = NoInfo]
    /\ restartCounts' = [restartCounts EXCEPT ![p] = 0]
    /\ pool' = ReleasePair(pool, info[processes[p]].ports)
    /\ stopping' = {processes[p]}
    /\ main' = [op |-> op, pipeline |-> p]
    /\ UNCHANGED <<info, os, monitor, retry, sidecar>>

Stop(p)           == Detach("Stop", p)
RestartInPlace(p) == Detach("RestartInPlace", p)
Restart(p) ==
    \/ Detach("Restart", p)
    \/ /\ main = Idle                   \* Stop found nothing to stop
       /\ processes[p] = NoInfo
       /\ AllocateAndStart(p)
       /\ UNCHANGED <<restartCounts, retry, main, stopping>>

\* The ports of the processes in order, a sequence, as releasePorts appends
\* them: metrics before API port.  A registered entry has two allocated ports.
PortsInOrder(order, n) ==
    [k \in 1..(2 * n) |->
        LET ports == info[order[(k + 1) \div 2]].ports
        IN  IF k % 2 = 1 THEN ports[1] ELSE ports[2]]

(***************************************************************************)
(* ShutdownAll up to the unlock: every entry is dropped, in the order in   *)
(* which the map happens to be iterated.  The restart counts are kept.     *)
(***************************************************************************)
ShutdownAll ==
    LET running == {processes[p] : p \in Pipelines} \ {NoInfo}
        n == Cardinality(running)
    IN  /\ main = Idle
        /\ \A p \in Pipelines : restartCounts[p] < CountBound
        /\ processes' = [p \in Pipelines |-> NoInfo]
        /\ \E order \in Bijection(1..n, running) :
              pool' = [pool EXCEPT !.free = @ \o PortsInOrder(order, n)]
        /\ stopping' = running
        /\ main' = [op |-> "ShutdownAll"]
        /\ UNCHANGED <<restartCounts, info, os, monitor, retry, sidecar>>

\* Mutant of KillAfterTimeout: stopProcess waits for ever after SIGTERM.
NeverKill(i) == FALSE

\* stopProcess: stopTimeout passes before the process has exited.
KillAfterTimeout(i) ==
    /\ i \in stopping
    /\ os[i] = "alive"
    /\ os' = [os EXCEPT ![i] = "failed"]
    /\ UNCHANGED <<supervisorVars, info, monitor, retry, callerVars>>

\* stopProcess returns: done is closed and the sidecar file is removed.
StopProcessReturns(i) ==
    /\ i \in stopping
    /\ Done(i)
    /\ stopping' = stopping \ {i}
    /\ sidecar' = sidecar \ {info[i].pipeline}
    /\ UNCHANGED <<supervisorVars, objectVars, main>>

\* Stop and ShutdownAll return to the caller.
OperationReturns ==
    /\ main.op \in {"Stop", "ShutdownAll"}
    /\ stopping = {}
    /\ main' = Idle
    /\ UNCHANGED <<supervisorVars, objectVars, stopping, sidecar>>

\* Restart and RestartInPlace take the lock again and start the process.
RestartFinishes ==
    /\ main.op \in {"Restart", "RestartInPlace"}
    /\ stopping = {}
    /\ AllocateAndStart(main.pipeline)
    /\ main' = Idle
    /\ UNCHANGED <<restartCounts, retry, stopping>>

-----------------------------------------------------------------------------
(***************************************************************************)
(* The Vector process exits by itself or because of SIGTERM.               *)
(***************************************************************************)
ProcessExits(i) ==
    /\ os[i] = "alive"
    /\ Len(pool.free) < FreeBound
    /\ \E how \in {"clean", "failed"} : os' = [os EXCEPT ![i] = how]
    /\ UNCHANGED <<supervisorVars, info, monitor, retry, callerVars>>

\* monitor: startupDelay has passed, a STARTING process is RUNNING.
MonitorStartupDelay(i) ==
    /\ monitor[i] = "startup"
    /\ monitor' = [monitor EXCEPT ![i] = "waiting"]
    /\ info' = IF Registered(i) /\ info[i].status = "STARTING"
               THEN [info EXCEPT ![i].status = "RUNNING"]
               ELSE info
    /\ UNCHANGED <<supervisorVars, os, retry, callerVars>>

\* monitor: Wait returns and done is closed, before s.mu is taken.
MonitorWaitReturns(i) ==
    /\ monitor[i] = "waiting"
    /\ Exited(i)
    /\ monitor' = [monitor EXCEPT ![i] = "exited"]
    /\ UNCHANGED <<supervisorVars, info, os, retry, callerVars>>

\* Mutant of GiveUp: one restart too many.
GiveUpLate(count) == count > MaxRestarts + 1

\* Status and pending restart after the count-th consecutive failure.
GiveUp(count) == count > MaxRestarts

(***************************************************************************)
(* monitor, the locked end: nothing if the entry was replaced, STOPPED     *)
(* after a clean exit, else a restart after the backoff or CRASH_LOOP.     *)
(***************************************************************************)
MonitorReplaced(i) ==
    /\ monitor[i] = "exited"
    /\ ~Registered(i)
    /\ monitor' = [monitor EXCEPT ![i] = "none"]
    /\ UNCHANGED <<supervisorVars, info, os, retry, callerVars>>

MonitorCleanExit(i) ==
    /\ monitor[i] = "exited"
    /\ Registered(i)
    /\ os[i] = "clean"
    /\ monitor' = [monitor EXCEPT ![i] = "none"]
    /\ info' = [info EXCEPT ![i].status = "STOPPED"]
    /\ restartCounts' = [restartCounts EXCEPT ![info[i].pipeline] = 0]
    /\ UNCHANGED <<processes, pool, os, retry, callerVars>>

\* Mutant of MonitorCrash: no return after CRASH_LOOP.
MonitorCrashNoReturn(i) ==
    /\ monitor[i] = "exited"
    /\ Registered(i)
    /\ os[i] = "failed"
    /\ monitor' = [monitor EXCEPT ![i] = "none"]
    /\ LET p == info[i].pipeline
           count == restartCounts[p] + 1
       IN  /\ restartCounts' = [restartCounts EXCEPT ![p] = count]
           /\ info' = [info EXCEPT ![i].status =
                 IF GiveUp(count) THEN "CRASH_LOOP" ELSE "CRASHED"]
           /\ retry' = [retry EXCEPT ![i] = info[i].ports]
    /\ UNCHANGED <<processes, pool, os, callerVars>>

\* Whether the process outlived stableThreshold is left open.
MonitorCrash(i) ==
    /\ monitor[i] = "exited"
    /\ Registered(i)
    /\ os[i] = "failed"
    /\ monitor' = [monitor EXCEPT ![i] = "none"]
    /\ \E stable \in BOOLEAN :
        LET p == info[i].pipeline
            count == (IF stable THEN 0 ELSE restartCounts[p]) + 1
        IN  /\ restartCounts' = [restartCounts EXCEPT ![p] = count]
            /\ info' = [info EXCEPT ![i].status =
                  IF GiveUp(count) THEN "CRASH_LOOP" ELSE "CRASHED"]
            /\ retry' = IF GiveUp(count) THEN retry
                        ELSE [retry EXCEPT ![i] = info[i].ports]
    /\ UNCHANGED <<processes, pool, os, callerVars>>

-----------------------------------------------------------------------------
\* restartAfter: the pipeline was stopped or replaced during the backoff.
RestartAfterBailsOut(i) ==
    /\ PendingRetry(i)
    /\ ~Registered(i)
    /\ pool' = ReleasePair(pool, retry[i])
    /\ retry' = [retry EXCEPT ![i] = NoRetry]
    /\ UNCHANGED <<processes, restartCounts, info, os, monitor, callerVars>>

\* Mutant of RestartAfterStarts: it does not ask whether the entry is still its own.
RestartAfterStale(i) ==
    /\ PendingRetry(i)
    /\ Spawn(info[i].pipeline, retry[i])
    /\ retry' = [retry EXCEPT ![i] = NoRetry]
    /\ UNCHANGED <<restartCounts, pool, main, stopping>>

\* restartAfter: a new process replaces the crashed one, on the same ports.
RestartAfterStarts(i) ==
    /\ PendingRetry(i)
    /\ Registered(i)
    /\ Spawn(info[i].pipeline, retry[i])
    /\ retry' = [retry EXCEPT ![i] = NoRetry]
    /\ UNCHANGED <<restartCounts, pool, main, stopping>>

\* Mutant of ReconcileFailedRestart: no further attempt is scheduled.
ReconcileWithoutRetry(i, q) ==
    LET p == info[i].pipeline
        count == restartCounts[p] + 1
    IN  /\ restartCounts' = [restartCounts EXCEPT ![p] = count]
        /\ info' = [info EXCEPT ![i].status =
              IF GiveUp(count) THEN "CRASH_LOOP" ELSE "CRASHED"]
        /\ pool' = q
        /\ retry' = [retry EXCEPT ![i] = NoRetry]

(***************************************************************************)
(* reconcileFailedRestart: the entry stays registered as CRASHED, and      *)
(* another attempt with new ports is scheduled unless the count has passed *)
(* MaxRestarts.  It is called with q, the pool to which restartAfter has   *)
(* just returned two ports, so its branch for an exhausted pool, which     *)
(* sleeps and calls it again, is unreachable (ReconcileNeverExhausted in   *)
(* SupervisorProofs).                                                      *)
(***************************************************************************)
ReconcileFailedRestart(i, q) ==
    LET p == info[i].pipeline
        count == restartCounts[p] + 1
    IN  /\ restartCounts' = [restartCounts EXCEPT ![p] = count]
        /\ info' = [info EXCEPT ![i].status =
              IF GiveUp(count) THEN "CRASH_LOOP" ELSE "CRASHED"]
        /\ pool' = IF GiveUp(count) THEN q ELSE AfterAllocate(q)
        /\ retry' = [retry EXCEPT ![i] =
              IF GiveUp(count) THEN NoRetry ELSE PairTaken(q)]

\* restartAfter: startProcess fails, the ports go back and a retry follows.
RestartAfterFails(i) ==
    /\ PendingRetry(i)
    /\ Registered(i)
    /\ WriteSidecar(info[i].pipeline)
    /\ ReconcileFailedRestart(i, ReleasePair(pool, retry[i]))
    /\ UNCHANGED <<processes, os, monitor, main, stopping>>

-----------------------------------------------------------------------------
Caller ==
    \/ \E p \in Pipelines :
        Start(p) \/ Stop(p) \/ Restart(p) \/ RestartInPlace(p)
    \/ ShutdownAll

StopProcess(i) == KillAfterTimeout(i) \/ StopProcessReturns(i)

Monitor(i) ==
    \/ MonitorStartupDelay(i)
    \/ MonitorWaitReturns(i)
    \/ MonitorReplaced(i)
    \/ MonitorCleanExit(i)
    \/ MonitorCrash(i)

RestartGoroutine(i) ==
    \/ RestartAfterBailsOut(i)
    \/ RestartAfterStarts(i)
    \/ RestartAfterFails(i)

Next ==
    \/ Caller
    \/ OperationReturns
    \/ RestartFinishes
    \/ \E i \in Infos :
        \/ ProcessExits(i)
        \/ StopProcess(i)
        \/ Monitor(i)
        \/ RestartGoroutine(i)

Spec == Init /\ [][Next]_vars

(***************************************************************************)
(* Every goroutine of the supervisor keeps running, SIGKILL ends a process *)
(* (KillAfterTimeout), and the caller resumes when its wait is over.       *)
(* Nothing is assumed of the caller's choices or of a process that nobody  *)
(* stops: it may run for ever.                                             *)
(***************************************************************************)
Fairness ==
    /\ WF_vars(OperationReturns)
    /\ WF_vars(RestartFinishes)
    /\ \A i \in Infos :
        /\ WF_vars(StopProcess(i))
        /\ WF_vars(Monitor(i))
        /\ WF_vars(RestartGoroutine(i))

FairSpec == Spec /\ Fairness

-----------------------------------------------------------------------------
(***************************************************************************)
(* Refinement: the process table that the code's state stands for.         *)
(***************************************************************************)
Alive(i) == os[i] = "alive"

Table == INSTANCE ProcessTable WITH
    entry <- [p \in Pipelines |->
        IF processes[p] = NoInfo THEN "absent" ELSE info[processes[p]].status],
    alive <- [p \in Pipelines |->
        \E i \in Infos : Alive(i) /\ info[i].pipeline = p]

\* Seen from outside, the supervisor is a process table: whatever goroutines
\* and callers do, an entry goes through its statuses in order, and a pipeline
\* is launched only when it is absent or crashed and nothing of it runs.
ImplementsProcessTable == Table!TableSpec

RegisteredInfos == {processes[p] : p \in Pipelines} \ {NoInfo}
PortSet(pair) == {pair[1], pair[2]} \ {NoPort}

(***************************************************************************)
(* The inductive invariant behind the safety properties: the map is        *)
(* consistent, only a waiting caller holds processes outside it, and a     *)
(* restart is pending exactly for the entries that crashed.                *)
(***************************************************************************)
MapConsistent ==
    \A p \in Pipelines : processes[p] # NoInfo =>
        /\ info[processes[p]].pipeline = p
        /\ info[processes[p]].ports \in Ports \X Ports

CallerConsistent ==
    /\ main = Idle => stopping = {}
    /\ main.op = "ShutdownAll" => \A p \in Pipelines : processes[p] = NoInfo
    /\ main.op \in {"Stop", "Restart", "RestartInPlace"} =>
        /\ processes[main.pipeline] = NoInfo
        /\ \A i \in stopping : info[i].pipeline = main.pipeline
    /\ \A i, j \in stopping : info[i].pipeline = info[j].pipeline => i = j

\* At most one Vector process of a pipeline runs at any time, whatever the
\* order in which crashes, restart goroutines and callers take the lock: two
\* processes with one config would read the same input and write twice.
OneProcessPerPipeline ==
    \A i, j \in Infos :
        Alive(i) /\ Alive(j) /\ info[i].pipeline = info[j].pipeline => i = j

\* Every running process can still be stopped: it is in the process map, or
\* some stopProcess call is waiting for it.
NoOrphanProcess ==
    \A i \in Infos : Alive(i) => Registered(i) \/ i \in stopping

\* At most one restart goroutine waits for an entry of the map, and none for
\* an entry whose process runs, has stopped cleanly, or was given up.
RetryOnlyAfterCrash ==
    \A i \in RegisteredInfos :
        PendingRetry(i) =>
            /\ info[i].status = "CRASHED"
            /\ os[i] = "failed"
            /\ monitor[i] = "none"

\* A crashed pipeline is never forgotten: an entry is left CRASHED only while
\* a goroutine that will restart it exists.
CrashedHasRetry ==
    \A i \in RegisteredInfos : info[i].status = "CRASHED" => PendingRetry(i)

\* A restart is pending for exactly the entries that crashed, one for each: no
\* crash is forgotten and no process is started beside one that runs.
RestartsFollowCrashes == RetryOnlyAfterCrash /\ CrashedHasRetry

\* The circuit breaker: no restart is pending once a pipeline has failed more
\* than MaxRestarts times in a row.
BreakerHolds ==
    \A i \in RegisteredInfos :
        PendingRetry(i) => restartCounts[info[i].pipeline] <= MaxRestarts

\* No port is lost: each port that was ever handed out is free again, belongs
\* to an entry of the map, or is held by a pending restart.
NoPortLeak ==
    \A port \in 1..(pool.next - 1) :
        \/ \E k \in DOMAIN pool.free : pool.free[k] = port
        \/ \E i \in RegisteredInfos : port \in PortSet(info[i].ports)
        \/ \E i \in Infos : port \in PortSet(retry[i])

\* Two running pipelines never have a port in common.
NoSharedPorts ==
    \A p, q \in Pipelines :
        p # q /\ {processes[p], processes[q]} \subseteq Infos =>
            ~ /\ Alive(processes[p]) /\ Alive(processes[q])
              /\ PortSet(info[processes[p]].ports)
                    \cap PortSet(info[processes[q]].ports) # {}

\* When Stop, Restart and ShutdownAll are done waiting, nothing they were
\* asked to stop runs any more: not the process they saw, and no process that
\* a restart goroutine started in the meantime.
StopIsComplete ==
    [][ main # Idle /\ main' = Idle =>
            \A i \in Infos :
                Alive(i) => main.op # "ShutdownAll"
                            /\ info[i].pipeline # main.pipeline ]_vars

\* The sidecar file of a pipeline is removed only while none of its processes
\* runs: stopProcess removes it without holding the lock.
SidecarOutlivesProcess ==
    [][ \A i \in Infos :
            Alive(i) /\ info[i].pipeline \in sidecar =>
                info[i].pipeline \in sidecar' ]_vars

\* Every call of Stop, Restart, RestartInPlace and ShutdownAll returns.
CallsReturn == main # Idle ~> main = Idle

\* A crash is always dealt with: the entry is restarted, given up, or removed
\* by the caller.
CrashIsResolved ==
    \A i \in Infos :
        os[i] = "failed" /\ Registered(i) ~>
            ~Registered(i) \/ info[i].status = "CRASH_LOOP"
=============================================================================
