-------------------------- MODULE SupervisorProofs --------------------------
(***************************************************************************)
(* Proofs about Supervisor.  The inductive invariant TypeOK /\ Control      *)
(* says what the process map, the waiting caller and the restart           *)
(* goroutines know of each other; the properties of the runs follow.       *)
(***************************************************************************)
EXTENDS Supervisor, FiniteSetTheorems, SequenceTheorems, TLAPS


-----------------------------------------------------------------------------
(***************************************************************************)
(* The port allocator.                                                     *)
(***************************************************************************)

\* nextPort hands out a port of the managed range and leaves a pool.
LEMMA TakeType ==
    ASSUME NEW q \in Pools, HasPort(q)
    PROVE  PortTaken(q) \in Ports /\ AfterTake(q) \in Pools
<1>1. CASE q.free # <<>>
  <2>1. q.free \in Seq(Ports) /\ Len(q.free) \in Nat \ {0}
    BY <1>1, EmptySeq, SMT DEF Pools
  <2>2. q.free[Len(q.free)] \in Ports
    BY <2>1
  <2>3. SubSeq(q.free, 1, Len(q.free) - 1) \in Seq(Ports)
    BY <2>1
  <2> QED BY <1>1, <2>2, <2>3 DEF PortTaken, AfterTake, Pools
<1>2. CASE q.free = <<>>
  BY <1>2, MaxPortAssumption DEF HasPort, PortTaken, AfterTake, Pools, Ports
<1> QED BY <1>1, <1>2

\* releasePort keeps the pool well formed, whatever port it is given.
LEMMA ReleaseType ==
    ASSUME NEW q \in Pools, NEW port
    PROVE  Release(q, port) \in Pools
BY DEF Release, Pools

\* releasePorts does, too.
LEMMA ReleasePairType ==
    ASSUME NEW q \in Pools, NEW pair
    PROVE  ReleasePair(q, pair) \in Pools
BY ReleaseType DEF ReleasePair

\* allocatePortPair hands out two ports of the managed range.
LEMMA PairType ==
    ASSUME NEW q \in Pools, HasPair(q)
    PROVE  PairTaken(q) \in Ports \X Ports
BY TakeType DEF HasPair, PairTaken

\* allocatePortPair leaves a pool, whether it succeeds or not.
LEMMA AllocateType ==
    ASSUME NEW q \in Pools
    PROVE  AfterAllocate(q) \in Pools
BY TakeType, ReleaseType DEF AfterAllocate, HasPair

\* After two managed ports have been returned two can be taken: the branch of
\* reconcileFailedRestart for an exhausted pool is never reached.
THEOREM ReconcileNeverExhausted ==
    ASSUME NEW q \in Pools, NEW pair \in Ports \X Ports
    PROVE  HasPair(ReleasePair(q, pair))
<1> DEFINE r == ReleasePair(q, pair)
<1>1. r.free = Append(Append(q.free, pair[1]), pair[2]) /\ q.free \in Seq(Ports)
  BY DEF ReleasePair, Release, Pools
<1>2. Len(r.free) = Len(q.free) + 2 /\ Len(q.free) \in Nat
  BY <1>1
<1>3. r.free # <<>>
  BY <1>2
<1>4. AfterTake(r).free = SubSeq(r.free, 1, Len(r.free) - 1)
  <2>1. r \in Pools
    BY ReleasePairType
  <2> QED BY <1>3, <2>1 DEF AfterTake, Pools
<1>5. Len(AfterTake(r).free) = Len(q.free) + 1
  BY <1>1, <1>2, <1>4
<1>6. AfterTake(r).free # <<>>
  BY <1>2, <1>5
<1> QED BY <1>3, <1>6 DEF HasPair, HasPort

-----------------------------------------------------------------------------
(***************************************************************************)
(* Type correctness.                                                       *)
(***************************************************************************)

\* startProcess keeps every variable well typed.
LEMMA SpawnType ==
    ASSUME TypeOK, NEW p \in Pipelines, NEW pair \in Ports \X Ports,
           Spawn(p, pair)
    PROVE  /\ processes' \in [Pipelines -> Infos \cup {NoInfo}]
           /\ info' \in [Infos -> InfoRecords]
           /\ os' \in [Infos -> {"none", "alive", "clean", "failed"}]
           /\ monitor' \in [Infos -> {"none", "startup", "waiting", "exited"}]
           /\ sidecar' \in SUBSET Pipelines
<1> DEFINE rec == [pipeline |-> p, status |-> "STARTING", ports |-> pair]
<1>1. rec \in InfoRecords
  BY DEF InfoRecords, Statuses, PortPairs
<1> QED BY <1>1 DEF TypeOK, Spawn, WriteSidecar

\* So do Start and the second halves of Restart and RestartInPlace.
LEMMA AllocateAndStartType ==
    ASSUME TypeOK, NEW p \in Pipelines, AllocateAndStart(p)
    PROVE  /\ processes' \in [Pipelines -> Infos \cup {NoInfo}]
           /\ pool' \in Pools
           /\ info' \in [Infos -> InfoRecords]
           /\ os' \in [Infos -> {"none", "alive", "clean", "failed"}]
           /\ monitor' \in [Infos -> {"none", "startup", "waiting", "exited"}]
           /\ sidecar' \in SUBSET Pipelines
<1> DEFINE pair  == PairTaken(pool)
           taken == AfterAllocate(pool)
<1>1. pool \in Pools /\ taken \in Pools /\ ReleasePair(taken, pair) \in Pools
  BY AllocateType, ReleasePairType DEF TypeOK
<1>2. CASE HasPair(pool) /\ Spawn(p, pair) /\ pool' = taken
  BY <1>1, <1>2, PairType, SpawnType
<1>3. CASE /\ HasPair(pool) /\ pool' = ReleasePair(taken, pair)
           /\ WriteSidecar(p) /\ UNCHANGED <<processes, info, os, monitor>>
  BY <1>1, <1>3 DEF TypeOK, WriteSidecar
<1>4. CASE /\ ~HasPair(pool) /\ pool' = taken
           /\ UNCHANGED <<processes, info, os, monitor, sidecar>>
  BY <1>1, <1>4 DEF TypeOK
<1> QED BY <1>2, <1>3, <1>4 DEF AllocateAndStart

\* The ports ShutdownAll returns are pairs of registered entries.
LEMMA ShutdownAllType ==
    ASSUME TypeOK, MapConsistent, ShutdownAll
    PROVE  pool' \in Pools /\ stopping' \in SUBSET Infos
<1> DEFINE running == {processes[p] : p \in Pipelines} \ {NoInfo}
           n == Cardinality(running)
<1>1. running \subseteq Infos
  BY DEF TypeOK
<1>2. n \in Nat
  <2>1. IsFiniteSet({processes[p] : p \in Pipelines})
    <3>1. processes \in Surjection(Pipelines, {processes[p] : p \in Pipelines})
      BY DEF Surjection, TypeOK
    <3> QED BY <3>1, FS_Surjection, SupervisorAssumption
  <2> QED BY <2>1, FS_Subset, FS_CardinalityType
<1>3. PICK order \in Bijection(1..n, running) :
          pool' = [pool EXCEPT !.free = @ \o PortsInOrder(order, n)]
  BY DEF ShutdownAll
<1>4. order \in [1..n -> running]
  BY DEF Bijection, Injection
<1>5. ASSUME NEW k \in 1..(2 * n)
      PROVE  PortsInOrder(order, n)[k] \in Ports
  <2>1. (k + 1) \div 2 \in 1..n
    BY <1>2
  <2>2. PICK p \in Pipelines : order[(k + 1) \div 2] = processes[p] /\ processes[p] # NoInfo
    BY <1>4, <2>1
  <2>3. info[processes[p]].ports \in Ports \X Ports
    BY <2>2 DEF MapConsistent
  <2> QED BY <2>2, <2>3 DEF PortsInOrder
<1>6. PortsInOrder(order, n) \in Seq(Ports)
  <2>1. PortsInOrder(order, n) \in [1..(2 * n) -> Ports]
    BY <1>5 DEF PortsInOrder
  <2>2. 2 * n \in Nat
    BY <1>2
  <2> QED BY <2>1, <2>2, SeqDef
<1>7. pool' \in Pools
  <2>1. pool.free \o PortsInOrder(order, n) \in Seq(Ports)
    BY <1>6, ConcatProperties DEF TypeOK, Pools
  <2> QED BY <1>3, <2>1 DEF TypeOK, Pools
<1> QED BY <1>1, <1>7 DEF ShutdownAll

\* Every step keeps every variable in its type; MapConsistent gives the ports
\* that ShutdownAll and MonitorCrash read off a registered entry.
LEMMA TypeStep ==
    ASSUME TypeOK, MapConsistent, CallerConsistent, [Next]_vars
    PROVE  TypeOK'
<1> USE DEF supervisorVars, objectVars, callerVars, Idle
<1>1. ASSUME NEW p \in Pipelines, Start(p) PROVE TypeOK'
  BY <1>1, AllocateAndStartType DEF Start, TypeOK
<1>2. ASSUME NEW p \in Pipelines, NEW op \in {"Stop", "Restart", "RestartInPlace"},
             Detach(op, p)
      PROVE  TypeOK'
  <2>1. processes[p] \in Infos
    BY <1>2 DEF Detach, TypeOK
  <2>2. pool' \in Pools
    BY <1>2, ReleasePairType DEF Detach, TypeOK
  <2>3. main' \in Operations
    BY <1>2 DEF Detach, Operations
  <2> QED BY <1>2, <2>1, <2>2, <2>3 DEF Detach, TypeOK
<1>3. ASSUME NEW p \in Pipelines, Restart(p) PROVE TypeOK'
  BY <1>2, <1>3, AllocateAndStartType DEF Restart, TypeOK
<1>4. CASE ShutdownAll
  <2>1. main' \in Operations
    BY <1>4 DEF ShutdownAll, Operations
  <2> QED BY <1>4, <2>1, ShutdownAllType DEF ShutdownAll, TypeOK
<1>5. CASE OperationReturns
  BY <1>5 DEF OperationReturns, TypeOK, Operations
<1>6. CASE RestartFinishes
  <2>1. main.pipeline \in Pipelines
    BY <1>6 DEF RestartFinishes, TypeOK, Operations
  <2>2. main' \in Operations
    BY <1>6 DEF RestartFinishes, Operations
  <2> QED BY <1>6, <2>1, <2>2, AllocateAndStartType DEF RestartFinishes, TypeOK
<1>7. ASSUME NEW i \in Infos,
             ProcessExits(i) \/ StopProcess(i) \/ Monitor(i) \/ RestartGoroutine(i)
      PROVE  TypeOK'
  <2>0. /\ info[i].pipeline \in Pipelines
        /\ info[i].ports \in PortPairs
        /\ restartCounts[info[i].pipeline] \in Nat
    BY DEF TypeOK, InfoRecords
  <2>s. ASSUME NEW st \in Statuses
        PROVE  [info EXCEPT ![i].status = st] \in [Infos -> InfoRecords]
    BY DEF TypeOK, InfoRecords
  <2>1. CASE ProcessExits(i)
    BY <2>1 DEF ProcessExits, TypeOK
  <2>2. CASE StopProcess(i)
    BY <2>2 DEF StopProcess, KillAfterTimeout, StopProcessReturns, TypeOK
  <2>3. CASE MonitorStartupDelay(i)
    BY <2>3, <2>s DEF MonitorStartupDelay, TypeOK, Statuses
  <2>4. CASE MonitorWaitReturns(i) \/ MonitorReplaced(i)
    BY <2>4 DEF MonitorWaitReturns, MonitorReplaced, TypeOK
  <2>5. CASE MonitorCleanExit(i)
    BY <2>0, <2>5, <2>s DEF MonitorCleanExit, TypeOK, Statuses
  <2>6. CASE MonitorCrash(i)
    <3>1. info[i].ports \in Ports \X Ports
      BY <2>0, <2>6, SupervisorAssumption DEF MonitorCrash, Registered, MapConsistent, TypeOK
    <3> QED BY <2>0, <2>6, <2>s, <3>1 DEF MonitorCrash, TypeOK, Statuses
  <2>7. CASE RestartAfterBailsOut(i)
    <3>1. pool' \in Pools
      BY <2>7, ReleasePairType DEF RestartAfterBailsOut, TypeOK
    <3> QED BY <2>7, <3>1 DEF RestartAfterBailsOut, TypeOK
  <2>8. CASE RestartAfterStarts(i)
    <3>1. retry[i] \in Ports \X Ports
      BY <2>8 DEF RestartAfterStarts, PendingRetry, TypeOK
    <3> QED BY <2>0, <2>8, <3>1, SpawnType DEF RestartAfterStarts, TypeOK
  <2>9. CASE RestartAfterFails(i)
    <3> DEFINE q == ReleasePair(pool, retry[i])
    <3>1. retry[i] \in Ports \X Ports
      BY <2>9 DEF RestartAfterFails, PendingRetry, TypeOK
    <3>2. q \in Pools /\ AfterAllocate(q) \in Pools /\ PairTaken(q) \in Ports \X Ports
      BY <3>1, ReleasePairType, AllocateType, ReconcileNeverExhausted, PairType DEF TypeOK
    <3>3. ReconcileFailedRestart(i, q)
      BY <2>9 DEF RestartAfterFails
    <3>4. /\ pool' \in Pools
          /\ info' \in [Infos -> InfoRecords]
          /\ restartCounts' \in [Pipelines -> Nat]
          /\ retry' \in [Infos -> (Ports \X Ports) \cup {NoRetry}]
      BY <2>0, <2>s, <3>2, <3>3 DEF ReconcileFailedRestart, TypeOK, Statuses
    <3> QED BY <2>0, <2>9, <3>4 DEF RestartAfterFails, WriteSidecar, TypeOK
  <2> QED BY <1>7, <2>1, <2>2, <2>3, <2>4, <2>5, <2>6, <2>7, <2>8, <2>9
          DEF Monitor, RestartGoroutine
<1>8. CASE UNCHANGED vars
  BY <1>8 DEF vars, TypeOK
<1> QED BY <1>1, <1>2, <1>3, <1>4, <1>5, <1>6, <1>7, <1>8
        DEF Next, Caller, Stop, RestartInPlace

-----------------------------------------------------------------------------
(***************************************************************************)
(* The inductive invariant.  Control is what it says beside TypeOK.        *)
(***************************************************************************)
Control ==
    /\ MapConsistent
    /\ CallerConsistent
    /\ NoOrphanProcess
    /\ RetryOnlyAfterCrash
    /\ CrashedHasRetry

LEMMA InitControl == Init => TypeOK /\ Control
<1> SUFFICES ASSUME Init PROVE TypeOK /\ Control
  OBVIOUS
<1>1. TypeOK
  <2>1. EmptyPool \in Pools
    BY MaxPortAssumption, EmptySeq DEF EmptyPool, Pools
  <2>2. info \in [Infos -> InfoRecords]
    BY DEF Init, InfoRecords, Statuses, PortPairs, NoPorts
  <2> QED BY <2>1, <2>2 DEF Init, TypeOK, Operations, Idle
<1>2. \A i \in Infos : ~Registered(i) /\ ~Alive(i)
  BY <1>1, SupervisorAssumption DEF Init, Registered, Alive, TypeOK, InfoRecords
<1>3. RegisteredInfos = {}
  BY DEF Init, RegisteredInfos
<1> QED BY <1>1, <1>2, <1>3
    DEF Init, Control, MapConsistent, CallerConsistent, NoOrphanProcess,
        RetryOnlyAfterCrash, CrashedHasRetry, Idle

(***************************************************************************)
(* startProcess under a lock.  The process it starts takes the place of an *)
(* entry that is absent or dead, nobody is stopping a process of that      *)
(* pipeline, and of the pending restarts only that of the replaced entry   *)
(* may have ended.                                                         *)
(***************************************************************************)
LEMMA SpawnControl ==
    ASSUME TypeOK, Control, NEW p \in Pipelines, NEW pair \in Ports \X Ports,
           Spawn(p, pair),
           processes[p] # NoInfo => ~Alive(processes[p]),
           \A i \in stopping : info[i].pipeline # p,
           stopping' = stopping,
           main.op # "ShutdownAll",
           main' = main \/ (main' = Idle /\ stopping = {}),
           main.op \in {"Stop", "Restart", "RestartInPlace"} /\ main' = main =>
                p # main.pipeline,
           \A i \in Infos : retry'[i] = retry[i] \/ (i = processes[p] /\ retry'[i] = NoRetry)
    PROVE  Control'
<1> PICK j \in Infos :
        /\ Unused(j)
        /\ info' = [info EXCEPT ![j] =
              [pipeline |-> p, status |-> "STARTING", ports |-> pair]]
        /\ processes' = [processes EXCEPT ![p] = j]
        /\ os' = [os EXCEPT ![j] = "alive"]
        /\ monitor' = [monitor EXCEPT ![j] = "startup"]
  BY DEF Spawn
<1>1. MapConsistent'
  BY DEF Control, MapConsistent, TypeOK, Unused, Registered
<1>2. CallerConsistent'
  BY DEF Control, CallerConsistent, TypeOK, Unused, Idle, Operations
<1>3. NoOrphanProcess'
  <2> SUFFICES ASSUME NEW i \in Infos, Alive(i)', i # j
               PROVE  Registered(i)' \/ i \in stopping'
    BY DEF NoOrphanProcess, Registered, TypeOK
  <2>1. Alive(i) /\ info'[i] = info[i]
    BY DEF Alive, TypeOK
  <2>2. CASE i \in stopping
    BY <2>2
  <2>3. CASE Registered(i)
    <3>1. info[i].pipeline # p
      BY <2>1, <2>3, SupervisorAssumption DEF Registered
    <3> QED BY <2>1, <2>3, <3>1 DEF Registered, TypeOK
  <2> QED BY <2>1, <2>2, <2>3 DEF Control, NoOrphanProcess
<1>4. RetryOnlyAfterCrash'
  BY DEF Control, RetryOnlyAfterCrash, TypeOK, Unused, Registered, RegisteredInfos, PendingRetry
<1>5. CrashedHasRetry'
  <2> SUFFICES ASSUME NEW i \in Infos, i # j, NEW q \in Pipelines, processes'[q] = i,
                      info[i].status = "CRASHED"
               PROVE  retry'[i] # NoRetry
    BY SupervisorAssumption DEF CrashedHasRetry, RegisteredInfos, PendingRetry, TypeOK
  <2>1. q # p /\ processes[q] = i /\ info[i].pipeline = q
    BY SupervisorAssumption DEF TypeOK, Control, MapConsistent
  <2>2. processes[p] # i
    BY <2>1, SupervisorAssumption DEF Control, MapConsistent
  <2>3. retry[i] # NoRetry
    BY <2>1, SupervisorAssumption DEF Control, CrashedHasRetry, RegisteredInfos, PendingRetry, TypeOK
  <2> QED BY <2>2, <2>3
<1> QED BY <1>1, <1>2, <1>3, <1>4, <1>5 DEF Control

\* Start, and the second halves of Restart and RestartInPlace.
LEMMA AllocateAndStartControl ==
    ASSUME TypeOK, Control, NEW p \in Pipelines, AllocateAndStart(p),
           processes[p] = NoInfo,
           stopping = {}, stopping' = stopping,
           main.op # "ShutdownAll",
           main' = Idle,
           retry' = retry
    PROVE  Control'
<1>1. CASE HasPair(pool) /\ Spawn(p, PairTaken(pool))
  <2>1. PairTaken(pool) \in Ports \X Ports
    BY <1>1, PairType DEF TypeOK
  <2>2. main' = main => main.op = "idle"
    BY DEF Idle
  <2>3. processes[p] # NoInfo => ~Alive(processes[p])
    OBVIOUS
  <2>4. \A i \in stopping : info[i].pipeline # p
    OBVIOUS
  <2>5. main.op \in {"Stop", "Restart", "RestartInPlace"} /\ main' = main =>
            p # main.pipeline
    BY <2>2
  <2>6. \A i \in Infos :
            retry'[i] = retry[i] \/ (i = processes[p] /\ retry'[i] = NoRetry)
    OBVIOUS
  <2>7. main' = main \/ (main' = Idle /\ stopping = {})
    OBVIOUS
  <2> QED BY <1>1, <2>1, <2>3, <2>4, <2>5, <2>6, <2>7, SpawnControl
<1>2. CASE UNCHANGED <<processes, info, os, monitor>>
  <2>1. MapConsistent' /\ NoOrphanProcess' /\ RetryOnlyAfterCrash' /\ CrashedHasRetry'
    BY <1>2 DEF Control, MapConsistent, NoOrphanProcess, RetryOnlyAfterCrash,
                CrashedHasRetry, RegisteredInfos, Registered, Alive, PendingRetry
  <2>2. CallerConsistent'
    BY <1>2 DEF Idle, CallerConsistent
  <2> QED BY <2>1, <2>2 DEF Control
<1> QED BY <1>1, <1>2 DEF AllocateAndStart

\* Stop, Restart and RestartInPlace take an entry out of the map.
LEMMA DetachControl ==
    ASSUME TypeOK, Control, NEW p \in Pipelines,
           NEW op \in {"Stop", "Restart", "RestartInPlace"}, Detach(op, p)
    PROVE  Control'
<1>1. /\ processes[p] \in Infos
      /\ processes' = [processes EXCEPT ![p] = NoInfo]
      /\ stopping' = {processes[p]} /\ stopping = {}
      /\ main' = [op |-> op, pipeline |-> p]
      /\ UNCHANGED <<info, os, monitor, retry>>
  BY DEF Detach, TypeOK, Control, CallerConsistent
<1>2. info[processes[p]].pipeline = p
  BY <1>1, SupervisorAssumption DEF Control, MapConsistent
<1>3. MapConsistent'
  BY <1>1 DEF Control, MapConsistent, TypeOK
<1>4. CallerConsistent'
  BY <1>1, <1>2 DEF CallerConsistent, TypeOK, Idle
<1>5. NoOrphanProcess'
  BY <1>1, <1>2 DEF Control, NoOrphanProcess, Registered, Alive, TypeOK, InfoRecords
<1>6. RegisteredInfos' \subseteq RegisteredInfos
  BY <1>1 DEF RegisteredInfos, TypeOK
<1>7. RetryOnlyAfterCrash' /\ CrashedHasRetry'
  BY <1>1, <1>6 DEF Control, RetryOnlyAfterCrash, CrashedHasRetry, PendingRetry
<1> QED BY <1>3, <1>4, <1>5, <1>7 DEF Control

\* ShutdownAll takes all of them out.
LEMMA ShutdownAllControl ==
    ASSUME TypeOK, Control, ShutdownAll
    PROVE  Control'
<1>1. /\ processes' = [p \in Pipelines |-> NoInfo]
      /\ stopping' = RegisteredInfos
      /\ main' = [op |-> "ShutdownAll"]
      /\ stopping = {}
      /\ UNCHANGED <<info, os, monitor, retry>>
  BY DEF ShutdownAll, RegisteredInfos, Control, CallerConsistent
<1>2. MapConsistent'
  BY <1>1 DEF MapConsistent
<1>3. CallerConsistent'
  BY <1>1 DEF Control, CallerConsistent, MapConsistent, RegisteredInfos, Idle
<1>4. NoOrphanProcess'
  BY <1>1, SupervisorAssumption
     DEF Control, NoOrphanProcess, Registered, RegisteredInfos, Alive, TypeOK, InfoRecords
<1>5. RegisteredInfos' = {}
  BY <1>1 DEF RegisteredInfos
<1>6. RetryOnlyAfterCrash' /\ CrashedHasRetry'
  BY <1>5 DEF RetryOnlyAfterCrash, CrashedHasRetry
<1> QED BY <1>2, <1>3, <1>4, <1>6 DEF Control

\* The goroutines of one object: its process exits or is killed, it is
\* waited for, monitored, or restarted after its backoff.
LEMMA ObjectControl ==
    ASSUME TypeOK, Control, NEW i \in Infos,
           ProcessExits(i) \/ StopProcess(i) \/ Monitor(i) \/ RestartGoroutine(i)
    PROVE  Control'
<1> USE DEF supervisorVars, objectVars, callerVars
<1>0. info[i].pipeline \in Pipelines
  BY DEF TypeOK, InfoRecords
<1>1. CASE ProcessExits(i) \/ KillAfterTimeout(i)
  <2>1. /\ os[i] = "alive"
        /\ \A j \in Infos : j # i => os'[j] = os[j]
        /\ UNCHANGED <<processes, info, monitor, retry, main, stopping>>
    BY <1>1 DEF ProcessExits, KillAfterTimeout, TypeOK
  <2>2. MapConsistent' /\ CallerConsistent' /\ CrashedHasRetry'
    BY <2>1 DEF Control, MapConsistent, CallerConsistent, CrashedHasRetry,
                RegisteredInfos, PendingRetry
  <2>3. NoOrphanProcess'
    BY <2>1 DEF Control, NoOrphanProcess, Alive, Registered
  <2>4. RetryOnlyAfterCrash'
    BY <2>1, SupervisorAssumption
       DEF Control, RetryOnlyAfterCrash, RegisteredInfos, PendingRetry, TypeOK
  <2> QED BY <2>2, <2>3, <2>4 DEF Control
<1>2. CASE StopProcessReturns(i)
  <2>1. stopping' = stopping \ {i} /\ os[i] # "alive"
        /\ UNCHANGED <<processes, info, os, monitor, retry, main>>
    BY <1>2 DEF StopProcessReturns, Done, Exited
  <2>2. MapConsistent' /\ RetryOnlyAfterCrash' /\ CrashedHasRetry'
    BY <2>1 DEF Control, MapConsistent, RetryOnlyAfterCrash, CrashedHasRetry,
                RegisteredInfos, PendingRetry
  <2>3. CallerConsistent'
    BY <2>1 DEF Control, CallerConsistent, Idle
  <2>4. NoOrphanProcess'
    BY <2>1 DEF Control, NoOrphanProcess, Alive, Registered
  <2> QED BY <2>2, <2>3, <2>4 DEF Control
<1>3. CASE Monitor(i)
  <2>1. /\ monitor[i] # "none"
        /\ UNCHANGED <<processes, os, main, stopping>>
        /\ \A j \in Infos : j # i => /\ info'[j] = info[j]
                                     /\ monitor'[j] = monitor[j]
                                     /\ retry'[j] = retry[j]
        /\ info'[i].pipeline = info[i].pipeline
        /\ info'[i].ports = info[i].ports
    <3>1. CASE MonitorStartupDelay(i)
      BY <3>1 DEF MonitorStartupDelay, TypeOK, InfoRecords
    <3>2. CASE MonitorWaitReturns(i) \/ MonitorReplaced(i)
      BY <3>2 DEF MonitorWaitReturns, MonitorReplaced, TypeOK
    <3>3. CASE MonitorCleanExit(i)
      BY <3>3 DEF MonitorCleanExit, TypeOK, InfoRecords
    <3>4. CASE MonitorCrash(i)
      BY <3>4 DEF MonitorCrash, TypeOK, InfoRecords
    <3> QED BY <1>3, <3>1, <3>2, <3>3, <3>4 DEF Monitor
  <2>2. MapConsistent'
    BY <2>1 DEF Control, MapConsistent, TypeOK
  <2>3. CallerConsistent'
    BY <2>1 DEF Control, CallerConsistent, TypeOK
  <2>4. NoOrphanProcess'
    BY <2>1 DEF Control, NoOrphanProcess, Alive, Registered
  <2>5. RegisteredInfos' = RegisteredInfos
    BY <2>1 DEF RegisteredInfos
  <2>6. i \in RegisteredInfos => Registered(i) /\ info[i].ports \in Ports \X Ports
    BY SupervisorAssumption DEF Control, MapConsistent, RegisteredInfos, Registered
  <2>7. i \in RegisteredInfos => retry[i] = NoRetry /\ info[i].status # "CRASHED"
    BY <2>1 DEF Control, RetryOnlyAfterCrash, CrashedHasRetry, PendingRetry
  <2>8. i \in RegisteredInfos =>
            \/ retry'[i] = NoRetry /\ info'[i].status # "CRASHED"
            \/ /\ retry'[i] # NoRetry /\ info'[i].status = "CRASHED"
               /\ os[i] = "failed" /\ monitor'[i] = "none"
    <3>1. CASE MonitorStartupDelay(i) \/ MonitorCleanExit(i)
      BY <2>7, <3>1 DEF MonitorStartupDelay, MonitorCleanExit, TypeOK, InfoRecords
    <3>2. CASE MonitorWaitReturns(i) \/ MonitorReplaced(i)
      BY <2>7, <3>2 DEF MonitorWaitReturns, MonitorReplaced, TypeOK
    <3>3. CASE MonitorCrash(i)
      BY <2>6, <2>7, <3>3
         DEF MonitorCrash, TypeOK, InfoRecords, NoRetry, NoPorts, NoPort, Ports
    <3> QED BY <1>3, <3>1, <3>2, <3>3 DEF Monitor
  <2>9. RetryOnlyAfterCrash' /\ CrashedHasRetry'
    <3> SUFFICES ASSUME NEW j \in RegisteredInfos'
                 PROVE  /\ PendingRetry(j)' => /\ info'[j].status = "CRASHED"
                                               /\ os'[j] = "failed"
                                               /\ monitor'[j] = "none"
                        /\ info'[j].status = "CRASHED" => PendingRetry(j)'
      BY DEF RetryOnlyAfterCrash, CrashedHasRetry
    <3>1. j \in Infos /\ j \in RegisteredInfos
      BY <2>1, <2>5 DEF RegisteredInfos, TypeOK
    <3>2. CASE j = i
      BY <2>1, <2>8, <3>1, <3>2 DEF PendingRetry
    <3>3. CASE j # i
      BY <2>1, <3>1, <3>3 DEF Control, RetryOnlyAfterCrash, CrashedHasRetry, PendingRetry
    <3> QED BY <3>2, <3>3
  <2> QED BY <2>2, <2>3, <2>4, <2>9 DEF Control
<1>4. CASE RestartAfterBailsOut(i)
  <2>1. /\ UNCHANGED <<processes, info, os, monitor, main, stopping>>
        /\ \A j \in Infos : j # i => retry'[j] = retry[j]
        /\ ~Registered(i) /\ retry'[i] = NoRetry
    BY <1>4 DEF RestartAfterBailsOut, TypeOK
  <2>2. MapConsistent' /\ CallerConsistent' /\ NoOrphanProcess'
    BY <2>1 DEF Control, MapConsistent, CallerConsistent, NoOrphanProcess, Alive, Registered
  <2>3. i \notin RegisteredInfos
    BY <2>1, SupervisorAssumption DEF Control, MapConsistent, RegisteredInfos, Registered
  <2>4. RetryOnlyAfterCrash' /\ CrashedHasRetry'
    BY <2>1, <2>3, SupervisorAssumption
       DEF Control, RetryOnlyAfterCrash, CrashedHasRetry, RegisteredInfos, PendingRetry, TypeOK
  <2> QED BY <2>2, <2>4 DEF Control
<1>5. CASE RestartAfterStarts(i)
  <2>1. /\ Registered(i) /\ PendingRetry(i)
        /\ Spawn(info[i].pipeline, retry[i])
        /\ UNCHANGED <<main, stopping>>
        /\ retry' = [retry EXCEPT ![i] = NoRetry]
    BY <1>5 DEF RestartAfterStarts
  <2>2. retry[i] \in Ports \X Ports
    BY <2>1 DEF PendingRetry, TypeOK
  <2>3. i = processes[info[i].pipeline] /\ i # NoInfo /\ i \in RegisteredInfos
    BY <1>0, <2>1, SupervisorAssumption DEF Registered, RegisteredInfos
  <2>4. ~Alive(i)
    BY <2>1, <2>3 DEF Control, RetryOnlyAfterCrash, Alive
  <2>5. /\ main.op # "ShutdownAll"
        /\ main.op \in {"Stop", "Restart", "RestartInPlace"} =>
              info[i].pipeline # main.pipeline
        /\ \A j \in stopping : info[j].pipeline # info[i].pipeline
    BY <1>0, <2>3 DEF Control, CallerConsistent, TypeOK, Operations, Idle
  <2>6. \A j \in Infos : \/ retry'[j] = retry[j]
                         \/ j = processes[info[i].pipeline] /\ retry'[j] = NoRetry
    BY <2>1, <2>3 DEF TypeOK
  <2> HIDE DEF TypeOK
  <2> QED BY <1>0, <2>1, <2>2, <2>3, <2>4, <2>5, <2>6, SpawnControl
<1>6. CASE RestartAfterFails(i)
  <2> DEFINE q == ReleasePair(pool, retry[i])
             count == restartCounts[info[i].pipeline] + 1
  <2>1. /\ Registered(i) /\ PendingRetry(i)
        /\ info' = [info EXCEPT ![i].status =
                      IF GiveUp(count) THEN "CRASH_LOOP" ELSE "CRASHED"]
        /\ retry' = [retry EXCEPT ![i] =
                      IF GiveUp(count) THEN NoRetry ELSE PairTaken(q)]
        /\ UNCHANGED <<processes, os, monitor, main, stopping>>
    BY <1>6 DEF RestartAfterFails, ReconcileFailedRestart
  <2>2. PairTaken(q) \in Ports \X Ports /\ PairTaken(q) # NoRetry
    <3>1. retry[i] \in Ports \X Ports
      BY <2>1 DEF PendingRetry, TypeOK
    <3>2. PairTaken(q) \in Ports \X Ports
      BY <3>1, ReleasePairType, ReconcileNeverExhausted, PairType DEF TypeOK
    <3> QED BY <3>2 DEF NoRetry, NoPorts, NoPort, Ports
  <2>3. i \in RegisteredInfos /\ os[i] = "failed" /\ monitor[i] = "none"
    BY <1>0, <2>1, SupervisorAssumption
       DEF Control, RetryOnlyAfterCrash, Registered, RegisteredInfos
  <2>4. /\ \A j \in Infos : j # i => info'[j] = info[j] /\ retry'[j] = retry[j]
        /\ info'[i].pipeline = info[i].pipeline
        /\ info'[i].ports = info[i].ports
        /\ retry'[i] = (IF GiveUp(count) THEN NoRetry ELSE PairTaken(q))
        /\ info'[i].status = (IF GiveUp(count) THEN "CRASH_LOOP" ELSE "CRASHED")
    BY <2>1 DEF TypeOK, InfoRecords
  <2>5. MapConsistent' /\ CallerConsistent' /\ NoOrphanProcess'
    BY <2>1, <2>4 DEF Control, MapConsistent, CallerConsistent, NoOrphanProcess,
                      Alive, Registered, TypeOK
  <2>6. RegisteredInfos' = RegisteredInfos /\ RegisteredInfos \subseteq Infos
    BY <2>1 DEF RegisteredInfos, TypeOK
  <2>7. RetryOnlyAfterCrash' /\ CrashedHasRetry'
    BY <2>1, <2>2, <2>3, <2>4, <2>6
       DEF Control, RetryOnlyAfterCrash, CrashedHasRetry, PendingRetry
  <2> QED BY <2>5, <2>7 DEF Control
<1> QED BY <1>1, <1>2, <1>3, <1>4, <1>5, <1>6 DEF StopProcess, RestartGoroutine

\* Every step of the supervisor preserves Control.
LEMMA ControlStep ==
    ASSUME TypeOK, Control, [Next]_vars
    PROVE  Control'
<1>1. ASSUME NEW p \in Pipelines, Start(p) PROVE Control'
  BY <1>1, AllocateAndStartControl DEF Start, Control, CallerConsistent, Idle
<1>2. ASSUME NEW p \in Pipelines, Restart(p) PROVE Control'
  BY <1>2, DetachControl, AllocateAndStartControl
     DEF Restart, Control, CallerConsistent, Idle
<1>3. ASSUME NEW p \in Pipelines, Stop(p) \/ RestartInPlace(p) PROVE Control'
  BY <1>3, DetachControl DEF Stop, RestartInPlace
<1>4. CASE OperationReturns
  <2>1. stopping = {} /\ main' = Idle
        /\ UNCHANGED <<processes, info, os, monitor, retry, stopping>>
    BY <1>4 DEF OperationReturns, supervisorVars, objectVars
  <2>2. CallerConsistent'
    BY <2>1 DEF CallerConsistent, Idle
  <2> QED BY <2>1, <2>2
          DEF Control, MapConsistent, NoOrphanProcess, RetryOnlyAfterCrash,
              CrashedHasRetry, RegisteredInfos, Registered, Alive, PendingRetry
<1>5. CASE RestartFinishes
  <2>1. main.pipeline \in Pipelines /\ processes[main.pipeline] = NoInfo
    BY <1>5 DEF RestartFinishes, TypeOK, Operations, Control, CallerConsistent
  <2> QED BY <1>5, <2>1, AllocateAndStartControl DEF RestartFinishes
<1>6. CASE UNCHANGED vars
  BY <1>6 DEF vars, supervisorVars, objectVars, callerVars, Control, MapConsistent,
              CallerConsistent, NoOrphanProcess, RetryOnlyAfterCrash, CrashedHasRetry,
              RegisteredInfos, Registered, Alive, PendingRetry
<1> QED BY <1>1, <1>2, <1>3, <1>4, <1>5, <1>6, ShutdownAllControl, ObjectControl
        DEF Next, Caller

-----------------------------------------------------------------------------
(***************************************************************************)
(* The theorems.                                                           *)
(***************************************************************************)

\* In every reachable state the supervisor's variables are well typed, and the
\* map, the caller and the restart goroutines agree with each other.
THEOREM Invariance == Spec => [](TypeOK /\ Control)
<1>1. Init => TypeOK /\ Control
  BY InitControl
<1>2. TypeOK /\ Control /\ [Next]_vars => (TypeOK /\ Control)'
  BY TypeStep, ControlStep DEF Control
<1> QED BY <1>1, <1>2, PTL DEF Spec

\* Every variable keeps the type of the field it models; in particular only
\* ports of the managed range are ever handed out.
THEOREM TypeCorrect == Spec => []TypeOK
BY Invariance, PTL

\* A running Vector process is always in the map or awaited by stopProcess.
THEOREM NoOrphanProcessHolds == Spec => []NoOrphanProcess
<1>1. TypeOK /\ Control => NoOrphanProcess
  BY DEF Control
<1> QED BY <1>1, Invariance, PTL

\* A restart is pending for exactly the entries that crashed: monitor leaves
\* none behind for a process that was replaced, and reconcileFailedRestart
\* leaves no crashed entry without the goroutine that will restart it.
THEOREM RestartsFollowCrashesHolds == Spec => []RestartsFollowCrashes
<1>1. TypeOK /\ Control => RestartsFollowCrashes
  BY DEF Control, RestartsFollowCrashes
<1> QED BY <1>1, Invariance, PTL

\* A running process is registered or awaited, and no pipeline is in both cases.
LEMMA ControlOneProcess ==
    ASSUME TypeOK, Control, NEW i \in Infos, NEW j \in Infos,
           Alive(i), info[i].pipeline = info[j].pipeline,
           Alive(j) \/ Registered(j)
    PROVE  i = j
<1>1. Registered(i) \/ i \in stopping
  BY DEF Control, NoOrphanProcess
<1>2. Registered(j) \/ j \in stopping
  BY DEF Control, NoOrphanProcess
<1>3. ASSUME NEW k \in stopping PROVE processes[info[k].pipeline] = NoInfo
  BY <1>3 DEF Control, CallerConsistent, TypeOK, Operations, InfoRecords, Idle
<1>4. CASE Registered(i) /\ Registered(j)
  BY <1>4 DEF Registered
<1>5. CASE i \in stopping /\ j \in stopping
  BY <1>5 DEF Control, CallerConsistent
<1> QED BY <1>1, <1>2, <1>3, <1>4, <1>5, SupervisorAssumption DEF Registered

\* Two processes of one pipeline never run at the same time, although restart
\* goroutines and the caller start processes independently of each other.
THEOREM OneProcessPerPipelineHolds == Spec => []OneProcessPerPipeline
<1>1. TypeOK /\ Control => OneProcessPerPipeline
  BY ControlOneProcess DEF OneProcessPerPipeline
<1> QED BY <1>1, Invariance, PTL

\* When a blocking call returns, nothing it was asked to stop is running.
THEOREM StopIsCompleteHolds == Spec => StopIsComplete
<1> DEFINE Complete ==
        main # Idle /\ main' = Idle =>
            \A i \in Infos :
                Alive(i) => main.op # "ShutdownAll"
                            /\ info[i].pipeline # main.pipeline
<1>1. ASSUME TypeOK, Control, [Next]_vars PROVE [Complete]_vars
  <2> SUFFICES ASSUME main # Idle, main' = Idle, NEW i \in Infos, Alive(i)
               PROVE  main.op # "ShutdownAll" /\ info[i].pipeline # main.pipeline
    OBVIOUS
  <2>1. CASE OperationReturns \/ RestartFinishes
    <3>1. Registered(i)
      BY <1>1, <2>1 DEF OperationReturns, RestartFinishes, Control, NoOrphanProcess
    <3>2. processes[info[i].pipeline] # NoInfo /\ info[i].pipeline \in Pipelines
      BY <1>1, <3>1, SupervisorAssumption DEF Registered, TypeOK, InfoRecords
    <3>3. main.op # "ShutdownAll"
      BY <1>1, <3>2 DEF Control, CallerConsistent
    <3>4. processes[main.pipeline] = NoInfo
      BY <1>1, <3>3 DEF Control, CallerConsistent, TypeOK, Operations, Idle
    <3> QED BY <3>2, <3>3, <3>4
  <2>2. main' = main \/ main = Idle \/ OperationReturns \/ RestartFinishes
    BY <1>1 DEF Next, Caller, Start, Stop, Restart, RestartInPlace, Detach, ShutdownAll,
        ProcessExits, StopProcess, KillAfterTimeout, StopProcessReturns, Monitor,
        MonitorStartupDelay, MonitorWaitReturns, MonitorReplaced, MonitorCleanExit,
        MonitorCrash, RestartGoroutine, RestartAfterBailsOut, RestartAfterStarts,
        RestartAfterFails, supervisorVars, objectVars, callerVars, vars
  <2> QED BY <2>1, <2>2
<1> QED BY <1>1, Invariance, PTL DEF Spec, StopIsComplete

\* The sidecar file of a running process stays, although stopProcess removes
\* one without the lock: what it waited for was the only process of its
\* pipeline, and the caller that waits starts no other.
THEOREM SidecarOutlivesProcessHolds == Spec => SidecarOutlivesProcess
<1> DEFINE Outlives(i) ==
        Alive(i) /\ info[i].pipeline \in sidecar => info[i].pipeline \in sidecar'
<1>1. ASSUME TypeOK, Control, [Next]_vars, NEW i \in Infos PROVE Outlives(i)
  <2> SUFFICES ASSUME Alive(i), info[i].pipeline \in sidecar
               PROVE  info[i].pipeline \in sidecar'
    OBVIOUS
  <2>1. ASSUME NEW j \in Infos, StopProcessReturns(j)
        PROVE  info[i].pipeline \in sidecar'
    <3>1. j \in stopping /\ ~Alive(j) /\ sidecar' = sidecar \ {info[j].pipeline}
      BY <2>1 DEF StopProcessReturns, Done, Exited, Alive
    <3>2. processes[info[j].pipeline] = NoInfo
      BY <1>1, <3>1 DEF Control, CallerConsistent, TypeOK, Operations, InfoRecords, Idle
    <3>3. Registered(i) \/ i \in stopping
      BY <1>1 DEF Control, NoOrphanProcess
    <3>4. info[i].pipeline # info[j].pipeline
      <4> SUFFICES ASSUME info[i].pipeline = info[j].pipeline PROVE FALSE
        OBVIOUS
      <4>1. ~Registered(i)
        BY <3>2, SupervisorAssumption DEF Registered
      <4>2. i = j
        BY <1>1, <3>1, <3>3, <4>1 DEF Control, CallerConsistent
      <4> QED BY <3>1, <4>2
    <3> QED BY <3>1, <3>4
  <2>2. CASE ~ \E j \in Infos : StopProcessReturns(j)
    <3>1. sidecar \subseteq sidecar'
      BY <1>1, <2>2 DEF Next, Caller, Start, Stop, Restart, RestartInPlace, Detach,
          ShutdownAll, OperationReturns, RestartFinishes, AllocateAndStart, Spawn,
          WriteSidecar, ProcessExits, StopProcess, KillAfterTimeout, Monitor,
          MonitorStartupDelay, MonitorWaitReturns, MonitorReplaced, MonitorCleanExit,
          MonitorCrash, RestartGoroutine, RestartAfterBailsOut, RestartAfterStarts,
          RestartAfterFails, callerVars, vars
    <3> QED BY <3>1
  <2> QED BY <2>1, <2>2
<1>2. TypeOK /\ Control /\ [Next]_vars => [\A i \in Infos : Outlives(i)]_vars
  BY <1>1
<1>3. Spec => [][\A i \in Infos : Outlives(i)]_vars
  BY <1>2, Invariance, PTL DEF Spec
<1> QED BY <1>3 DEF SidecarOutlivesProcess

-----------------------------------------------------------------------------
(***************************************************************************)
(* The circuit breaker.                                                    *)
(***************************************************************************)

\* Whatever a step does, it schedules a restart of an entry only with a count
\* the breaker accepts, and raises the count of an entry that keeps its restart
\* no further than that.
LEMMA BreakerStep ==
    ASSUME TypeOK, Control, BreakerHolds, [Next]_vars
    PROVE  BreakerHolds'
<1> USE DEF supervisorVars, objectVars, callerVars
<1>0. MaxRestarts \in Nat
  BY SupervisorAssumption
<1>s. ASSUME NEW p \in Pipelines, NEW pair, Spawn(p, pair),
             restartCounts' = restartCounts,
             \A i \in Infos : retry'[i] = retry[i] \/ retry'[i] = NoRetry
      PROVE  BreakerHolds'
  <2> PICK j \in Infos :
        /\ Unused(j)
        /\ info' = [info EXCEPT ![j] =
              [pipeline |-> p, status |-> "STARTING", ports |-> pair]]
        /\ processes' = [processes EXCEPT ![p] = j]
    BY <1>s DEF Spawn
  <2> SUFFICES ASSUME NEW q \in Pipelines, NEW i \in Infos, processes'[q] = i,
                      retry'[i] # NoRetry
               PROVE  restartCounts[info'[i].pipeline] <= MaxRestarts
    BY <1>s, SupervisorAssumption DEF BreakerHolds, RegisteredInfos, PendingRetry, TypeOK
  <2>1. i # j /\ retry[i] # NoRetry
    BY <1>s DEF Unused
  <2>2. processes[q] = i /\ info'[i] = info[i]
    BY <2>1 DEF TypeOK
  <2> QED BY <2>1, <2>2, SupervisorAssumption DEF BreakerHolds, RegisteredInfos, PendingRetry
<1>u. ASSUME UNCHANGED info, RegisteredInfos' \subseteq RegisteredInfos,
             \A i \in Infos : retry'[i] = retry[i] \/ retry'[i] = NoRetry,
             \A p \in Pipelines : \/ restartCounts'[p] = restartCounts[p]
                                  \/ restartCounts'[p] = 0
      PROVE  BreakerHolds'
  <2> SUFFICES ASSUME NEW i \in RegisteredInfos, retry'[i] # NoRetry
               PROVE  restartCounts'[info[i].pipeline] <= MaxRestarts
    BY <1>u DEF BreakerHolds, PendingRetry
  <2>1. i \in Infos /\ info[i].pipeline \in Pipelines
    BY DEF RegisteredInfos, TypeOK, InfoRecords
  <2>2. restartCounts[info[i].pipeline] <= MaxRestarts
    BY <1>u, <2>1 DEF BreakerHolds, PendingRetry
  <2> QED BY <1>0, <1>u, <2>1, <2>2
<1>a. ASSUME NEW p \in Pipelines, AllocateAndStart(p), UNCHANGED <<restartCounts, retry>>
      PROVE  BreakerHolds'
  BY <1>a, <1>s, <1>u DEF AllocateAndStart, RegisteredInfos
<1>d. ASSUME NEW p \in Pipelines, NEW op, Detach(op, p) PROVE BreakerHolds'
  <2>1. RegisteredInfos' \subseteq RegisteredInfos
    BY <1>d DEF Detach, RegisteredInfos, TypeOK
  <2> QED BY <1>d, <1>u, <2>1 DEF Detach, TypeOK
<1>c. ASSUME NEW i \in Infos, NEW r \in Nat, Registered(i),
             UNCHANGED processes,
             info'[i].pipeline = info[i].pipeline,
             \A j \in Infos : j # i => info'[j] = info[j] /\ retry'[j] = retry[j],
             restartCounts' = [restartCounts EXCEPT ![info[i].pipeline] = r],
             retry'[i] # NoRetry => r <= MaxRestarts
      PROVE  BreakerHolds'
  <2> SUFFICES ASSUME NEW q \in Pipelines, NEW j \in Infos, processes[q] = j,
                      retry'[j] # NoRetry
               PROVE  restartCounts'[info'[j].pipeline] <= MaxRestarts
    BY <1>c, SupervisorAssumption DEF BreakerHolds, RegisteredInfos, PendingRetry, TypeOK
  <2>1. info[j].pipeline = q /\ info[i].pipeline \in Pipelines
    BY SupervisorAssumption DEF Control, MapConsistent, TypeOK, InfoRecords
  <2>2. CASE j = i
    BY <1>c, <2>1, <2>2 DEF TypeOK
  <2>3. CASE j # i
    <3>1. q # info[i].pipeline
      BY <1>c, <2>3 DEF Registered
    <3>2. restartCounts[q] <= MaxRestarts
      BY <1>c, <2>1, <2>3, SupervisorAssumption DEF BreakerHolds, RegisteredInfos, PendingRetry
    <3> QED BY <1>c, <2>1, <2>3, <3>1, <3>2 DEF TypeOK
  <2> QED BY <2>2, <2>3
<1>1. ASSUME NEW p \in Pipelines, Start(p) \/ Stop(p) \/ Restart(p) \/ RestartInPlace(p)
      PROVE  BreakerHolds'
  BY <1>1, <1>a, <1>d DEF Start, Stop, Restart, RestartInPlace
<1>2. CASE ShutdownAll
  BY <1>2, <1>u DEF ShutdownAll, RegisteredInfos
<1>3. CASE OperationReturns \/ UNCHANGED vars
  BY <1>3, <1>u DEF OperationReturns, vars, RegisteredInfos
<1>4. CASE RestartFinishes
  <2>1. main.pipeline \in Pipelines
    BY <1>4 DEF RestartFinishes, TypeOK, Operations
  <2> QED BY <1>4, <1>a, <2>1 DEF RestartFinishes
<1>5. ASSUME NEW i \in Infos,
             ProcessExits(i) \/ StopProcess(i) \/ Monitor(i) \/ RestartGoroutine(i)
      PROVE  BreakerHolds'
  <2>0. info[i].pipeline \in Pipelines /\ restartCounts[info[i].pipeline] \in Nat
    BY DEF TypeOK, InfoRecords
  <2>1. CASE ProcessExits(i) \/ StopProcess(i) \/ MonitorWaitReturns(i) \/ MonitorReplaced(i)
    BY <1>u, <2>1 DEF ProcessExits, StopProcess, KillAfterTimeout, StopProcessReturns,
                      MonitorWaitReturns, MonitorReplaced, RegisteredInfos
  <2>2. CASE MonitorStartupDelay(i)
    <3>1. \A j \in Infos : info'[j].pipeline = info[j].pipeline
      BY <2>2 DEF MonitorStartupDelay, TypeOK, InfoRecords
    <3> QED BY <2>2, <3>1 DEF MonitorStartupDelay, BreakerHolds, RegisteredInfos,
                              PendingRetry, TypeOK
  <2>3. CASE MonitorCleanExit(i)
    <3>1. info'[i].pipeline = info[i].pipeline
          /\ \A j \in Infos : j # i => info'[j] = info[j] /\ retry'[j] = retry[j]
      BY <2>3 DEF MonitorCleanExit, TypeOK, InfoRecords
    <3>2. /\ Registered(i) /\ UNCHANGED processes
          /\ restartCounts' = [restartCounts EXCEPT ![info[i].pipeline] = 0]
          /\ 0 \in Nat /\ 0 <= MaxRestarts
      BY <1>0, <2>3 DEF MonitorCleanExit
    <3> QED BY <1>c, <3>1, <3>2
  <2>4. CASE MonitorCrash(i)
    <3>1. PICK stable \in BOOLEAN :
            LET p == info[i].pipeline
                count == (IF stable THEN 0 ELSE restartCounts[p]) + 1
            IN  /\ restartCounts' = [restartCounts EXCEPT ![p] = count]
                /\ info' = [info EXCEPT ![i].status =
                      IF GiveUp(count) THEN "CRASH_LOOP" ELSE "CRASHED"]
                /\ retry' = IF GiveUp(count) THEN retry
                            ELSE [retry EXCEPT ![i] = info[i].ports]
      BY <2>4 DEF MonitorCrash
    <3> DEFINE count == (IF stable THEN 0 ELSE restartCounts[info[i].pipeline]) + 1
    <3>2. count \in Nat
      BY <2>0
    <3>3. Registered(i) /\ monitor[i] = "exited" /\ UNCHANGED processes
      BY <2>4 DEF MonitorCrash
    <3>4. retry[i] = NoRetry
      <4>1. i \in RegisteredInfos
        BY <2>0, <3>3, SupervisorAssumption DEF Registered, RegisteredInfos
      <4> QED BY <3>3, <4>1 DEF Control, RetryOnlyAfterCrash, PendingRetry
    <3>5. retry'[i] # NoRetry => count <= MaxRestarts
      BY <1>0, <3>1, <3>2, <3>4 DEF GiveUp
    <3>6. info'[i].pipeline = info[i].pipeline
          /\ \A j \in Infos : j # i => info'[j] = info[j] /\ retry'[j] = retry[j]
      BY <3>1 DEF TypeOK, InfoRecords
    <3> HIDE DEF count
    <3>7. restartCounts' = [restartCounts EXCEPT ![info[i].pipeline] = count]
      BY <3>1 DEF count
    <3> QED BY <1>c, <3>2, <3>3, <3>5, <3>6, <3>7
  <2>5. CASE RestartAfterBailsOut(i)
    BY <1>u, <2>5 DEF RestartAfterBailsOut, RegisteredInfos, TypeOK
  <2>6. CASE RestartAfterStarts(i)
    BY <1>s, <2>0, <2>6 DEF RestartAfterStarts, TypeOK
  <2>7. CASE RestartAfterFails(i)
    <3> DEFINE count == restartCounts[info[i].pipeline] + 1
    <3>1. /\ Registered(i) /\ UNCHANGED processes
          /\ restartCounts' = [restartCounts EXCEPT ![info[i].pipeline] = count]
          /\ info'[i].pipeline = info[i].pipeline
          /\ \A j \in Infos : j # i => info'[j] = info[j] /\ retry'[j] = retry[j]
          /\ retry'[i] # NoRetry => ~GiveUp(count)
      BY <2>7 DEF RestartAfterFails, ReconcileFailedRestart, TypeOK, InfoRecords
    <3>2. count \in Nat /\ (retry'[i] # NoRetry => count <= MaxRestarts)
      BY <1>0, <2>0, <3>1 DEF GiveUp
    <3> HIDE DEF count
    <3> QED BY <1>c, <3>1, <3>2
  <2> QED BY <1>5, <2>1, <2>2, <2>3, <2>4, <2>5, <2>6, <2>7 DEF Monitor, RestartGoroutine
<1> QED BY <1>1, <1>2, <1>3, <1>4, <1>5 DEF Next, Caller

\* No restart is pending for a pipeline that has failed more than MaxRestarts
\* times in a row.
THEOREM BreakerHoldsAlways == Spec => []BreakerHolds
<1>1. Init => BreakerHolds
  BY DEF Init, BreakerHolds, RegisteredInfos
<1>2. BreakerHolds /\ (TypeOK /\ Control) /\ [Next]_vars => BreakerHolds'
  BY BreakerStep
<1> QED BY <1>1, <1>2, Invariance, PTL DEF Spec

-----------------------------------------------------------------------------
(***************************************************************************)
(* No port is lost.  Accounted(q, held): each port the pool q has ever     *)
(* handed out is on its stack or in held.  The lemmas say what taking and  *)
(* returning ports does to that; they assume nothing of held, which may    *)
(* overlap with the stack.                                                 *)
(***************************************************************************)
FreePorts(q) == {q.free[k] : k \in DOMAIN q.free}

Accounted(q, held) == \A port \in 1..(q.next - 1) : port \in FreePorts(q) \cup held

\* nextPort moves a port from the stack, or from beyond next, into held.
LEMMA TakeAccounts ==
    ASSUME NEW q \in Pools, NEW held, Accounted(q, held), HasPort(q)
    PROVE  Accounted(AfterTake(q), held \cup {PortTaken(q)})
<1>0. q.free \in Seq(Ports) /\ q.next \in 1..(MaxPort + 1) /\ MaxPort \in Nat
  BY MaxPortAssumption DEF Pools
<1>1. CASE q.free # <<>>
  <2> DEFINE n == Len(q.free)
  <2>1. n \in Nat \ {0} /\ DOMAIN q.free = 1..n
    BY <1>0, <1>1, EmptySeq
  <2>2. /\ AfterTake(q).free = SubSeq(q.free, 1, n - 1)
        /\ AfterTake(q).next = q.next
        /\ PortTaken(q) = q.free[n]
    BY <1>0, <1>1 DEF AfterTake, PortTaken, Pools
  <2>3. ASSUME NEW k \in 1..n, k # n
        PROVE  q.free[k] \in FreePorts(AfterTake(q))
    <3>1. k \in 1..(n - 1) /\ n - 1 \in Nat
      BY <2>1, <2>3
    <3>2. DOMAIN AfterTake(q).free = 1..(n - 1)
          /\ AfterTake(q).free[k] = q.free[k]
      BY <1>0, <2>1, <2>2, <3>1
    <3> QED BY <3>1, <3>2 DEF FreePorts
  <2>4. FreePorts(q) \subseteq FreePorts(AfterTake(q)) \cup {PortTaken(q)}
    BY <2>1, <2>2, <2>3 DEF FreePorts
  <2> QED BY <2>2, <2>4 DEF Accounted
<1>2. CASE q.free = <<>>
  <2>1. /\ AfterTake(q).free = q.free
        /\ AfterTake(q).next = q.next + 1
        /\ PortTaken(q) = q.next
    BY <1>2 DEF AfterTake, PortTaken, Pools
  <2>3. FreePorts(AfterTake(q)) = FreePorts(q)
    BY <2>1 DEF FreePorts
  <2> SUFFICES ASSUME NEW port \in 1..(AfterTake(q).next - 1)
               PROVE  port \in FreePorts(AfterTake(q)) \cup (held \cup {PortTaken(q)})
    BY DEF Accounted
  <2>4. port = q.next \/ port \in 1..(q.next - 1)
    BY <1>0, <2>1
  <2> QED BY <2>1, <2>3, <2>4 DEF Accounted
<1> QED BY <1>1, <1>2

\* releasePort: the port need no longer be held by anybody else.
LEMMA ReleaseAccounts ==
    ASSUME NEW q \in Pools, NEW held, NEW port, Accounted(q, held)
    PROVE  Accounted(Release(q, port), held \ {port})
<1>0. q.free \in Seq(Ports) /\ q.next \in 1..(MaxPort + 1) /\ MaxPort \in Nat
  BY MaxPortAssumption DEF Pools
<1>1. CASE port \in Ports
  <2>1. /\ Release(q, port).free = Append(q.free, port)
        /\ Release(q, port).next = q.next
    BY <1>1 DEF Release, Pools
  <2>2. FreePorts(q) \cup {port} \subseteq FreePorts(Release(q, port))
    <3> DEFINE n == Len(q.free)
               s == Append(q.free, port)
    <3>1. n \in Nat /\ DOMAIN q.free = 1..n /\ DOMAIN s = 1..(n + 1)
          /\ s[n + 1] = port /\ \A k \in 1..n : s[k] = q.free[k]
      BY <1>0, <1>1
    <3>2. n + 1 \in 1..(n + 1) /\ 1..n \subseteq 1..(n + 1)
      BY <3>1
    <3> QED BY <2>1, <3>1, <3>2 DEF FreePorts
  <2> QED BY <2>1, <2>2 DEF Accounted
<1>2. CASE port \notin Ports
  <2>1. Release(q, port) = q
    BY <1>2 DEF Release
  <2>2. \A x \in 1..(q.next - 1) : x \in Ports
    BY <1>0 DEF Ports
  <2> QED BY <1>2, <2>1, <2>2 DEF Accounted
<1> QED BY <1>1, <1>2

\* releasePorts.
LEMMA ReleasePairAccounts ==
    ASSUME NEW q \in Pools, NEW held, NEW pair, Accounted(q, held)
    PROVE  Accounted(ReleasePair(q, pair), held \ {pair[1], pair[2]})
<1>1. Release(q, pair[1]) \in Pools
  BY ReleaseType
<1>2. Accounted(Release(q, pair[1]), held \ {pair[1]})
  BY ReleaseAccounts
<1>3. Accounted(Release(Release(q, pair[1]), pair[2]), (held \ {pair[1]}) \ {pair[2]})
  BY <1>1, <1>2, ReleaseAccounts
<1>4. (held \ {pair[1]}) \ {pair[2]} = held \ {pair[1], pair[2]}
  OBVIOUS
<1> QED BY <1>3, <1>4 DEF ReleasePair

\* allocatePortPair: the caller holds the pair; on failure nobody holds more.
LEMMA AllocateAccounts ==
    ASSUME NEW q \in Pools, NEW held, Accounted(q, held)
    PROVE  Accounted(AfterAllocate(q),
                     held \cup (IF HasPair(q) THEN {PairTaken(q)[1], PairTaken(q)[2]}
                                              ELSE {}))
<1>1. CASE HasPair(q)
  <2>1. AfterTake(q) \in Pools /\ HasPort(q) /\ HasPort(AfterTake(q))
    BY <1>1, TakeType DEF HasPair
  <2>2. Accounted(AfterTake(q), held \cup {PortTaken(q)})
    BY <2>1, TakeAccounts
  <2>3. Accounted(AfterTake(AfterTake(q)),
                  (held \cup {PortTaken(q)}) \cup {PortTaken(AfterTake(q))})
    BY <2>1, <2>2, TakeAccounts
  <2>4. (held \cup {PortTaken(q)}) \cup {PortTaken(AfterTake(q))}
            = held \cup {PairTaken(q)[1], PairTaken(q)[2]}
    BY DEF PairTaken
  <2> QED BY <1>1, <2>3, <2>4 DEF AfterAllocate
<1>2. CASE ~HasPair(q) /\ HasPort(q)
  <2>1. AfterTake(q) \in Pools
    BY <1>2, TakeType
  <2>2. Accounted(AfterTake(q), held \cup {PortTaken(q)})
    BY <1>2, TakeAccounts
  <2>3. Accounted(Release(AfterTake(q), PortTaken(q)),
                  (held \cup {PortTaken(q)}) \ {PortTaken(q)})
    BY <2>1, <2>2, ReleaseAccounts
  <2> QED BY <1>2, <2>3 DEF AfterAllocate, Accounted
<1>3. CASE ~HasPair(q) /\ ~HasPort(q)
  BY <1>3 DEF AfterAllocate, Accounted
<1> QED BY <1>1, <1>2, <1>3

\* The port returned last is the next one handed out.
LEMMA TakeReleased ==
    ASSUME NEW q \in Pools, NEW port \in Ports
    PROVE  /\ HasPort(Release(q, port))
           /\ PortTaken(Release(q, port)) = port
           /\ AfterTake(Release(q, port)) = q
<1> DEFINE s == Release(q, port)
           n == Len(q.free)
<1>1. /\ q.free \in Seq(Ports) /\ n \in Nat
      /\ s.free = Append(q.free, port) /\ s.next = q.next
      /\ s \in Pools
  BY ReleaseType DEF Release, Pools
<1>2. Len(s.free) = n + 1 /\ s.free # <<>> /\ s.free[n + 1] = port
  BY <1>1
<1>3. SubSeq(s.free, 1, n + 1 - 1) = q.free
  BY <1>1
<1>4. AfterTake(s) = [s EXCEPT !.free = q.free]
  BY <1>2, <1>3 DEF AfterTake
<1>5. [s EXCEPT !.free = q.free] = q
  BY <1>1 DEF Pools
<1>6. HasPort(s) /\ PortTaken(s) = port
  BY <1>2 DEF HasPort, PortTaken
<1> QED BY <1>4, <1>5, <1>6

\* Two ports that were just returned are the two handed out next, so that
\* reconcileFailedRestart retries on the ports the entry has had all along.
LEMMA SamePortsAgain ==
    ASSUME NEW q \in Pools, NEW pair \in Ports \X Ports
    PROVE  /\ PairTaken(ReleasePair(q, pair)) = <<pair[2], pair[1]>>
           /\ AfterAllocate(ReleasePair(q, pair)) = q
<1> DEFINE one == Release(q, pair[1])
           r   == Release(one, pair[2])
<1>0. one \in Pools /\ pair[1] \in Ports /\ pair[2] \in Ports
  BY ReleaseType
<1>1. HasPort(r) /\ PortTaken(r) = pair[2] /\ AfterTake(r) = one
  BY <1>0, TakeReleased
<1>2. HasPort(one) /\ PortTaken(one) = pair[1] /\ AfterTake(one) = q
  BY <1>0, TakeReleased
<1> HIDE DEF one
<1>3. ReleasePair(q, pair) = r
  BY DEF ReleasePair, one
<1> HIDE DEF r
<1> QED BY <1>1, <1>2, <1>3 DEF PairTaken, AfterAllocate, HasPair

\* The ports of the map's entries, and those the restart goroutines wait with.
EntryPorts == UNION {PortSet(info[i].ports) : i \in RegisteredInfos}
RetryPorts == UNION {PortSet(retry[i]) : i \in Infos}
Held == EntryPorts \cup RetryPorts

\* A restart that is still wanted holds the ports of the entry it will replace.
RetryKeepsPorts ==
    \A i \in RegisteredInfos :
        PendingRetry(i) => PortSet(retry[i]) = PortSet(info[i].ports)

LEMMA NoPortLeakIsAccounted ==
    /\ NoPortLeak <=> Accounted(pool, Held)
    /\ NoPortLeak' <=> Accounted(pool', Held')
BY DEF NoPortLeak, Accounted, FreePorts, Held, EntryPorts, RetryPorts

\* startProcess with two ports: what is held grows by them; of what was held
\* only the replaced entry's ports and its restart's may no longer be.
LEMMA SpawnHeld ==
    ASSUME TypeOK, Control, RetryKeepsPorts,
           NEW p \in Pipelines, NEW pair \in Ports \X Ports, Spawn(p, pair),
           \A i \in Infos : retry'[i] = retry[i] \/ (i = processes[p] /\ retry'[i] = NoRetry)
    PROVE  /\ RetryKeepsPorts'
           /\ PortSet(pair) \subseteq Held'
           /\ processes[p] = NoInfo => Held \subseteq Held'
           /\ processes[p] # NoInfo =>
                Held \ (PortSet(info[processes[p]].ports) \cup PortSet(retry[processes[p]]))
                    \subseteq Held'
<1> PICK j \in Infos :
        /\ Unused(j)
        /\ info' = [info EXCEPT ![j] =
              [pipeline |-> p, status |-> "STARTING", ports |-> pair]]
        /\ processes' = [processes EXCEPT ![p] = j]
  BY DEF Spawn
<1>1. /\ info'[j].ports = pair /\ processes'[p] = j /\ j \in RegisteredInfos'
      /\ \A i \in Infos : i # j => info'[i] = info[i]
      /\ \A q \in Pipelines : q # p => processes'[q] = processes[q]
  BY SupervisorAssumption DEF TypeOK, RegisteredInfos
<1>2. retry[j] = NoRetry /\ retry'[j] = NoRetry
  BY DEF Unused
<1>3. RetryKeepsPorts'
  <2> SUFFICES ASSUME NEW q \in Pipelines, NEW i \in Infos, processes'[q] = i,
                      retry'[i] # NoRetry
               PROVE  PortSet(retry'[i]) = PortSet(info'[i].ports)
    BY SupervisorAssumption DEF RetryKeepsPorts, RegisteredInfos, PendingRetry, TypeOK
  <2>1. i # j /\ q # p
    BY <1>1, <1>2
  <2>2. retry'[i] = retry[i] /\ processes[q] = i /\ info'[i] = info[i]
    BY <1>1, <2>1
  <2> QED BY <2>2, SupervisorAssumption DEF RetryKeepsPorts, RegisteredInfos, PendingRetry
<1>4. PortSet(pair) \subseteq Held'
  BY <1>1 DEF Held, EntryPorts
<1>5. ASSUME NEW i \in RegisteredInfos, i # processes[p]
      PROVE  PortSet(info[i].ports) \subseteq Held'
  <2>1. PICK q \in Pipelines : processes[q] = i /\ i \in Infos
    BY DEF RegisteredInfos, TypeOK
  <2>2. q # p /\ info[i].pipeline = q
    BY <1>5, <2>1, SupervisorAssumption DEF Control, MapConsistent
  <2>3. i # j
    BY <2>1, <2>2 DEF Unused, Registered
  <2>4. i \in RegisteredInfos' /\ info'[i] = info[i]
    BY <1>1, <2>1, <2>2, <2>3, SupervisorAssumption DEF RegisteredInfos
  <2> QED BY <2>4 DEF Held, EntryPorts
<1>6. ASSUME NEW i \in Infos, i # processes[p]
      PROVE  PortSet(retry[i]) \subseteq Held'
  BY <1>6 DEF Held, RetryPorts
<1>7. processes[p] = NoInfo => Held \subseteq Held'
  <2> SUFFICES ASSUME processes[p] = NoInfo PROVE Held \subseteq Held'
    OBVIOUS
  <2>1. \A i \in RegisteredInfos : PortSet(info[i].ports) \subseteq Held'
    BY <1>5 DEF RegisteredInfos
  <2>2. \A i \in Infos : PortSet(retry[i]) \subseteq Held'
    BY <1>6, SupervisorAssumption
  <2> QED BY <2>1, <2>2 DEF Held, EntryPorts, RetryPorts
<1>8. processes[p] # NoInfo =>
        Held \ (PortSet(info[processes[p]].ports) \cup PortSet(retry[processes[p]]))
            \subseteq Held'
  BY <1>5, <1>6 DEF Held, EntryPorts, RetryPorts
<1> QED BY <1>3, <1>4, <1>7, <1>8

\* Start, and the second halves of Restart and RestartInPlace.
LEMMA AllocateAndStartPorts ==
    ASSUME TypeOK, Control, RetryKeepsPorts, NoPortLeak,
           NEW p \in Pipelines, AllocateAndStart(p), processes[p] = NoInfo, retry' = retry
    PROVE  RetryKeepsPorts' /\ NoPortLeak'
<1> DEFINE pair  == PairTaken(pool)
           taken == AfterAllocate(pool)
<1>1. pool \in Pools /\ taken \in Pools /\ Accounted(pool, Held)
  BY AllocateType, NoPortLeakIsAccounted DEF TypeOK
<1>2. HasPair(pool) => /\ pair \in Ports \X Ports
                       /\ Accounted(taken, Held \cup {pair[1], pair[2]})
  BY <1>1, PairType, AllocateAccounts
<1>3. CASE HasPair(pool) /\ Spawn(p, pair) /\ pool' = taken
  <2>1. RetryKeepsPorts' /\ PortSet(pair) \subseteq Held' /\ Held \subseteq Held'
    BY <1>2, <1>3, SpawnHeld
  <2>2. PortSet(pair) = {pair[1], pair[2]}
    BY <1>2, <1>3 DEF PortSet, NoPort, Ports
  <2>3. Accounted(pool', Held')
    BY <1>2, <1>3, <2>1, <2>2 DEF Accounted
  <2> QED BY <2>1, <2>3, NoPortLeakIsAccounted
<1>4. CASE UNCHANGED <<processes, info, os, monitor>>
           /\ \/ HasPair(pool) /\ pool' = ReleasePair(taken, pair)
              \/ ~HasPair(pool) /\ pool' = taken
  <2>1. Held' = Held /\ (RetryKeepsPorts' <=> RetryKeepsPorts)
    BY <1>4 DEF Held, EntryPorts, RetryPorts, RegisteredInfos, RetryKeepsPorts, PendingRetry
  <2>2. CASE HasPair(pool)
    <3>1. Accounted(pool', (Held \cup {pair[1], pair[2]}) \ {pair[1], pair[2]})
      BY <1>1, <1>2, <1>4, <2>2, ReleasePairAccounts
    <3> QED BY <2>1, <3>1, NoPortLeakIsAccounted DEF Accounted
  <2>3. CASE ~HasPair(pool)
    <3>1. Accounted(pool', Held \cup {})
      BY <1>1, <1>4, <2>3, AllocateAccounts
    <3> QED BY <2>1, <3>1, NoPortLeakIsAccounted DEF Accounted
  <2> QED BY <2>2, <2>3
<1> QED BY <1>3, <1>4 DEF AllocateAndStart

\* ShutdownAll puts both ports of every entry on the stack.
LEMMA ShutdownAllPorts ==
    ASSUME TypeOK, Control, NoPortLeak, ShutdownAll
    PROVE  NoPortLeak'
<1> DEFINE running == {processes[p] : p \in Pipelines} \ {NoInfo}
           n == Cardinality(running)
<1>1. n \in Nat
  <2>1. IsFiniteSet({processes[p] : p \in Pipelines})
    <3>1. processes \in Surjection(Pipelines, {processes[p] : p \in Pipelines})
      BY DEF Surjection, TypeOK
    <3> QED BY <3>1, FS_Surjection, SupervisorAssumption
  <2> QED BY <2>1, FS_Subset, FS_CardinalityType
<1>2. PICK order \in Bijection(1..n, running) :
          pool' = [pool EXCEPT !.free = @ \o PortsInOrder(order, n)]
  BY DEF ShutdownAll
<1> DEFINE back == PortsInOrder(order, n)
           m == Len(pool.free)
<1>3. pool' \in Pools /\ pool.free \in Seq(Ports) /\ m \in Nat
  BY ShutdownAllType DEF TypeOK, Pools, Control
<1>4. /\ pool'.free = pool.free \o back /\ pool'.next = pool.next
  BY <1>2 DEF TypeOK, Pools
<1>5. back = [k \in 1..(2 * n) |->
                LET ports == info[order[(k + 1) \div 2]].ports
                IN  IF k % 2 = 1 THEN ports[1] ELSE ports[2]]
  BY DEF PortsInOrder
<1>6. ASSUME NEW i \in RegisteredInfos, NEW port \in PortSet(info[i].ports)
      PROVE  \E k \in 1..(2 * n) : back[k] = port
  <2>1. PICK r \in 1..n : order[r] = i
    BY <1>6 DEF Bijection, Surjection, RegisteredInfos
  <2>2. CASE port = info[i].ports[1]
    <3>1. /\ 2 * r - 1 \in 1..(2 * n) /\ (2 * r - 1 + 1) \div 2 = r
          /\ (2 * r - 1) % 2 = 1
      BY <1>1, <2>1
    <3>2. back[2 * r - 1] = info[i].ports[1]
      BY <1>5, <2>1, <3>1
    <3> QED BY <2>2, <3>1, <3>2
  <2>3. CASE port = info[i].ports[2]
    <3>1. /\ 2 * r \in 1..(2 * n) /\ (2 * r + 1) \div 2 = r
          /\ (2 * r) % 2 = 0
      BY <1>1, <2>1
    <3>2. back[2 * r] = info[i].ports[2]
      BY <1>5, <2>1, <3>1
    <3> QED BY <2>3, <3>1, <3>2
  <2> QED BY <1>6, <2>2, <2>3 DEF PortSet
<1>7. back \in Seq(Ports) /\ Len(back) = 2 * n
  <2>1. \A k \in 1..(2 * n) : back[k] \in Ports
    <3> SUFFICES ASSUME NEW k \in 1..(2 * n) PROVE back[k] \in Ports
      OBVIOUS
    <3>1. (k + 1) \div 2 \in 1..n
      BY <1>1
    <3>2. PICK p \in Pipelines : order[(k + 1) \div 2] = processes[p] /\ processes[p] # NoInfo
      BY <3>1 DEF Bijection, Injection
    <3>3. info[processes[p]].ports \in Ports \X Ports
      BY <3>2 DEF Control, MapConsistent
    <3> QED BY <1>5, <3>2, <3>3
  <2>2. back \in [1..(2 * n) -> Ports]
    BY <2>1 DEF PortsInOrder
  <2>3. 2 * n \in Nat
    BY <1>1
  <2> QED BY <2>2, <2>3, SeqDef, LenProperties
<1>8. FreePorts(pool) \cup EntryPorts \subseteq FreePorts(pool')
  <2> DEFINE free == pool.free
             w    == 2 * n
  <2>0. w \in Nat
    BY <1>1
  <2> HIDE DEF back, w, free, n
  <2>1. /\ free \in Seq(Ports) /\ back \in Seq(Ports)
        /\ Len(free) = m /\ Len(back) = w
        /\ pool'.free = free \o back
    BY <1>3, <1>4, <1>7 DEF w, free
  <2>2. /\ free \o back \in Seq(Ports)
        /\ Len(free \o back) = m + w
        /\ \A k \in 1..(m + w) :
              (free \o back)[k] = IF k <= m THEN free[k] ELSE back[k - m]
    <3>1. /\ free \o back \in Seq(Ports)
          /\ Len(free \o back) = Len(free) + Len(back)
          /\ \A k \in 1..(Len(free) + Len(back)) :
                (free \o back)[k] = IF k <= Len(free) THEN free[k] ELSE back[k - Len(free)]
      BY <2>1, ConcatProperties, Zenon
    <3> HIDE DEF m
    <3> QED BY <2>1, <3>1
  <2>3. DOMAIN free = 1..m /\ DOMAIN (free \o back) = 1..(m + w)
    BY <2>1, <2>2, LenProperties
  <2>4. \A k \in 1..m : k \in 1..(m + w) /\ (free \o back)[k] = free[k]
    BY <1>3, <2>0, <2>2
  <2>5. \A k \in 1..w : m + k \in 1..(m + w) /\ (free \o back)[m + k] = back[k]
    <3> SUFFICES ASSUME NEW k \in 1..w
                 PROVE  m + k \in 1..(m + w) /\ (free \o back)[m + k] = back[k]
      OBVIOUS
    <3>1. m + k \in 1..(m + w) /\ ~(m + k <= m) /\ (m + k) - m = k
      BY <1>3, <2>0
    <3> QED BY <2>2, <3>1
  <2>6. FreePorts(pool) \subseteq FreePorts(pool')
    BY <2>1, <2>3, <2>4 DEF FreePorts, free
  <2>7. EntryPorts \subseteq FreePorts(pool')
    <3> SUFFICES ASSUME NEW i \in RegisteredInfos, NEW port \in PortSet(info[i].ports)
                 PROVE  port \in FreePorts(pool')
      BY DEF EntryPorts
    <3>1. PICK k \in 1..w : back[k] = port
      BY <1>6 DEF w
    <3>2. m + k \in DOMAIN pool'.free /\ pool'.free[m + k] = port
      BY <2>1, <2>3, <2>5, <3>1
    <3> QED BY <3>2 DEF FreePorts
  <2> QED BY <2>6, <2>7
<1>9. RetryPorts \subseteq Held'
  BY DEF ShutdownAll, Held, RetryPorts
<1> QED BY <1>4, <1>8, <1>9, NoPortLeakIsAccounted DEF Accounted, Held

\* Every step keeps every port accounted for.
LEMMA PortsStep ==
    ASSUME TypeOK, Control, RetryKeepsPorts, NoPortLeak, [Next]_vars
    PROVE  RetryKeepsPorts' /\ NoPortLeak'
<1> USE DEF supervisorVars, objectVars, callerVars
<1>0. pool \in Pools /\ Accounted(pool, Held)
  BY NoPortLeakIsAccounted DEF TypeOK
<1>a. ASSUME NEW gone, Accounted(pool', Held \ gone), Held \ gone \subseteq Held'
      PROVE  NoPortLeak'
  BY <1>a, NoPortLeakIsAccounted DEF Accounted
<1>q. ASSUME UNCHANGED <<processes, pool, retry>>,
             \A i \in Infos : info'[i].ports = info[i].ports
      PROVE  RetryKeepsPorts' /\ NoPortLeak'
  <2>1. RegisteredInfos' = RegisteredInfos /\ RegisteredInfos \subseteq Infos
    BY <1>q DEF RegisteredInfos, TypeOK
  <2>2. RetryKeepsPorts'
    BY <1>q, <2>1 DEF RetryKeepsPorts, PendingRetry
  <2>3. Held' = Held
    BY <1>q, <2>1 DEF Held, EntryPorts, RetryPorts
  <2> QED BY <1>0, <1>q, <2>2, <2>3, NoPortLeakIsAccounted
<1>1. ASSUME NEW p \in Pipelines, NEW op, Detach(op, p)
      PROVE  RetryKeepsPorts' /\ NoPortLeak'
  <2> DEFINE e == processes[p]
  <2>1. /\ e \in RegisteredInfos /\ RegisteredInfos' \subseteq RegisteredInfos
        /\ RegisteredInfos \ {e} \subseteq RegisteredInfos'
        /\ UNCHANGED <<info, retry>>
        /\ pool' = ReleasePair(pool, info[e].ports)
    BY <1>1 DEF Detach, RegisteredInfos, TypeOK
  <2>2. RetryKeepsPorts'
    BY <2>1 DEF RetryKeepsPorts, PendingRetry
  <2> DEFINE gone == {info[e].ports[1], info[e].ports[2]}
  <2>3. Accounted(pool', Held \ gone)
    BY <1>0, <2>1, ReleasePairAccounts
  <2>4. \A i \in RegisteredInfos : i # e => PortSet(info[i].ports) \subseteq Held'
    BY <2>1 DEF Held, EntryPorts
  <2>5. PortSet(info[e].ports) \subseteq gone /\ RetryPorts \subseteq Held'
    BY <2>1 DEF PortSet, Held, RetryPorts
  <2>6. Held \ gone \subseteq Held'
    BY <2>4, <2>5 DEF Held, EntryPorts
  <2> HIDE DEF gone
  <2> QED BY <1>a, <2>2, <2>3, <2>6
<1>2. ASSUME NEW p \in Pipelines, Start(p) \/ Stop(p) \/ Restart(p) \/ RestartInPlace(p)
      PROVE  RetryKeepsPorts' /\ NoPortLeak'
  BY <1>1, <1>2, AllocateAndStartPorts DEF Start, Stop, Restart, RestartInPlace
<1>3. CASE ShutdownAll
  <2>1. RegisteredInfos' = {}
    BY <1>3 DEF ShutdownAll, RegisteredInfos
  <2> QED BY <1>3, <2>1, ShutdownAllPorts DEF RetryKeepsPorts
<1>4. CASE OperationReturns \/ UNCHANGED vars
  BY <1>4, <1>q DEF OperationReturns, vars
<1>5. CASE RestartFinishes
  <2>1. main.pipeline \in Pipelines /\ processes[main.pipeline] = NoInfo
    BY <1>5 DEF RestartFinishes, TypeOK, Operations, Control, CallerConsistent
  <2> QED BY <1>5, <2>1, AllocateAndStartPorts DEF RestartFinishes
<1>6. ASSUME NEW i \in Infos,
             ProcessExits(i) \/ StopProcess(i) \/ Monitor(i) \/ RestartGoroutine(i)
      PROVE  RetryKeepsPorts' /\ NoPortLeak'
  <2>0. info[i].pipeline \in Pipelines
    BY DEF TypeOK, InfoRecords
  <2>1. CASE ProcessExits(i) \/ StopProcess(i)
    BY <1>q, <2>1 DEF ProcessExits, StopProcess, KillAfterTimeout, StopProcessReturns
  <2>2. CASE MonitorWaitReturns(i) \/ MonitorReplaced(i)
    BY <1>q, <2>2 DEF MonitorWaitReturns, MonitorReplaced
  <2>3. CASE MonitorStartupDelay(i) \/ MonitorCleanExit(i)
    <3>1. \A j \in Infos : info'[j].ports = info[j].ports
      BY <2>3 DEF MonitorStartupDelay, MonitorCleanExit, TypeOK, InfoRecords
    <3> QED BY <1>q, <2>3, <3>1 DEF MonitorStartupDelay, MonitorCleanExit
  <2>4. CASE MonitorCrash(i)
    <3>1. /\ UNCHANGED <<processes, pool>> /\ Registered(i) /\ monitor[i] # "none"
          /\ \A j \in Infos : info'[j].ports = info[j].ports
          /\ \A j \in Infos : j # i => retry'[j] = retry[j]
          /\ retry'[i] \in {retry[i], info[i].ports}
      BY <2>4 DEF MonitorCrash, TypeOK, InfoRecords
    <3>2. i \in RegisteredInfos
      BY <2>0, <3>1, SupervisorAssumption DEF Registered, RegisteredInfos
    <3>3. retry[i] = NoRetry
      BY <3>1, <3>2 DEF Control, RetryOnlyAfterCrash, PendingRetry
    <3>4. RegisteredInfos' = RegisteredInfos /\ RegisteredInfos \subseteq Infos
      BY <3>1 DEF RegisteredInfos, TypeOK
    <3>5. RetryKeepsPorts'
      BY <3>1, <3>3, <3>4 DEF RetryKeepsPorts, PendingRetry
    <3>6. PortSet(retry[i]) = {}
      BY <3>3 DEF NoRetry, NoPorts, PortSet
    <3>7. Held \ {} \subseteq Held'
      BY <3>1, <3>4, <3>6 DEF Held, EntryPorts, RetryPorts
    <3>8. Accounted(pool', Held \ {})
      BY <1>0, <3>1 DEF Accounted
    <3> QED BY <1>a, <3>5, <3>7, <3>8
  <2>5. CASE RestartAfterBailsOut(i)
    <3>1. /\ UNCHANGED <<processes, info>> /\ ~Registered(i)
          /\ \A j \in Infos : j # i => retry'[j] = retry[j]
          /\ retry'[i] = NoRetry
          /\ pool' = ReleasePair(pool, retry[i])
      BY <2>5 DEF RestartAfterBailsOut, TypeOK
    <3>2. RegisteredInfos' = RegisteredInfos /\ RegisteredInfos \subseteq Infos
      BY <3>1 DEF RegisteredInfos, TypeOK
    <3>3. RetryKeepsPorts'
      BY <3>1, <3>2 DEF RetryKeepsPorts, PendingRetry
    <3> DEFINE gone == {retry[i][1], retry[i][2]}
    <3>4. Accounted(pool', Held \ gone)
      BY <1>0, <3>1, ReleasePairAccounts
    <3>5. PortSet(retry[i]) \subseteq gone
      BY DEF PortSet
    <3>6. Held \ gone \subseteq Held'
      BY <3>1, <3>2, <3>5 DEF Held, EntryPorts, RetryPorts
    <3> HIDE DEF gone
    <3> QED BY <1>a, <3>3, <3>4, <3>6
  <2>6. CASE RestartAfterStarts(i)
    <3>1. /\ PendingRetry(i) /\ Registered(i)
          /\ Spawn(info[i].pipeline, retry[i])
          /\ retry' = [retry EXCEPT ![i] = NoRetry]
          /\ UNCHANGED pool
      BY <2>6 DEF RestartAfterStarts
    <3>2. retry[i] \in Ports \X Ports /\ processes[info[i].pipeline] = i /\ i # NoInfo
          /\ i \in RegisteredInfos
      BY <2>0, <3>1, SupervisorAssumption DEF PendingRetry, Registered, RegisteredInfos, TypeOK
    <3>3. \A j \in Infos : \/ retry'[j] = retry[j]
                           \/ j = processes[info[i].pipeline] /\ retry'[j] = NoRetry
      BY <3>1, <3>2 DEF TypeOK
    <3>4. /\ RetryKeepsPorts'
          /\ PortSet(retry[i]) \subseteq Held'
          /\ Held \ (PortSet(info[i].ports) \cup PortSet(retry[i])) \subseteq Held'
      BY <2>0, <3>1, <3>2, <3>3, SpawnHeld
    <3>5. PortSet(retry[i]) = PortSet(info[i].ports)
      BY <3>1, <3>2 DEF RetryKeepsPorts
    <3>6. Held \ {} \subseteq Held'
      BY <3>4, <3>5
    <3>7. Accounted(pool', Held \ {})
      BY <1>0, <3>1 DEF Accounted
    <3> QED BY <1>a, <3>4, <3>6, <3>7
  <2>7. CASE RestartAfterFails(i)
    <3> DEFINE q     == ReleasePair(pool, retry[i])
               stops == GiveUp(restartCounts[info[i].pipeline] + 1)
    <3>1. /\ PendingRetry(i) /\ Registered(i) /\ UNCHANGED processes
          /\ \A j \in Infos : info'[j].ports = info[j].ports
          /\ \A j \in Infos : j # i => retry'[j] = retry[j]
          /\ retry'[i] = (IF stops THEN NoRetry ELSE PairTaken(q))
          /\ pool' = (IF stops THEN q ELSE AfterAllocate(q))
      BY <2>7 DEF RestartAfterFails, ReconcileFailedRestart, TypeOK, InfoRecords
    <3>2. retry[i] \in Ports \X Ports /\ i \in RegisteredInfos
      BY <2>0, <3>1, SupervisorAssumption DEF PendingRetry, Registered, RegisteredInfos, TypeOK
    <3>3. RegisteredInfos' = RegisteredInfos /\ RegisteredInfos \subseteq Infos
      BY <3>1 DEF RegisteredInfos, TypeOK
    <3>4. PortSet(retry[i]) = {retry[i][1], retry[i][2]}
          /\ PortSet(retry[i]) = PortSet(info[i].ports)
      BY <3>1, <3>2 DEF PortSet, NoPort, Ports, RetryKeepsPorts
    <3> DEFINE gone == {retry[i][1], retry[i][2]}
    <3>5. CASE stops
      <4>1. RetryKeepsPorts'
        BY <3>1, <3>3, <3>5 DEF RetryKeepsPorts, PendingRetry
      <4>2. Accounted(pool', Held \ gone)
        BY <1>0, <3>1, <3>5, ReleasePairAccounts
      <4>3. Held \ gone \subseteq Held'
        BY <3>1, <3>3, <3>4 DEF Held, EntryPorts, RetryPorts
      <4> HIDE DEF gone
      <4> QED BY <1>a, <4>1, <4>2, <4>3
    <3>6. CASE ~stops
      <4>1. pool' = pool /\ retry'[i] = <<retry[i][2], retry[i][1]>>
        BY <1>0, <3>1, <3>2, <3>6, SamePortsAgain
      <4>2. PortSet(retry'[i]) = PortSet(retry[i])
        BY <4>1 DEF PortSet
      <4>3. RetryKeepsPorts'
        BY <3>1, <3>3, <3>4, <4>2 DEF RetryKeepsPorts, PendingRetry
      <4>4. Held \ {} \subseteq Held'
        BY <3>1, <3>3, <4>2 DEF Held, EntryPorts, RetryPorts
      <4>5. Accounted(pool', Held \ {})
        BY <1>0, <4>1 DEF Accounted
      <4> QED BY <1>a, <4>3, <4>4, <4>5
    <3> QED BY <3>5, <3>6
  <2> QED BY <1>6, <2>1, <2>2, <2>3, <2>4, <2>5, <2>6, <2>7 DEF Monitor, RestartGoroutine
<1> QED BY <1>2, <1>3, <1>4, <1>5, <1>6 DEF Next, Caller

\* Every port ever handed out is on the stack, belongs to an entry of the map,
\* or waits with a restart goroutine, on every error path of the supervisor.
THEOREM NoPortLeakHolds == Spec => []NoPortLeak
<1>1. Init => RetryKeepsPorts /\ NoPortLeak
  BY MaxPortAssumption DEF Init, RetryKeepsPorts, RegisteredInfos, NoPortLeak, EmptyPool
<1>2. (RetryKeepsPorts /\ NoPortLeak) /\ (TypeOK /\ Control) /\ [Next]_vars
        => (RetryKeepsPorts /\ NoPortLeak)'
  BY PortsStep
<1> QED BY <1>1, <1>2, Invariance, PTL DEF Spec
-----------------------------------------------------------------------------
(***************************************************************************)
(* The supervisor implements the process table: the initial states map to  *)
(* the initial state of ProcessTable, and every step maps to one of its    *)
(* steps or leaves the table as it is.                                     *)
(***************************************************************************)
\* The refinement mapping.
tableEntry == [p \in Pipelines |->
    IF processes[p] = NoInfo THEN "absent" ELSE info[processes[p]].status]
tableAlive == [p \in Pipelines |->
    \E i \in Infos : Alive(i) /\ info[i].pipeline = p]

(***************************************************************************)
(* Control does not say which status an entry has while its monitor is     *)
(* waiting; the steps of the monitor depend on it.                         *)
(***************************************************************************)
PhaseConsistent ==
    \A i \in RegisteredInfos :
        /\ monitor[i] = "startup" => info[i].status = "STARTING"
        /\ monitor[i] \in {"waiting", "exited"} => info[i].status = "RUNNING"

Inv == TypeOK /\ Control /\ PhaseConsistent

-----------------------------------------------------------------------------
\* A new process is in its startup delay; the other entries do not change.
LEMMA SpawnPhase ==
    ASSUME Inv, NEW p \in Pipelines, NEW pair, Spawn(p, pair)
    PROVE  PhaseConsistent'
<1> PICK j \in Infos :
        /\ info' = [info EXCEPT ![j] =
              [pipeline |-> p, status |-> "STARTING", ports |-> pair]]
        /\ processes' = [processes EXCEPT ![p] = j]
        /\ monitor' = [monitor EXCEPT ![j] = "startup"]
  BY DEF Spawn
<1>1. info'[j].status = "STARTING" /\ monitor'[j] = "startup"
  BY DEF Inv, TypeOK
<1> SUFFICES ASSUME NEW i \in RegisteredInfos', i # j
             PROVE  /\ monitor'[i] = "startup" => info'[i].status = "STARTING"
                    /\ monitor'[i] \in {"waiting", "exited"} =>
                            info'[i].status = "RUNNING"
  BY <1>1 DEF PhaseConsistent
<1>2. i \in RegisteredInfos /\ i \in Infos
  BY DEF RegisteredInfos, Inv, TypeOK
<1>3. monitor'[i] = monitor[i] /\ info'[i] = info[i]
  BY <1>2 DEF Inv, TypeOK
<1> QED BY <1>2, <1>3 DEF Inv, PhaseConsistent

\* A step that registers nothing and changes neither monitors nor statuses.
LEMMA QuietPhase ==
    ASSUME Inv, RegisteredInfos' \subseteq RegisteredInfos,
           UNCHANGED <<monitor, info>>
    PROVE  PhaseConsistent'
BY DEF Inv, PhaseConsistent

LEMMA AllocateAndStartPhase ==
    ASSUME Inv, NEW p \in Pipelines, AllocateAndStart(p)
    PROVE  PhaseConsistent'
<1>1. CASE UNCHANGED <<processes, info, os, monitor>>
  BY <1>1, QuietPhase DEF RegisteredInfos
<1> QED BY <1>1, SpawnPhase DEF AllocateAndStart

\* Every step of the supervisor preserves PhaseConsistent.
LEMMA PhaseStep ==
    ASSUME Inv, [Next]_vars
    PROVE  PhaseConsistent'
<1> USE DEF supervisorVars, objectVars, callerVars
<1>1. ASSUME NEW p \in Pipelines, Start(p) PROVE PhaseConsistent'
  BY <1>1, AllocateAndStartPhase DEF Start
<1>2. ASSUME NEW p \in Pipelines, NEW op, Detach(op, p) PROVE PhaseConsistent'
  BY <1>2, QuietPhase DEF Detach, RegisteredInfos, Inv, TypeOK
<1>3. ASSUME NEW p \in Pipelines, Restart(p) PROVE PhaseConsistent'
  BY <1>2, <1>3, AllocateAndStartPhase DEF Restart
<1>4. CASE ShutdownAll
  <2>1. RegisteredInfos' = {} /\ UNCHANGED <<monitor, info>>
    BY <1>4 DEF ShutdownAll, RegisteredInfos
  <2> QED BY <2>1, QuietPhase
<1>5. CASE RestartFinishes
  <2>1. main.pipeline \in Pipelines
    BY <1>5 DEF RestartFinishes, Inv, TypeOK, Operations
  <2> QED BY <1>5, <2>1, AllocateAndStartPhase DEF RestartFinishes
<1>6. CASE OperationReturns
  BY <1>6, QuietPhase DEF OperationReturns, RegisteredInfos
<1>7. CASE UNCHANGED vars
  BY <1>7, QuietPhase DEF vars, RegisteredInfos
<1>8. ASSUME NEW i \in Infos,
             \/ ProcessExits(i) \/ StopProcess(i) \/ MonitorReplaced(i)
             \/ RestartAfterBailsOut(i)
      PROVE  PhaseConsistent'
  <2>1. CASE MonitorReplaced(i)
    BY <1>8, <2>1 DEF MonitorReplaced, Inv, TypeOK, PhaseConsistent, RegisteredInfos
  <2> QED BY <1>8, <2>1, QuietPhase DEF ProcessExits, StopProcess, KillAfterTimeout,
          StopProcessReturns, RestartAfterBailsOut, RegisteredInfos
<1>9. ASSUME NEW i \in Infos, Monitor(i), ~MonitorReplaced(i) PROVE PhaseConsistent'
  <2>1. /\ UNCHANGED processes
        /\ \A j \in Infos : j # i => info'[j] = info[j] /\ monitor'[j] = monitor[j]
    BY <1>9 DEF Monitor, MonitorStartupDelay, MonitorWaitReturns, MonitorCleanExit,
                MonitorCrash, Inv, TypeOK, InfoRecords
  <2>2. RegisteredInfos' = RegisteredInfos /\ RegisteredInfos \subseteq Infos
    BY <2>1 DEF RegisteredInfos, Inv, TypeOK
  <2>3. i \in RegisteredInfos => Registered(i)
    BY SupervisorAssumption DEF Inv, Control, MapConsistent, RegisteredInfos, Registered
  <2>4. i \in RegisteredInfos =>
            /\ monitor'[i] # "startup"
            /\ monitor'[i] \in {"waiting", "exited"} => info'[i].status = "RUNNING"
    BY <1>9, <2>3 DEF Monitor, MonitorStartupDelay, MonitorWaitReturns, MonitorCleanExit,
                MonitorCrash, Inv, PhaseConsistent, TypeOK, InfoRecords
  <2> QED BY <2>1, <2>2, <2>4 DEF Inv, PhaseConsistent
<1>10. ASSUME NEW i \in Infos, RestartAfterStarts(i) PROVE PhaseConsistent'
  BY <1>10, SpawnPhase DEF RestartAfterStarts, Inv, TypeOK, InfoRecords
<1>11. ASSUME NEW i \in Infos, RestartAfterFails(i) PROVE PhaseConsistent'
  <2>1. /\ UNCHANGED <<processes, monitor>>
        /\ \A j \in Infos : j # i => info'[j] = info[j]
        /\ Registered(i) /\ PendingRetry(i)
    BY <1>11 DEF RestartAfterFails, ReconcileFailedRestart, Inv, TypeOK, InfoRecords
  <2>2. RegisteredInfos' = RegisteredInfos /\ RegisteredInfos \subseteq Infos
    BY <2>1 DEF RegisteredInfos, Inv, TypeOK
  <2>3. i \in RegisteredInfos => monitor[i] = "none"
    BY <2>1 DEF Inv, Control, RetryOnlyAfterCrash
  <2> QED BY <2>1, <2>2, <2>3 DEF Inv, PhaseConsistent
<1> QED BY <1>1, <1>2, <1>3, <1>4, <1>5, <1>6, <1>7, <1>8, <1>9, <1>10, <1>11
        DEF Next, Caller, Stop, RestartInPlace, Monitor, RestartGoroutine

-----------------------------------------------------------------------------
\* A registered pipeline whose process has exited has no other process.
LEMMA RegisteredDead ==
    ASSUME Inv, NEW i \in Infos, Registered(i), ~Alive(i)
    PROVE  \A j \in Infos : Alive(j) => info[j].pipeline # info[i].pipeline
BY ControlOneProcess DEF Inv

\* The entry of a registered object is its own status.
LEMMA RegisteredEntry ==
    ASSUME Inv, NEW i \in Infos, Registered(i)
    PROVE  info[i].pipeline \in Pipelines
           /\ tableEntry[info[i].pipeline] = info[i].status
BY SupervisorAssumption DEF Inv, TypeOK, InfoRecords, Registered, tableEntry

\* The table depends on three variables only.
LEMMA TableStutters ==
    ASSUME UNCHANGED <<processes, info, os>>
    PROVE  UNCHANGED <<tableEntry, tableAlive>>
BY DEF tableEntry, tableAlive, Alive

\* The status of one registered object changes, and no process does.
LEMMA StatusMaps ==
    ASSUME Inv, NEW i \in Infos, Registered(i), NEW s,
           info' = [info EXCEPT ![i].status = s], UNCHANGED <<processes, os>>
    PROVE  /\ tableEntry' = [tableEntry EXCEPT ![info[i].pipeline] = s]
           /\ tableAlive' = tableAlive
<1>1. /\ \A j \in Infos : j # i => info'[j] = info[j]
      /\ \A j \in Infos : info'[j].pipeline = info[j].pipeline
      /\ info'[i].status = s
  BY DEF Inv, TypeOK, InfoRecords
<1>2. tableAlive' = tableAlive
  BY <1>1 DEF tableAlive, Alive
<1>3. \A q \in Pipelines : q # info[i].pipeline => processes[q] # i
  BY SupervisorAssumption DEF Inv, Control, MapConsistent
<1>4. \A q \in Pipelines : processes[q] \in Infos \cup {NoInfo}
  BY DEF Inv, TypeOK
<1>5. tableEntry' = [tableEntry EXCEPT ![info[i].pipeline] = s]
  <2>1. ASSUME NEW q \in Pipelines
        PROVE  (IF processes'[q] = NoInfo THEN "absent" ELSE info'[processes'[q]].status)
                    = IF q = info[i].pipeline THEN s ELSE tableEntry[q]
    <3>1. CASE q = info[i].pipeline
      BY <1>1, <3>1, SupervisorAssumption DEF Registered
    <3>2. CASE q # info[i].pipeline
      BY <1>1, <1>3, <1>4, <3>2 DEF tableEntry
    <3> QED BY <3>1, <3>2
  <2>2. tableEntry' = [q \in Pipelines |->
                            IF q = info[i].pipeline THEN s ELSE tableEntry[q]]
    BY <2>1 DEF tableEntry
  <2> QED BY <2>2 DEF tableEntry
<1> QED BY <1>2, <1>5

\* startProcess is a launch.
LEMMA SpawnMaps ==
    ASSUME Inv, NEW p \in Pipelines, NEW pair, Spawn(p, pair),
           tableEntry[p] \in {"absent", "CRASHED"},
           \A i \in Infos : Alive(i) => info[i].pipeline # p
    PROVE  Table!Launch(p)
<1> PICK j \in Infos :
        /\ Unused(j)
        /\ info' = [info EXCEPT ![j] =
              [pipeline |-> p, status |-> "STARTING", ports |-> pair]]
        /\ processes' = [processes EXCEPT ![p] = j]
        /\ os' = [os EXCEPT ![j] = "alive"]
  BY DEF Spawn
<1>1. /\ \A i \in Infos : i # j => info'[i] = info[i] /\ os'[i] = os[i]
      /\ info'[j].pipeline = p /\ info'[j].status = "STARTING" /\ os'[j] = "alive"
      /\ os[j] # "alive"
  BY DEF Inv, TypeOK, Unused
<1>2. \A q \in Pipelines : processes[q] # j
  BY SupervisorAssumption DEF Unused, Registered, Inv, Control, MapConsistent
<1>3. \A q \in Pipelines : processes[q] \in Infos \cup {NoInfo}
                           /\ processes'[q] = IF q = p THEN j ELSE processes[q]
  BY DEF Inv, TypeOK
<1>4. tableEntry' = [tableEntry EXCEPT ![p] = "STARTING"]
  <2>1. ASSUME NEW q \in Pipelines
        PROVE  (IF processes'[q] = NoInfo THEN "absent" ELSE info'[processes'[q]].status)
                    = IF q = p THEN "STARTING" ELSE tableEntry[q]
    <3>1. CASE q = p
      BY <1>1, <1>3, <3>1, SupervisorAssumption
    <3>2. CASE q # p
      BY <1>1, <1>2, <1>3, <3>2 DEF tableEntry
    <3> QED BY <3>1, <3>2
  <2> QED BY <2>1, Zenon DEF tableEntry
<1>5. ~tableAlive[p]
  BY DEF tableAlive
<1>6. tableAlive' = [tableAlive EXCEPT ![p] = TRUE]
  <2>1. ASSUME NEW q \in Pipelines, q # p
        PROVE  (\E i \in Infos : os'[i] = "alive" /\ info'[i].pipeline = q)
                    <=> (\E i \in Infos : os[i] = "alive" /\ info[i].pipeline = q)
    BY <1>1, <2>1
  <2>2. \E i \in Infos : os'[i] = "alive" /\ info'[i].pipeline = p
    BY <1>1
  <2>3. ASSUME NEW q \in Pipelines
        PROVE  (\E i \in Infos : os'[i] = "alive" /\ info'[i].pipeline = q)
                    = IF q = p THEN TRUE
                      ELSE \E i \in Infos : os[i] = "alive" /\ info[i].pipeline = q
    <3>1. CASE q = p
      BY <2>2, <3>1
    <3>2. CASE q # p
      BY <2>1, <3>2
    <3> QED BY <3>1, <3>2
  <2>4. tableAlive' = [q \in Pipelines |->
                IF q = p THEN TRUE
                ELSE \E i \in Infos : os[i] = "alive" /\ info[i].pipeline = q]
    BY <2>3, Zenon DEF tableAlive, Alive
  <2> QED BY <2>4, Zenon DEF tableAlive, Alive
<1> QED BY <1>4, <1>5, <1>6 DEF Table!Launch, tableEntry, tableAlive

\* Start, Restart and RestartInPlace launch a pipeline or change nothing.
LEMMA AllocateAndStartMaps ==
    ASSUME Inv, NEW p \in Pipelines, AllocateAndStart(p),
           processes[p] = NoInfo, stopping = {}
    PROVE  Table!Launch(p) \/ UNCHANGED <<tableEntry, tableAlive>>
<1>1. tableEntry[p] = "absent"
  BY DEF tableEntry
<1>2. \A i \in Infos : Alive(i) => info[i].pipeline # p
  BY SupervisorAssumption DEF Inv, Control, NoOrphanProcess, Registered
<1> QED BY <1>1, <1>2, SpawnMaps, TableStutters DEF AllocateAndStart

\* Every step of the supervisor is a step of the table, or none.
LEMMA RefinementStep ==
    ASSUME Inv, [Next]_vars
    PROVE  [Table!TableNext]_(Table!tableVars)
<1> DEFINE Stutter == UNCHANGED <<tableEntry, tableAlive>>
<1> SUFFICES Table!TableNext \/ Stutter
  BY DEF Table!tableVars, tableEntry, tableAlive
<1> USE DEF supervisorVars, objectVars, callerVars
<1>1. ASSUME NEW p \in Pipelines, Start(p) PROVE Table!TableNext \/ Stutter
  BY <1>1, AllocateAndStartMaps DEF Start, Table!TableNext, Inv, Control, CallerConsistent
<1>2. ASSUME NEW p \in Pipelines, NEW op, Detach(op, p)
      PROVE  Table!TableNext
  <2>1. /\ processes[p] # NoInfo /\ processes[p] \in Infos
        /\ processes' = [processes EXCEPT ![p] = NoInfo]
        /\ UNCHANGED <<info, os>>
    BY <1>2 DEF Detach, Inv, TypeOK
  <2>2. tableEntry' = [tableEntry EXCEPT ![p] = "absent"] /\ tableAlive' = tableAlive
    BY <2>1 DEF tableEntry, tableAlive, Alive, Inv, TypeOK
  <2>3. tableEntry[p] # "absent"
    BY <2>1 DEF tableEntry, Inv, TypeOK, InfoRecords, Statuses
  <2> QED BY <2>2, <2>3 DEF Table!TableNext, Table!Remove, tableEntry, tableAlive
<1>3. ASSUME NEW p \in Pipelines, Restart(p) PROVE Table!TableNext \/ Stutter
  BY <1>2, <1>3, AllocateAndStartMaps
     DEF Restart, Table!TableNext, Inv, Control, CallerConsistent
<1>4. CASE ShutdownAll
  <2>1. processes' = [p \in Pipelines |-> NoInfo] /\ UNCHANGED <<info, os>>
    BY <1>4 DEF ShutdownAll
  <2>2. tableEntry' = [p \in Pipelines |-> "absent"] /\ tableAlive' = tableAlive
    BY <2>1 DEF tableEntry, tableAlive, Alive
  <2> QED BY <2>2 DEF Table!TableNext, Table!RemoveAll, tableEntry, tableAlive
<1>5. CASE RestartFinishes
  <2>1. main.pipeline \in Pipelines /\ processes[main.pipeline] = NoInfo
    BY <1>5 DEF RestartFinishes, Inv, TypeOK, Operations, Control, CallerConsistent
  <2> QED BY <1>5, <2>1, AllocateAndStartMaps DEF RestartFinishes, Table!TableNext
<1>6. CASE OperationReturns \/ UNCHANGED vars
  BY <1>6, TableStutters DEF OperationReturns, vars
<1>7. ASSUME NEW i \in Infos, ProcessExits(i) \/ KillAfterTimeout(i)
      PROVE  Table!TableNext
  <2> DEFINE p == info[i].pipeline
  <2>1. /\ Alive(i) /\ os'[i] # "alive" /\ UNCHANGED <<processes, info>>
        /\ \A j \in Infos : j # i => os'[j] = os[j]
    BY <1>7 DEF ProcessExits, KillAfterTimeout, Alive, Inv, TypeOK
  <2>2. p \in Pipelines
    BY DEF Inv, TypeOK, InfoRecords
  <2>3. \A j \in Infos : Alive(j) /\ info[j].pipeline = p => j = i
    BY <2>1, ControlOneProcess DEF Inv
  <2>4. tableAlive[p] /\ tableEntry' = tableEntry
    BY <2>1, <2>2 DEF tableAlive, tableEntry
  <2>5. tableAlive' = [tableAlive EXCEPT ![p] = FALSE]
    BY <2>1, <2>2, <2>3 DEF tableAlive, Alive
  <2> QED BY <2>2, <2>4, <2>5 DEF Table!TableNext, Table!Exit, tableEntry, tableAlive
<1>8. ASSUME NEW i \in Infos,
             \/ StopProcessReturns(i) \/ MonitorWaitReturns(i) \/ MonitorReplaced(i)
             \/ RestartAfterBailsOut(i)
      PROVE  Stutter
  BY <1>8, TableStutters DEF StopProcessReturns, MonitorWaitReturns, MonitorReplaced,
                             RestartAfterBailsOut
<1>9. ASSUME NEW i \in Infos, MonitorStartupDelay(i) PROVE Table!TableNext \/ Stutter
  <2>1. CASE Registered(i) /\ info[i].status = "STARTING"
    <3>1. info' = [info EXCEPT ![i].status = "RUNNING"] /\ UNCHANGED <<processes, os>>
      BY <1>9, <2>1 DEF MonitorStartupDelay
    <3> DEFINE p == info[i].pipeline
    <3>2. p \in Pipelines /\ tableEntry[p] = "STARTING"
      BY <2>1, RegisteredEntry
    <3>3. tableEntry' = [tableEntry EXCEPT ![p] = "RUNNING"] /\ tableAlive' = tableAlive
      BY <2>1, <3>1, StatusMaps
    <3> QED BY <3>2, <3>3 DEF Table!TableNext, Table!Settle, tableEntry, tableAlive
  <2>2. CASE ~(Registered(i) /\ info[i].status = "STARTING")
    BY <1>9, <2>2, TableStutters DEF MonitorStartupDelay
  <2> QED BY <2>1, <2>2
<1>10. ASSUME NEW i \in Infos, MonitorCleanExit(i) \/ MonitorCrash(i)
       PROVE  Table!TableNext
  <2> DEFINE p == info[i].pipeline
  <2>1. Registered(i) /\ monitor[i] = "exited" /\ ~Alive(i)
    BY <1>10 DEF MonitorCleanExit, MonitorCrash, Alive
  <2>2. PICK s \in {"STOPPED", "CRASHED", "CRASH_LOOP"} :
            info' = [info EXCEPT ![i].status = s] /\ UNCHANGED <<processes, os>>
    BY <1>10 DEF MonitorCleanExit, MonitorCrash
  <2>3. info[i].status = "RUNNING"
    <3>1. i \in RegisteredInfos
      BY <2>1, RegisteredEntry, SupervisorAssumption DEF RegisteredInfos, Registered
    <3> QED BY <2>1, <3>1 DEF Inv, PhaseConsistent
  <2>4. p \in Pipelines /\ tableEntry[p] = "RUNNING"
    BY <2>1, <2>3, RegisteredEntry
  <2>5. ~tableAlive[p]
    BY <2>1, <2>4, RegisteredDead DEF tableAlive
  <2>6. tableEntry' = [tableEntry EXCEPT ![p] = s] /\ tableAlive' = tableAlive
    BY <2>1, <2>2, StatusMaps
  <2> QED BY <2>4, <2>5, <2>6
          DEF Table!TableNext, Table!NoticeCleanExit, Table!NoticeCrash,
              tableEntry, tableAlive
<1>11. ASSUME NEW i \in Infos, PendingRetry(i), Registered(i)
       PROVE  /\ info[i].pipeline \in Pipelines
              /\ tableEntry[info[i].pipeline] = "CRASHED"
              /\ \A j \in Infos : Alive(j) => info[j].pipeline # info[i].pipeline
  <2>1. i \in RegisteredInfos
    BY <1>11, RegisteredEntry, SupervisorAssumption DEF RegisteredInfos, Registered
  <2>2. info[i].status = "CRASHED" /\ ~Alive(i)
    BY <1>11, <2>1 DEF Inv, Control, RetryOnlyAfterCrash, Alive
  <2> QED BY <1>11, <2>2, RegisteredEntry, RegisteredDead
<1>12. ASSUME NEW i \in Infos, RestartAfterStarts(i) PROVE Table!TableNext
  BY <1>11, <1>12, SpawnMaps DEF RestartAfterStarts, Table!TableNext
<1>13. ASSUME NEW i \in Infos, RestartAfterFails(i) PROVE Table!TableNext \/ Stutter
  <2> DEFINE p == info[i].pipeline
  <2>1. PICK s \in {"CRASHED", "CRASH_LOOP"} :
            info' = [info EXCEPT ![i].status = s] /\ UNCHANGED <<processes, os>>
    BY <1>13 DEF RestartAfterFails, ReconcileFailedRestart
  <2>2. p \in Pipelines /\ tableEntry[p] = "CRASHED" /\ Registered(i)
    BY <1>11, <1>13 DEF RestartAfterFails
  <2>3. tableEntry' = [tableEntry EXCEPT ![p] = s] /\ tableAlive' = tableAlive
    BY <2>1, <2>2, StatusMaps
  <2>4. CASE s = "CRASHED"
    BY <2>2, <2>3, <2>4 DEF tableEntry
  <2>5. CASE s = "CRASH_LOOP"
    BY <2>2, <2>3, <2>5 DEF Table!TableNext, Table!GiveUpRestart, tableEntry, tableAlive
  <2> QED BY <2>4, <2>5
<1> QED BY <1>1, <1>2, <1>3, <1>4, <1>5, <1>6, <1>7, <1>8, <1>9, <1>10, <1>12, <1>13
        DEF Next, Caller, Stop, RestartInPlace, StopProcess, Monitor, RestartGoroutine

-----------------------------------------------------------------------------
\* Whatever the supervisor does is what a process table may do: an entry goes
\* through its statuses in order, and a process is launched only for a
\* pipeline that is absent or crashed and of which nothing runs.
THEOREM SupervisorRefinesProcessTable == Spec => ImplementsProcessTable
<1>1. Init => Inv /\ Table!TableInit
  <2> SUFFICES ASSUME Init PROVE Inv /\ Table!TableInit
    OBVIOUS
  <2>1. PhaseConsistent
    BY DEF Init, PhaseConsistent, RegisteredInfos
  <2>2. Table!TableInit
    BY DEF Init, Table!TableInit, Alive
  <2> QED BY <2>1, <2>2, InitControl DEF Inv
<1>2. Inv /\ [Next]_vars => Inv'
  BY TypeStep, ControlStep, PhaseStep DEF Inv, Control
<1>3. Inv /\ [Next]_vars => [Table!TableNext]_(Table!tableVars)
  BY RefinementStep
<1> QED BY <1>1, <1>2, <1>3, PTL DEF Spec, ImplementsProcessTable, Table!TableSpec
=============================================================================
