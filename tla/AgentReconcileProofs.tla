------------------------- MODULE AgentReconcileProofs -------------------------
(***************************************************************************)
(* What the agent believes it applied is what runs, for any pipelines,     *)
(* configs and versions, any failures and crashes, and any order of the    *)
(* server's changes, the main goroutine and the supervisor's goroutines.   *)
(***************************************************************************)
EXTENDS AgentReconcile, TLAPS

Busy(kinds, p) == current.kind \in kinds /\ current.pipeline = p

StopPending(p) == \E a \in todo : a.kind = "Stop" /\ a.pipeline = p

\* The process of p, its ProcessInfo and its file are all of one deployment.
RunsAs(p, config, version) ==
    /\ file[p] = config
    /\ running[p] = [yaml |-> config, secrets |-> config]
    /\ label[p].secrets = config
    /\ label[p].version = version

RunsKnown(p) == known[p] # NotKnown /\ RunsAs(p, known[p].config, known[p].version)

(***************************************************************************)
(* AppliedIsRunning is about the moments between two iterations.  While    *)
(* actions are applied, a pipeline may differ from what is known of it     *)
(* only if its own action is waiting (a Stop: the poll has dropped what    *)
(* was known) or in progress.                                              *)
(***************************************************************************)
Managed(p) ==
    entry[p] # "absent" =>
        StopPending(p) \/ Busy({"Start", "Restart"}, p) \/ RunsKnown(p)

\* A pipeline is known without an entry only in the middle of an operation
\* that has removed it, or because one was left behind.
Accounted(p) ==
    entry[p] = "absent" /\ known[p] # NotKnown =>
        \/ LeftBehind(p)
        \/ Busy({"Restart", "RestartInPlace"}, p)
        \/ current.kind = "SelfUpdate"

\* Only an operation that waits for it leaves a process without an entry.
Awaited(p) ==
    entry[p] = "absent" /\ alive[p] =>
        \/ Busy({"Stop", "RestartInPlace"}, p)
        \/ Busy({"Restart"}, p) /\ current.stage = "waiting"
        \/ current.kind = "SelfUpdate"

\* What the poll saw of a pipeline is still true when its action's turn comes.
TodoOK ==
    /\ todo # {} => current.kind \notin {"RestartInPlace", "SelfUpdate"}
    /\ \A a, b \in todo : a.pipeline = b.pipeline => a = b
    /\ \A a \in todo :
          /\ ~Busy({"Start", "Restart", "Stop"}, a.pipeline)
          /\ a.kind = "Start" =>
                known[a.pipeline] = NotKnown /\ entry[a.pipeline] = "absent"
          /\ a.kind = "UpdateVersion" =>
                known[a.pipeline] # NotKnown /\ known[a.pipeline].config = a.config
          /\ a.kind \in {"Start", "Restart"} => a.config \in ValidConfigs
          /\ a.kind = "Stop" => known[a.pipeline] = NotKnown

CurrentOK ==
    /\ current.kind \in {"Start", "Restart"} =>
          /\ current.config \in ValidConfigs
          /\ current.previous \in ValidConfigs \cup {NoConfig}
          /\ file[current.pipeline] = current.config
          /\ current.stage = "waiting" \/ (current.kind = "Start" /\ current.stage = "activated")
                => entry[current.pipeline] = "absent"
          /\ current.stage = "launched" =>
                /\ entry[current.pipeline] # "absent"
                /\ RunsAs(current.pipeline, current.config, current.version)
    /\ current.kind = "RestartInPlace" =>
          /\ entry[current.pipeline] = "absent"
          /\ file[current.pipeline] = current.config
          /\ known[current.pipeline] # NotKnown
          /\ known[current.pipeline].config = current.config
          /\ known[current.pipeline].version = current.version
    /\ current.kind = "Stop" =>
          entry[current.pipeline] = "absent" /\ known[current.pipeline] = NotKnown
    /\ current.kind = "SelfUpdate" => \A p \in Pipelines : entry[p] = "absent"

FilesAreValid == \A p \in Pipelines : file[p] \in ValidConfigs \cup {NoConfig}

Reconciled ==
    /\ \A p \in Pipelines : Managed(p) /\ Accounted(p) /\ Awaited(p)
    /\ TodoOK
    /\ CurrentOK
    /\ FilesAreValid
    /\ ChecksumDescribesProcess

Inv == TypeOK /\ Reconciled

-----------------------------------------------------------------------------
(***************************************************************************)
(* Types.                                                                  *)
(***************************************************************************)
LEMMA CurrentType ==
    ASSUME TypeOK
    PROVE  /\ current.kind \in {"nothing", "Start", "Restart", "RestartInPlace", "Stop", "SelfUpdate"}
           /\ current.kind = "nothing" <=> current = Nothing
           /\ current.kind \in {"Start", "Restart"} =>
                 current \in [kind: {"Start", "Restart"}, pipeline: Pipelines, config: Configs,
                              version: Versions, previous: Configs \cup {NoConfig},
                              stage: {"activated", "waiting", "launched"}]
           /\ current.kind = "RestartInPlace" =>
                 current \in [kind: {"RestartInPlace"}, pipeline: Pipelines, config: Configs,
                              version: Versions]
           /\ current.kind = "Stop" => current \in [kind: {"Stop"}, pipeline: Pipelines]
<1>1. current \in Operations
    BY DEF TypeOK
<1> QED
    BY <1>1 DEF Operations, Nothing

LEMMA TodoType ==
    ASSUME TypeOK, NEW a \in todo
    PROVE  /\ a.pipeline \in Pipelines
           /\ a.kind \in {"Start", "Restart", "UpdateVersion", "Stop"}
           /\ a.kind # "Stop" => a.config \in Configs /\ a.version \in Versions
           /\ a.kind = "Stop" => a \in [kind: {"Stop"}, pipeline: Pipelines]
<1>1. a \in Actions
    BY DEF TypeOK
<1> QED
    BY <1>1 DEF Actions

LEMMA InitType == Init => TypeOK
<1> SUFFICES ASSUME Init PROVE TypeOK
    OBVIOUS
<1>1. TableTypeOK
    BY DEF Init, TableInit, TableTypeOK, EntryStatuses
<1>2. current \in Operations
    BY DEF Init, Operations
<1>3. PICK c \in Configs, v \in Versions :
         /\ label = [p \in Pipelines |-> [version |-> v, secrets |-> c, checksum |-> NoConfig]]
         /\ running = [p \in Pipelines |-> [yaml |-> NoConfig, secrets |-> c]]
    BY DEF Init
<1>4. /\ label \in [Pipelines -> [version: Versions, secrets: Configs, checksum: Configs \cup {NoConfig}]]
      /\ running \in [Pipelines -> [yaml: Configs \cup {NoConfig}, secrets: Configs]]
    BY <1>3
<1> QED
    BY <1>1, <1>2, <1>4 DEF Init, TypeOK

\* The supervisor's table, whatever else happens.
LEMMA TableType ==
    ASSUME TableTypeOK, NEW p \in Pipelines,
           \/ Launch(p) \/ Remove(p) \/ RemoveAll \/ Exit(p) \/ Settle(p)
           \/ NoticeCleanExit(p) \/ NoticeCrash(p) \/ GiveUpRestart(p)
    PROVE  TableTypeOK'
BY DEF TableTypeOK, EntryStatuses, Launch, Remove, RemoveAll, Exit, Settle, NoticeCleanExit,
       NoticeCrash, GiveUpRestart

LEMMA PollType ==
    ASSUME TypeOK, Poll
    PROVE  TypeOK'
<1>1. \A p \in Served : deployed[p].config \in Configs /\ deployed[p].version \in Versions
    BY DEF TypeOK, Served, Deployments
<1>2. todo' \in SUBSET Actions
    BY <1>1 DEF Poll, ActionsNeeded, ActionFor, ToStart, ToRestart, ToUpdate, ToStop, Served, Actions
<1>3. /\ known' \in [Pipelines -> Deployments \cup {NotKnown}]
      /\ file' \in [Pipelines -> Configs \cup {NoConfig}]
    BY DEF Poll, TypeOK
<1> QED
    BY <1>2, <1>3 DEF Poll, TypeOK, TableTypeOK, serverVars, processVars, tableVars

LEMMA ServerType ==
    ASSUME TypeOK, Server
    PROVE  TypeOK'
BY DEF Server, Deploy, BreakReferences, BecomeCalm, TypeOK, TableTypeOK, processVars, tableVars

LEMMA StrandType ==
    ASSUME TypeOK, NEW P \in SUBSET Pipelines, Strand(P)
    PROVE  stranded' \in [Pipelines -> Configs \cup {NoConfig}]
<1>1. \A p \in Pipelines : known[p] # NotKnown => known[p].config \in Configs
    BY DEF TypeOK, Deployments
<1> QED
    BY <1>1 DEF TypeOK, Strand

LEMMA VectorType ==
    ASSUME TypeOK, NEW p \in Pipelines, StartVector(p),
           current.config \in Configs, current.version \in Versions
    PROVE  /\ TableTypeOK'
           /\ label' \in [Pipelines -> [version: Versions, secrets: Configs,
                                        checksum: Configs \cup {NoConfig}]]
           /\ running' \in [Pipelines -> [yaml: Configs \cup {NoConfig}, secrets: Configs]]
           /\ stranded' \in [Pipelines -> Configs \cup {NoConfig}]
<1>1. TableTypeOK'
    BY TableType DEF TypeOK, StartVector
<1>2. /\ [version |-> current.version, secrets |-> current.config, checksum |-> NoConfig]
           \in [version: Versions, secrets: Configs, checksum: Configs \cup {NoConfig}]
      /\ [yaml |-> file[p], secrets |-> current.config]
           \in [yaml: Configs \cup {NoConfig}, secrets: Configs]
    BY DEF TypeOK
<1> QED
    BY <1>1, <1>2 DEF TypeOK, StartVector

\* One action after the other.
LEMMA ActionType ==
    ASSUME TypeOK, NEW a \in todo, Activate(a) \/ UpdateVersion(a) \/ ApplyStop(a)
    PROVE  TypeOK'
<1>0. /\ a.pipeline \in Pipelines
      /\ a.kind # "Stop" => a.config \in Configs /\ a.version \in Versions
      /\ a.kind = "Stop" => a \in [kind: {"Stop"}, pipeline: Pipelines]
    BY TodoType
<1>1. todo' \in SUBSET Actions
    BY DEF TypeOK, Activate, UpdateVersion, ApplyStop, Take
<1>2. CASE Activate(a)
    <2>1. a.config \in Configs /\ a.version \in Versions /\ file[a.pipeline] \in Configs \cup {NoConfig}
        BY <1>0, <1>2 DEF Activate, TypeOK
    <2>2. current' \in Operations /\ file' \in [Pipelines -> Configs \cup {NoConfig}]
        BY <1>0, <1>2, <2>1 DEF Activate, TypeOK, Operations
    <2> QED
        BY <1>1, <1>2, <2>2 DEF Activate, TypeOK, TableTypeOK, serverVars, processVars, tableVars
<1>3. CASE UpdateVersion(a)
    <2>1. a.config \in Configs /\ a.version \in Versions
        BY <1>0, <1>3 DEF UpdateVersion
    <2>2. known' \in [Pipelines -> Deployments \cup {NotKnown}]
        BY <1>0, <1>3, <2>1 DEF UpdateVersion, TypeOK, Deployments
    <2>3. label' \in [Pipelines -> [version: Versions, secrets: Configs, checksum: Configs \cup {NoConfig}]]
        BY <1>0, <1>3, <2>1 DEF UpdateVersion, TypeOK
    <2> QED
        BY <1>1, <1>3, <2>2, <2>3 DEF UpdateVersion, TypeOK, TableTypeOK, serverVars, tableVars
<1>4. CASE ApplyStop(a)
    <2>1. TableTypeOK'
        BY <1>0, <1>4, TableType DEF ApplyStop, TypeOK, TableTypeOK, tableVars
    <2>2. current' \in Operations
        BY <1>0, <1>4 DEF ApplyStop, TypeOK, Operations
    <2> QED
        BY <1>1, <1>4, <2>1, <2>2 DEF ApplyStop, TypeOK, serverVars
<1> QED
    BY <1>2, <1>3, <1>4

\* Start, Restart and Stop, from one stage to the next.
LEMMA ApplyType ==
    ASSUME TypeOK, StopOld \/ ApplyLaunches \/ ApplyFails \/ MarkApplied \/ StopReturns
    PROVE  TypeOK'
<1> DEFINE p == current.pipeline
<1>0. current \in Operations /\ Nothing \in Operations
    BY DEF TypeOK, Operations
<1>1. CASE StopOld
    <2>1. current' \in Operations /\ p \in Pipelines
        BY <1>1, CurrentType DEF StopOld, Operations
    <2>2. TableTypeOK'
        BY <1>1, <2>1, TableType DEF StopOld, TypeOK
    <2> QED
        BY <1>1, <2>1, <2>2 DEF StopOld, TypeOK, serverVars
<1>2. CASE ApplyLaunches
    <2>1. current' \in Operations /\ p \in Pipelines /\ current.config \in Configs /\ current.version \in Versions
        BY <1>2, CurrentType DEF ApplyLaunches, MayLaunch, Operations
    <2>2. StartVector(p)
        BY <1>2 DEF ApplyLaunches
    <2> QED
        BY <1>2, <2>1, <2>2, VectorType DEF ApplyLaunches, TypeOK, serverVars
<1>3. CASE ApplyFails
    <2>1. current.previous \in Configs \cup {NoConfig}
        BY <1>3, CurrentType DEF ApplyFails, MayLaunch
    <2>2. file' \in [Pipelines -> Configs \cup {NoConfig}]
        BY <1>3, <2>1 DEF ApplyFails, TypeOK
    <2>3. stranded' \in [Pipelines -> Configs \cup {NoConfig}]
        BY <1>3, CurrentType, StrandType DEF ApplyFails, MayLaunch
    <2> QED
        BY <1>0, <1>3, <2>2, <2>3 DEF ApplyFails, TypeOK, TableTypeOK, serverVars, processVars, tableVars
<1>4. CASE MarkApplied
    <2>1. current.config \in Configs /\ current.version \in Versions
        BY <1>4, CurrentType DEF MarkApplied
    <2>2. known' \in [Pipelines -> Deployments \cup {NotKnown}]
        BY <1>4, <2>1 DEF MarkApplied, TypeOK, Deployments
    <2>3. label' \in [Pipelines -> [version: Versions, secrets: Configs, checksum: Configs \cup {NoConfig}]]
        BY <1>4, <2>1 DEF MarkApplied, TypeOK
    <2> QED
        BY <1>0, <1>4, <2>2, <2>3 DEF MarkApplied, TypeOK, TableTypeOK, serverVars, tableVars
<1>5. CASE StopReturns
    BY <1>0, <1>5 DEF StopReturns, TypeOK, TableTypeOK, serverVars, processVars, tableVars
<1> QED
    BY <1>1, <1>2, <1>3, <1>4, <1>5

\* A pushed restart, a self-update, a new agent.
LEMMA OtherOperationsType ==
    ASSUME TypeOK,
           \/ \E p \in Pipelines : PushRestart(p)
           \/ PushRestartLaunches \/ PushRestartFails \/ SelfUpdate
           \/ ExecFails \/ ExecSucceeds \/ AgentDies
    PROVE  TypeOK'
<1>0. Nothing \in Operations /\ [kind |-> "SelfUpdate"] \in Operations
    BY DEF Operations
<1>1. ASSUME NEW p \in Pipelines, PushRestart(p) PROVE TypeOK'
    <2>1. label[p].secrets \in Configs /\ label[p].version \in Versions
        BY DEF TypeOK
    <2>2. current' \in Operations
        BY <1>1, <2>1 DEF PushRestart, Operations
    <2>3. TableTypeOK'
        BY <1>1, TableType DEF PushRestart, TypeOK
    <2> QED
        BY <1>1, <2>2, <2>3 DEF PushRestart, TypeOK, serverVars
<1>2. CASE PushRestartLaunches
    <2>1. current.pipeline \in Pipelines /\ current.config \in Configs /\ current.version \in Versions
        BY <1>2, CurrentType DEF PushRestartLaunches
    <2> QED
        BY <1>0, <1>2, <2>1, VectorType DEF PushRestartLaunches, TypeOK, serverVars
<1>3. CASE SelfUpdate
    BY <1>0, <1>3 DEF SelfUpdate, RemoveAll, TypeOK, TableTypeOK, EntryStatuses, serverVars
<1>4. CASE PushRestartFails \/ ExecFails
    <2>1. stranded' \in [Pipelines -> Configs \cup {NoConfig}]
        BY <1>4, CurrentType, StrandType DEF PushRestartFails, ExecFails
    <2> QED
        BY <1>0, <1>4, <2>1 DEF PushRestartFails, ExecFails, TypeOK, TableTypeOK, serverVars, processVars, tableVars
<1>5. CASE ExecSucceeds \/ AgentDies
    BY <1>0, <1>5 DEF ExecSucceeds, AgentDies, FreshAgent, TypeOK, TableTypeOK, EntryStatuses, serverVars
<1> QED
    BY <1>1, <1>2, <1>3, <1>4, <1>5

LEMMA SupervisorType ==
    ASSUME TypeOK, NEW p \in Pipelines, SupervisorStep(p)
    PROVE  TypeOK'
<1>1. TableTypeOK'
    BY TableType DEF TypeOK, SupervisorStep, ProcessExits, MonitorNotices, RestartAttemptFails, CrashRestart
<1>2. CASE CrashRestart(p)
    <2>1. /\ [label[p] EXCEPT !.checksum = NoConfig]
               \in [version: Versions, secrets: Configs, checksum: Configs \cup {NoConfig}]
          /\ [yaml |-> file[p], secrets |-> label[p].secrets]
               \in [yaml: Configs \cup {NoConfig}, secrets: Configs]
        BY DEF TypeOK
    <2> QED
        BY <1>1, <1>2, <2>1 DEF CrashRestart, TypeOK, serverVars
<1>3. CASE ProcessExits(p) \/ MonitorNotices(p) \/ RestartAttemptFails(p)
    BY <1>1, <1>3 DEF ProcessExits, MonitorNotices, RestartAttemptFails, TypeOK, serverVars
<1> QED
    BY <1>2, <1>3 DEF SupervisorStep

LEMMA TypeStep == TypeOK /\ [Next]_vars => TypeOK'
<1> SUFFICES ASSUME TypeOK, [Next]_vars PROVE TypeOK'
    OBVIOUS
<1>1. CASE Apply
    BY <1>1, ActionType, ApplyType, OtherOperationsType DEF Apply
<1>2. CASE UNCHANGED vars
    BY <1>2 DEF vars, serverVars, processVars, tableVars, TypeOK, TableTypeOK
<1> QED
    BY <1>1, <1>2, ServerType, PollType, OtherOperationsType, SupervisorType DEF Next

-----------------------------------------------------------------------------
(***************************************************************************)
(* The steps that leave what is known, the files, the actions and the      *)
(* operation alone: those of the supervisor.                               *)
(***************************************************************************)
LEMMA InitReconciled == Init => Reconciled
<1> SUFFICES ASSUME Init PROVE Reconciled
    OBVIOUS
<1>1. /\ todo = {} /\ current.kind = "nothing"
      /\ \A p \in Pipelines : entry[p] = "absent" /\ alive[p] = FALSE /\ file[p] = NoConfig
                             /\ known[p] = NotKnown
    BY DEF Init, TableInit, Nothing
<1> QED
    BY <1>1 DEF Reconciled, Managed, Accounted, LeftBehind, Awaited, TodoOK, CurrentOK, FilesAreValid, ChecksumDescribesProcess

\* The process of an entry that stays is what it was.
LEMMA TableMoves ==
    ASSUME Inv, NEW p \in Pipelines,
           UNCHANGED <<serverVars, known, file, todo, current, label, running, stranded>>,
           entry' \in [Pipelines -> EntryStatuses],
           \A q \in Pipelines : entry'[q] = "absent" <=> entry[q] = "absent",
           \A q \in Pipelines : alive'[q] => alive[q]
    PROVE  Reconciled'
<1>1. \A q \in Pipelines : RunsKnown(q)' <=> RunsKnown(q)
    BY DEF RunsKnown, RunsAs
<1>2. \A q \in Pipelines : Managed(q)' /\ Accounted(q)' /\ Awaited(q)'
    BY <1>1 DEF Inv, Reconciled, Managed, Accounted, LeftBehind, Awaited, Busy, StopPending
<1>3. TodoOK' /\ FilesAreValid' /\ ChecksumDescribesProcess'
    BY TodoType DEF Inv, Reconciled, TodoOK, FilesAreValid, ChecksumDescribesProcess, Busy
<1>4. CurrentOK'
    BY CurrentType DEF Inv, Reconciled, CurrentOK, RunsAs
<1> QED
    BY <1>2, <1>3, <1>4 DEF Reconciled

LEMMA SupervisorReconciled ==
    ASSUME Inv, NEW p \in Pipelines, SupervisorStep(p)
    PROVE  Reconciled'
<1>0. TypeOK /\ TableTypeOK
    BY DEF Inv, TypeOK
<1>1. CASE ProcessExits(p) \/ MonitorNotices(p) \/ RestartAttemptFails(p)
    <2>1. entry' \in [Pipelines -> EntryStatuses]
        BY <1>0, <1>1 DEF ProcessExits, MonitorNotices, RestartAttemptFails, TableTypeOK, EntryStatuses,
            Exit, Settle, NoticeCleanExit, NoticeCrash, GiveUpRestart
    <2>2. \A q \in Pipelines : (entry'[q] = "absent" <=> entry[q] = "absent") /\ (alive'[q] => alive[q])
        BY <1>0, <1>1 DEF ProcessExits, MonitorNotices, RestartAttemptFails, TableTypeOK,
            Exit, Settle, NoticeCleanExit, NoticeCrash, GiveUpRestart
    <2> QED
        BY <1>1, <2>1, <2>2, TableMoves DEF ProcessExits, MonitorNotices, RestartAttemptFails
<1>2. CASE CrashRestart(p)
    <2>1. /\ UNCHANGED <<known, file, todo, current, stranded>>
          /\ entry[p] = "CRASHED" /\ entry'[p] # "absent"
          /\ \A q \in Pipelines \ {p} : entry'[q] = entry[q] /\ alive'[q] = alive[q]
        BY <1>0, <1>2 DEF CrashRestart, Launch, TableTypeOK
    <2>2. /\ running'[p] = [yaml |-> file[p], secrets |-> label[p].secrets]
          /\ label'[p].secrets = label[p].secrets /\ label'[p].version = label[p].version
          /\ label'[p].checksum = NoConfig
          /\ \A q \in Pipelines \ {p} : running'[q] = running[q] /\ label'[q] = label[q]
        BY <1>0, <1>2 DEF CrashRestart, TypeOK
    <2>3. \A q \in Pipelines : \A config, version : RunsAs(q, config, version) => RunsAs(q, config, version)'
        BY <2>1, <2>2 DEF RunsAs
    <2>4. ASSUME NEW q \in Pipelines PROVE Managed(q)' /\ Accounted(q)' /\ Awaited(q)'
        <3>1. RunsKnown(q) => RunsKnown(q)'
            BY <2>1, <2>3 DEF RunsKnown
        <3> QED
            BY <2>1, <3>1 DEF Inv, Reconciled, Managed, Accounted, LeftBehind, Awaited, Busy, StopPending
    <2>5. \A q \in Pipelines : entry'[q] = "absent" <=> entry[q] = "absent"
        BY <2>1
    <2>6. TodoOK'
        BY <1>0, <2>1, <2>5, TodoType DEF Inv, Reconciled, TodoOK, Busy
    <2>7. CurrentOK'
        <3>1. current.kind \in {"Start", "Restart", "RestartInPlace", "Stop"} => current.pipeline \in Pipelines
            BY <1>0, CurrentType
        <3>2. current.kind \in {"Start", "Restart"} /\ RunsAs(current.pipeline, current.config, current.version)
                 => RunsAs(current.pipeline, current.config, current.version)'
            BY <2>1, <2>3, <3>1 DEF RunsAs
        <3> QED
            BY <2>1, <2>5, <3>1, <3>2 DEF Inv, Reconciled, CurrentOK
    <2>8. FilesAreValid' /\ ChecksumDescribesProcess'
        BY <2>1, <2>2 DEF Inv, Reconciled, FilesAreValid, ChecksumDescribesProcess
    <2> QED
        BY <2>4, <2>6, <2>7, <2>8 DEF Reconciled
<1> QED
    BY <1>1, <1>2 DEF SupervisorStep

LEMMA ServerReconciled ==
    ASSUME Inv, Server \/ UNCHANGED vars
    PROVE  Reconciled'
<1>1. UNCHANGED <<known, file, todo, current, entry, alive, label, running, stranded>>
    BY DEF Server, Deploy, BreakReferences, BecomeCalm, vars, processVars, tableVars
<1>2. \A q \in Pipelines : Managed(q)' /\ Accounted(q)' /\ Awaited(q)'
    BY <1>1 DEF Inv, Reconciled, Managed, Accounted, LeftBehind, Awaited, Busy, StopPending, RunsKnown, RunsAs
<1>3. TodoOK' /\ CurrentOK' /\ FilesAreValid' /\ ChecksumDescribesProcess'
    BY <1>1 DEF Inv, Reconciled, TodoOK, CurrentOK, FilesAreValid, ChecksumDescribesProcess, Busy, RunsAs
<1> QED
    BY <1>2, <1>3 DEF Reconciled

\* Poll: what it drops of a pipeline, it stops.
LEMMA PollReconciled ==
    ASSUME Inv, Poll
    PROVE  Reconciled'
<1>0. TypeOK /\ todo = {} /\ current = Nothing /\ current.kind = "nothing"
    BY DEF Inv, Poll, Idle, Nothing
<1>1. UNCHANGED <<current, entry, alive, label, running>>
    BY DEF Poll, processVars, tableVars
<1>2. \A p \in Pipelines :
         /\ known'[p] = (IF p \in Served THEN known[p] ELSE NotKnown)
         /\ file'[p] = (IF p \in Served THEN file[p] ELSE NoConfig)
         /\ p \in Served => stranded'[p] = stranded[p]
    BY DEF Poll
<1>3. \A a \in todo' :
         \/ \E p \in ToStart   : a = ActionFor("Start", p)
         \/ \E p \in ToRestart : a = ActionFor("Restart", p)
         \/ \E p \in ToUpdate  : a = ActionFor("UpdateVersion", p)
         \/ \E p \in ToStop    : a = [kind |-> "Stop", pipeline |-> p]
    BY DEF Poll, ActionsNeeded
<1>4. \A p \in Pipelines : entry[p] # "absent" => RunsKnown(p)
    BY <1>0 DEF Inv, Reconciled, Managed, StopPending, Busy
<1>5. ASSUME NEW p \in Pipelines PROVE Managed(p)' /\ Accounted(p)' /\ Awaited(p)'
    <2>1. Awaited(p)'
        BY <1>0, <1>1 DEF Inv, Reconciled, Awaited, Busy
    <2>4. Accounted(p)'
        BY <1>0, <1>1, <1>2 DEF Inv, Reconciled, Accounted, LeftBehind, Busy
    <2>2. CASE p \in Served
        BY <1>1, <1>2, <1>4, <2>1, <2>2, <2>4 DEF Managed, RunsKnown, RunsAs
    <2>3. CASE p \notin Served /\ entry[p] # "absent"
        <3>1. p \in ToStop
            BY <1>4, <2>3 DEF ToStop, RunsKnown
        <3>2. [kind |-> "Stop", pipeline |-> p] \in todo'
            BY <3>1 DEF Poll, ActionsNeeded
        <3> QED
            BY <2>1, <2>4, <3>2 DEF Managed, StopPending
    <2> QED
        BY <1>1, <2>1, <2>2, <2>3, <2>4 DEF Managed
<1>6. TodoOK'
    <2>1. \A a \in todo' : /\ a.pipeline \in Pipelines
                           /\ a.kind = "Start" => a.pipeline \in ToStart
                           /\ a.kind = "Restart" => a.pipeline \in ToRestart
                           /\ a.kind = "UpdateVersion" => a.pipeline \in ToUpdate
                           /\ a.kind = "Stop" => a.pipeline \in ToStop
                           /\ a.kind \in {"Start", "Restart", "UpdateVersion"}
                                => a = ActionFor(a.kind, a.pipeline)
                           /\ a.kind = "Stop" => a = [kind |-> "Stop", pipeline |-> a.pipeline]
                           /\ a.kind \in {"Start", "Restart", "UpdateVersion", "Stop"}
        BY <1>3 DEF ActionFor, ToStart, ToRestart, ToUpdate, ToStop, Served
    <2>2. /\ ToStart \cap ToRestart = {} /\ ToStart \cap ToUpdate = {} /\ ToStart \cap ToStop = {}
          /\ ToRestart \cap ToUpdate = {} /\ ToRestart \cap ToStop = {} /\ ToUpdate \cap ToStop = {}
        BY DEF ToStart, ToRestart, ToUpdate, ToStop, Changed, Bumped
    <2>3. \A a, b \in todo' : a.pipeline = b.pipeline => a = b
        BY <2>1, <2>2
    <2>4. ASSUME NEW a \in todo'
          PROVE  /\ a.kind = "Start" => known'[a.pipeline] = NotKnown /\ entry'[a.pipeline] = "absent"
                 /\ a.kind = "UpdateVersion" =>
                       known'[a.pipeline] # NotKnown /\ known'[a.pipeline].config = a.config
                 /\ a.kind \in {"Start", "Restart"} => a.config \in ValidConfigs
                 /\ a.kind = "Stop" => known'[a.pipeline] = NotKnown
        BY <1>1, <1>2, <1>4, <2>1 DEF ActionFor, ToStart, ToRestart, ToUpdate, ToStop, Bumped, Valid, RunsKnown, Served
    <2> QED
        BY <1>0, <1>1, <2>3, <2>4 DEF TodoOK, Busy
<1>7. CurrentOK'
    BY <1>0, <1>1 DEF CurrentOK
<1>8. FilesAreValid' /\ ChecksumDescribesProcess'
    BY <1>1, <1>2 DEF Inv, Reconciled, FilesAreValid, ChecksumDescribesProcess
<1> QED
    BY <1>5, <1>6, <1>7, <1>8 DEF Reconciled

-----------------------------------------------------------------------------
(***************************************************************************)
(* The main goroutine.                                                     *)
(***************************************************************************)
\* An action is taken: no other one is for its pipeline.
LEMMA TakenAlone ==
    ASSUME Inv, NEW a \in todo, Take(a)
    PROVE  /\ current = Nothing /\ current.kind = "nothing"
           /\ todo' = todo \ {a}
           /\ \A b \in todo' : b \in todo /\ b.pipeline # a.pipeline
           /\ \A q \in Pipelines \ {a.pipeline} : StopPending(q)' <=> StopPending(q)
<1>1. current = Nothing /\ todo' = todo \ {a}
    BY DEF Take
<1> QED
    BY <1>1 DEF Inv, Reconciled, TodoOK, StopPending, Nothing

LEMMA ActivateReconciled ==
    ASSUME Inv, NEW a \in todo, Activate(a)
    PROVE  Reconciled'
<1> DEFINE p == a.pipeline
<1>0. TypeOK /\ p \in Pipelines /\ a.config \in ValidConfigs /\ a.kind \in {"Start", "Restart"}
    BY TodoType DEF Inv, Reconciled, TodoOK, Activate
<1>1. /\ current.kind = "nothing"
      /\ \A b \in todo' : b \in todo /\ b.pipeline # p
      /\ \A q \in Pipelines \ {p} : StopPending(q)' <=> StopPending(q)
    BY TakenAlone DEF Activate
<1>2. UNCHANGED <<known, entry, alive, label, running, stranded>>
    BY DEF Activate, processVars, tableVars
<1>3. ~StopPending(p)
    BY <1>0 DEF Inv, Reconciled, TodoOK, StopPending
<1>4. a.kind = "Start" => entry[p] = "absent"
    BY DEF Inv, Reconciled, TodoOK
<1>5. CASE UNCHANGED <<file, current>>
    <2>1. ASSUME NEW q \in Pipelines PROVE Managed(q)' /\ Accounted(q)' /\ Awaited(q)'
        <3>1. RunsKnown(q)' <=> RunsKnown(q)
            BY <1>2, <1>5 DEF RunsKnown, RunsAs
        <3> QED
            BY <1>1, <1>2, <1>3, <1>5, <3>1 DEF Inv, Reconciled, Managed, Accounted, LeftBehind, Awaited, Busy
    <2>2. TodoOK' /\ CurrentOK' /\ FilesAreValid' /\ ChecksumDescribesProcess'
        BY <1>1, <1>2, <1>5 DEF Inv, Reconciled, TodoOK, CurrentOK, FilesAreValid,
            ChecksumDescribesProcess, Busy
    <2> QED
        BY <2>1, <2>2 DEF Reconciled
<1>6. CASE /\ file' = [file EXCEPT ![p] = a.config]
           /\ current' = [kind |-> a.kind, pipeline |-> p, config |-> a.config,
                          version |-> a.version, previous |-> file[p], stage |-> "activated"]
    <2>1. /\ file'[p] = a.config /\ \A q \in Pipelines \ {p} : file'[q] = file[q]
          /\ file[p] \in ValidConfigs \cup {NoConfig}
        BY <1>0, <1>6 DEF TypeOK, Inv, Reconciled, FilesAreValid
    <2>2. /\ current'.kind = a.kind /\ current'.pipeline = p /\ current'.config = a.config
          /\ current'.previous = file[p] /\ current'.stage = "activated"
        BY <1>6
    <2>3. ASSUME NEW q \in Pipelines PROVE Managed(q)' /\ Accounted(q)' /\ Awaited(q)'
        <3>1. CASE q = p
            BY <1>0, <1>1, <1>2, <2>2, <3>1 DEF Inv, Reconciled, Managed, Accounted, LeftBehind, Awaited, Busy
        <3>2. CASE q # p
            <4>1. RunsKnown(q)' <=> RunsKnown(q)
                BY <1>2, <2>1, <3>2 DEF RunsKnown, RunsAs
            <4> QED
                BY <1>1, <1>2, <2>2, <3>2, <4>1 DEF Inv, Reconciled, Managed, Accounted, LeftBehind, Awaited, Busy
        <3> QED
            BY <3>1, <3>2
    <2>4. TodoOK'
        BY <1>0, <1>1, <1>2, <2>2 DEF Inv, Reconciled, TodoOK, Busy
    <2>5. CurrentOK'
        BY <1>0, <1>2, <1>4, <2>1, <2>2 DEF CurrentOK
    <2>6. FilesAreValid' /\ ChecksumDescribesProcess'
        BY <1>0, <1>2, <2>1 DEF Inv, Reconciled, FilesAreValid, ChecksumDescribesProcess
    <2> QED
        BY <2>3, <2>4, <2>5, <2>6 DEF Reconciled
<1> QED
    BY <1>5, <1>6 DEF Activate

LEMMA UpdateVersionReconciled ==
    ASSUME Inv, NEW a \in todo, UpdateVersion(a)
    PROVE  Reconciled'
<1> DEFINE p == a.pipeline
<1>0. TypeOK /\ p \in Pipelines /\ a.kind = "UpdateVersion"
    BY TodoType DEF Inv, UpdateVersion
<1>1. /\ current = Nothing /\ current.kind = "nothing"
      /\ \A b \in todo' : b \in todo /\ b.pipeline # p
      /\ \A q \in Pipelines \ {p} : StopPending(q)' <=> StopPending(q)
    BY TakenAlone DEF UpdateVersion
<1>2. UNCHANGED <<file, current, entry, alive, running, stranded>>
    BY DEF UpdateVersion, tableVars
<1>3. known[p] # NotKnown /\ known[p].config = a.config /\ ~StopPending(p)
    BY <1>0 DEF Inv, Reconciled, TodoOK, StopPending
<1>4. /\ known'[p] = [config |-> a.config, version |-> a.version]
      /\ label'[p].version = a.version /\ label'[p].secrets = label[p].secrets
      /\ label'[p].checksum = label[p].checksum
      /\ \A q \in Pipelines \ {p} : known'[q] = known[q] /\ label'[q] = label[q]
    BY <1>0 DEF UpdateVersion, TypeOK
<1>5. a.config \in Configs /\ a.version \in Versions /\ known'[p] # NotKnown
    BY <1>0, <1>4, TodoType, ReconcileAssumption
<1>6. ASSUME NEW q \in Pipelines PROVE Managed(q)' /\ Accounted(q)' /\ Awaited(q)'
    <2>1. CASE q = p
        <3>1. RunsKnown(p) => RunsKnown(p)'
            BY <1>2, <1>3, <1>4, <1>5 DEF RunsKnown, RunsAs
        <3>2. LeftBehind(p) => LeftBehind(p)'
            BY <1>2, <1>3, <1>4, <1>5 DEF LeftBehind
        <3> QED
            BY <1>1, <1>2, <1>3, <2>1, <3>1, <3>2 DEF Inv, Reconciled, Managed, Accounted, Awaited, Busy
    <2>2. CASE q # p
        <3>1. RunsKnown(q)' <=> RunsKnown(q)
            BY <1>2, <1>4, <2>2 DEF RunsKnown, RunsAs
        <3>2. LeftBehind(q)' <=> LeftBehind(q)
            BY <1>2, <1>4, <2>2 DEF LeftBehind
        <3> QED
            BY <1>1, <1>2, <1>4, <2>2, <3>1, <3>2 DEF Inv, Reconciled, Managed, Accounted, Awaited, Busy
    <2> QED
        BY <2>1, <2>2
<1>7. TodoOK' /\ CurrentOK'
    <2>1. \A b \in todo' : b.pipeline \in Pipelines /\ known'[b.pipeline] = known[b.pipeline]
        BY <1>0, <1>1, <1>4, TodoType
    <2> QED
        BY <1>1, <1>2, <2>1 DEF Inv, Reconciled, TodoOK, CurrentOK, Busy
<1>8. FilesAreValid' /\ ChecksumDescribesProcess'
    BY <1>2, <1>4 DEF Inv, Reconciled, FilesAreValid, ChecksumDescribesProcess
<1> QED
    BY <1>6, <1>7, <1>8 DEF Reconciled

LEMMA ApplyStopReconciled ==
    ASSUME Inv, NEW a \in todo, ApplyStop(a)
    PROVE  Reconciled'
<1> DEFINE p == a.pipeline
<1>0. TypeOK /\ p \in Pipelines /\ a.kind = "Stop" /\ known[p] = NotKnown
    BY TodoType DEF Inv, Reconciled, TodoOK, ApplyStop
<1>1. /\ current = Nothing /\ current.kind = "nothing"
      /\ \A b \in todo' : b \in todo /\ b.pipeline # p
      /\ \A q \in Pipelines \ {p} : StopPending(q)' <=> StopPending(q)
    BY TakenAlone DEF ApplyStop
<1>2. UNCHANGED <<known, file, alive, label, running, stranded>>
    BY DEF ApplyStop, Remove, tableVars
<1>3. /\ entry'[p] = "absent" /\ \A q \in Pipelines \ {p} : entry'[q] = entry[q]
      /\ current' = a \/ (current' = current /\ entry[p] = "absent")
    BY <1>0 DEF ApplyStop, Remove, tableVars, TypeOK, TableTypeOK
<1>4. ASSUME NEW q \in Pipelines PROVE Managed(q)' /\ Accounted(q)' /\ Awaited(q)'
    <2>1. RunsKnown(q)' <=> RunsKnown(q)
        BY <1>2 DEF RunsKnown, RunsAs
    <2>2. CASE q = p
        BY <1>0, <1>1, <1>2, <1>3, <2>2 DEF Inv, Reconciled, Managed, Accounted, LeftBehind, Awaited, Busy
    <2>3. CASE q # p
        BY <1>0, <1>1, <1>2, <1>3, <2>1, <2>3 DEF Inv, Reconciled, Managed, Accounted, LeftBehind, Awaited, Busy
    <2> QED
        BY <2>2, <2>3
<1>5. TodoOK'
    <2>1. \A b \in todo' : b.pipeline \in Pipelines /\ entry'[b.pipeline] = entry[b.pipeline]
        BY <1>0, <1>1, <1>3, TodoType
    <2> QED
        BY <1>0, <1>1, <1>2, <1>3, <2>1 DEF Inv, Reconciled, TodoOK, Busy
<1>6. CurrentOK'
    BY <1>0, <1>1, <1>2, <1>3 DEF CurrentOK
<1>7. FilesAreValid' /\ ChecksumDescribesProcess'
    BY <1>0, <1>2, <1>3 DEF Inv, Reconciled, FilesAreValid, ChecksumDescribesProcess
<1> QED
    BY <1>4, <1>5, <1>6, <1>7 DEF Reconciled

\* A step of the operation in progress does not concern the other pipelines.
LEMMA OthersManaged ==
    ASSUME Inv, NEW p \in Pipelines, NEW q \in Pipelines, q # p,
           current.kind = "nothing" \/ (current.kind # "SelfUpdate" /\ current.pipeline = p),
           todo' = todo,
           known'[q] = known[q], file'[q] = file[q], entry'[q] = entry[q],
           alive'[q] = alive[q], label'[q] = label[q], running'[q] = running[q],
           stranded'[q] = stranded[q]
    PROVE  Managed(q)' /\ Accounted(q)' /\ Awaited(q)'
<1>1. RunsKnown(q)' <=> RunsKnown(q)
    BY DEF RunsKnown, RunsAs
<1>2. StopPending(q)' <=> StopPending(q)
    BY DEF StopPending
<1> QED
    BY <1>1, <1>2 DEF Inv, Reconciled, Managed, Accounted, LeftBehind, Awaited, Busy

LEMMA StopOldReconciled ==
    ASSUME Inv, StopOld
    PROVE  Reconciled'
<1> DEFINE p == current.pipeline
<1>0. /\ TypeOK /\ p \in Pipelines /\ current.kind = "Restart"
      /\ current \in [kind: {"Start", "Restart"}, pipeline: Pipelines, config: Configs,
                      version: Versions, previous: Configs \cup {NoConfig},
                      stage: {"activated", "waiting", "launched"}]
    BY CurrentType DEF Inv, StopOld
<1>1. UNCHANGED <<known, file, todo, alive, label, running, stranded>>
    BY DEF StopOld, Remove
<1>2. entry'[p] = "absent" /\ \A q \in Pipelines \ {p} : entry'[q] = entry[q]
    BY <1>0 DEF StopOld, Remove, TypeOK, TableTypeOK
<1>3. /\ current'.kind = "Restart" /\ current'.pipeline = p /\ current'.stage = "waiting"
      /\ current'.config = current.config /\ current'.previous = current.previous
    BY <1>0 DEF StopOld
<1>4. ASSUME NEW q \in Pipelines PROVE Managed(q)' /\ Accounted(q)' /\ Awaited(q)'
    <2>1. CASE q = p
        BY <1>2, <1>3, <2>1 DEF Managed, Accounted, LeftBehind, Awaited, Busy
    <2>2. CASE q # p
        BY <1>0, <1>1, <1>2, <2>2, OthersManaged
    <2> QED
        BY <2>1, <2>2
<1>5. TodoOK'
    <2>1. \A b \in todo : b.pipeline \in Pipelines /\ b.pipeline # p
        BY <1>0, TodoType DEF Inv, Reconciled, TodoOK, Busy
    <2> QED
        BY <1>0, <1>1, <1>2, <1>3, <2>1 DEF Inv, Reconciled, TodoOK, Busy
<1>6. CurrentOK'
    BY <1>0, <1>1, <1>2, <1>3 DEF Inv, Reconciled, CurrentOK
<1>7. FilesAreValid' /\ ChecksumDescribesProcess'
    BY <1>0, <1>1, <1>2 DEF Inv, Reconciled, FilesAreValid, ChecksumDescribesProcess
<1> QED
    BY <1>4, <1>5, <1>6, <1>7 DEF Reconciled

\* What startProcess does for the operation in progress.
LEMMA VectorStarts ==
    ASSUME Inv, NEW p \in Pipelines, StartVector(p), file[p] = current.config
    PROVE  /\ entry'[p] # "absent"
           /\ running'[p] = [yaml |-> current.config, secrets |-> current.config]
           /\ label'[p].secrets = current.config /\ label'[p].version = current.version
           /\ label'[p].checksum = NoConfig
           /\ \A q \in Pipelines \ {p} : /\ entry'[q] = entry[q] /\ alive'[q] = alive[q]
                                         /\ label'[q] = label[q] /\ running'[q] = running[q]
                                         /\ stranded'[q] = stranded[q]
BY DEF Inv, TypeOK, TableTypeOK, StartVector, Launch

LEMMA LaunchReconciled ==
    ASSUME Inv, ApplyLaunches
    PROVE  Reconciled'
<1> DEFINE p == current.pipeline
<1>0. /\ TypeOK /\ p \in Pipelines /\ current.kind \in {"Start", "Restart"}
      /\ current \in [kind: {"Start", "Restart"}, pipeline: Pipelines, config: Configs,
                      version: Versions, previous: Configs \cup {NoConfig},
                      stage: {"activated", "waiting", "launched"}]
    BY CurrentType DEF Inv, ApplyLaunches, MayLaunch
<1>1. UNCHANGED <<known, file, todo>> /\ StartVector(p)
    BY DEF ApplyLaunches
<1>2. /\ file[p] = current.config /\ current.config \in ValidConfigs
      /\ current.previous \in ValidConfigs \cup {NoConfig}
    BY <1>0 DEF Inv, Reconciled, CurrentOK
<1>3. /\ current'.kind = current.kind /\ current'.pipeline = p /\ current'.stage = "launched"
      /\ current'.config = current.config /\ current'.previous = current.previous
      /\ current'.version = current.version
    BY <1>0 DEF ApplyLaunches
<1>4. /\ entry'[p] # "absent"
      /\ running'[p] = [yaml |-> current.config, secrets |-> current.config]
      /\ label'[p].secrets = current.config /\ label'[p].version = current.version
      /\ label'[p].checksum = NoConfig
      /\ \A q \in Pipelines \ {p} : /\ entry'[q] = entry[q] /\ alive'[q] = alive[q]
                                    /\ label'[q] = label[q] /\ running'[q] = running[q]
                                    /\ stranded'[q] = stranded[q]
    BY <1>0, <1>1, <1>2, VectorStarts
<1>5. ASSUME NEW q \in Pipelines PROVE Managed(q)' /\ Accounted(q)' /\ Awaited(q)'
    <2>1. CASE q = p
        BY <1>0, <1>3, <1>4, <2>1 DEF Managed, Accounted, LeftBehind, Awaited, Busy
    <2>2. CASE q # p
        BY <1>0, <1>1, <1>4, <2>2, OthersManaged
    <2> QED
        BY <2>1, <2>2
<1>6. TodoOK'
    <2>1. \A b \in todo : b.pipeline \in Pipelines /\ b.pipeline # p
        BY <1>0, TodoType DEF Inv, Reconciled, TodoOK, Busy
    <2> QED
        BY <1>0, <1>1, <1>3, <1>4, <2>1 DEF Inv, Reconciled, TodoOK, Busy
<1>7. CurrentOK'
    BY <1>0, <1>1, <1>2, <1>3, <1>4 DEF CurrentOK, RunsAs
<1>8. FilesAreValid' /\ ChecksumDescribesProcess'
    BY <1>1, <1>2, <1>4 DEF Inv, Reconciled, FilesAreValid, ChecksumDescribesProcess
<1> QED
    BY <1>5, <1>6, <1>7, <1>8 DEF Reconciled

\* What is known without an entry when an operation fails was left behind.
LEMMA Stranded ==
    ASSUME Inv, NEW P \in SUBSET Pipelines, Strand(P), known' = known, NEW p \in Pipelines
    PROVE  /\ p \in P /\ known[p] # NotKnown => LeftBehind(p)'
           /\ LeftBehind(p) => LeftBehind(p)'
           /\ p \notin P => stranded'[p] = stranded[p]
BY DEF Strand, LeftBehind

LEMMA ApplyFailsReconciled ==
    ASSUME Inv, ApplyFails
    PROVE  Reconciled'
<1> DEFINE p == current.pipeline
<1>0. TypeOK /\ p \in Pipelines /\ current.kind \in {"Start", "Restart"}
    BY CurrentType DEF Inv, ApplyFails, MayLaunch
<1>1. UNCHANGED <<known, todo, entry, alive, label, running>> /\ Strand({p}) /\ current' = Nothing /\ current'.kind = "nothing"
    BY DEF ApplyFails, processVars, tableVars, Nothing
<1>2. entry[p] = "absent" /\ ~alive[p]
    BY <1>0 DEF ApplyFails, MayLaunch, Inv, Reconciled, CurrentOK
<1>3. /\ file'[p] \in ValidConfigs \cup {NoConfig}
      /\ \A q \in Pipelines \ {p} : file'[q] = file[q]
    BY <1>0 DEF ApplyFails, Inv, TypeOK, Reconciled, CurrentOK, FilesAreValid
<1>4. ASSUME NEW q \in Pipelines PROVE Managed(q)' /\ Accounted(q)' /\ Awaited(q)'
    <2>1. CASE q = p
        BY <1>0, <1>1, <1>2, <2>1, Stranded DEF Managed, Accounted, Awaited
    <2>2. CASE q # p
        BY <1>0, <1>1, <1>3, <2>2, OthersManaged, Stranded
    <2> QED
        BY <2>1, <2>2
<1>5. TodoOK' /\ CurrentOK'
    BY <1>1 DEF Inv, Reconciled, TodoOK, CurrentOK, Busy
<1>6. FilesAreValid' /\ ChecksumDescribesProcess'
    BY <1>1, <1>3 DEF Inv, Reconciled, FilesAreValid, ChecksumDescribesProcess
<1> QED
    BY <1>4, <1>5, <1>6 DEF Reconciled

LEMMA MarkAppliedReconciled ==
    ASSUME Inv, MarkApplied
    PROVE  Reconciled'
<1> DEFINE p == current.pipeline
<1>0. /\ TypeOK /\ p \in Pipelines /\ current.kind \in {"Start", "Restart"}
      /\ current.stage = "launched" /\ current.config \in Configs /\ current.version \in Versions
    BY CurrentType DEF Inv, MarkApplied
<1>1. UNCHANGED <<file, todo, entry, alive, running, stranded>> /\ current' = Nothing /\ current'.kind = "nothing"
    BY DEF MarkApplied, tableVars, Nothing
<1>2. /\ known'[p] = [config |-> current.config, version |-> current.version]
      /\ label'[p].version = label[p].version /\ label'[p].secrets = label[p].secrets
      /\ label'[p].checksum = current.config
      /\ \A q \in Pipelines \ {p} : known'[q] = known[q] /\ label'[q] = label[q]
    BY <1>0 DEF MarkApplied, TypeOK
<1>3. known'[p] # NotKnown
    BY <1>0, <1>2, ReconcileAssumption
<1>4. entry[p] # "absent" /\ RunsAs(p, current.config, current.version)
    BY <1>0 DEF Inv, Reconciled, CurrentOK
<1>6. ASSUME NEW q \in Pipelines PROVE Managed(q)' /\ Accounted(q)' /\ Awaited(q)'
    <2>1. CASE q = p
        <3>1. RunsKnown(q)'
            BY <1>1, <1>2, <1>3, <1>4, <2>1 DEF RunsKnown, RunsAs
        <3> QED
            BY <1>1, <1>4, <2>1, <3>1 DEF Managed, Accounted, Awaited
    <2>2. CASE q # p
        BY <1>0, <1>1, <1>2, <2>2, OthersManaged
    <2> QED
        BY <2>1, <2>2
<1>7. TodoOK'
    <2>1. \A b \in todo : b.pipeline \in Pipelines /\ b.pipeline # p
        BY <1>0, TodoType DEF Inv, Reconciled, TodoOK, Busy
    <2> QED
        BY <1>1, <1>2, <2>1 DEF Inv, Reconciled, TodoOK, Busy
<1>8. CurrentOK' /\ FilesAreValid'
    BY <1>1 DEF Inv, Reconciled, CurrentOK, FilesAreValid
<1>9. ChecksumDescribesProcess'
    <2>1. current.config \in ValidConfigs
        BY <1>0 DEF Inv, Reconciled, CurrentOK
    <2> QED
        BY <1>0, <1>1, <1>2, <1>4, <2>1 DEF Inv, Reconciled, ChecksumDescribesProcess, RunsAs
<1> QED
    BY <1>6, <1>7, <1>8, <1>9 DEF Reconciled

\* An operation ends without a process.
LEMMA EndReconciled ==
    ASSUME Inv, StopReturns \/ PushRestartFails \/ ExecFails
    PROVE  Reconciled'
<1>0. UNCHANGED <<known, file, todo, entry, alive, label, running>> /\ current' = Nothing /\ current'.kind = "nothing"
    BY DEF StopReturns, PushRestartFails, ExecFails, processVars, tableVars, Nothing
<1>1. TypeOK /\ (current.kind \in {"Stop", "RestartInPlace"} => current.pipeline \in Pipelines)
    BY CurrentType DEF Inv
<1>2. ASSUME NEW q \in Pipelines PROVE Managed(q)' /\ Accounted(q)' /\ Awaited(q)'
    <2>1. RunsKnown(q)' <=> RunsKnown(q)
        BY <1>0 DEF RunsKnown, RunsAs
    <2>2. StopPending(q)' <=> StopPending(q)
        BY <1>0 DEF StopPending
    <2>3. Managed(q)'
        BY <1>0, <2>1, <2>2
           DEF Inv, Reconciled, Managed, Busy, StopReturns, PushRestartFails, ExecFails
    <2>4. Awaited(q)'
        BY <1>0 DEF Inv, Reconciled, Awaited, Busy, StopReturns, PushRestartFails, ExecFails
    <2>5. ASSUME StopReturns PROVE Accounted(q)'
        <3>1. LeftBehind(q) => LeftBehind(q)'
            BY <1>0, <2>5 DEF StopReturns, LeftBehind
        <3>2. /\ ~Busy({"Restart", "RestartInPlace"}, q) /\ current.kind # "SelfUpdate"
              /\ entry[q] = "absent" /\ known[q] # NotKnown => LeftBehind(q)
            BY <2>5 DEF Inv, Reconciled, Accounted, Busy, StopReturns
        <3> QED
            BY <1>0, <3>1, <3>2 DEF Accounted, LeftBehind
    <2>6. ASSUME PushRestartFails PROVE Accounted(q)'
        <3>1. Strand({current.pipeline}) /\ {current.pipeline} \in SUBSET Pipelines
            BY <1>1, <2>6 DEF PushRestartFails
        <3>2. /\ q = current.pipeline /\ known[q] # NotKnown => LeftBehind(q)'
              /\ LeftBehind(q) => LeftBehind(q)'
            BY <1>0, <3>1, Stranded
        <3>3. entry[q] = "absent" /\ known[q] # NotKnown => LeftBehind(q) \/ q = current.pipeline
            BY <2>6 DEF Inv, Reconciled, Accounted, Busy, PushRestartFails
        <3> QED
            BY <1>0, <3>2, <3>3 DEF Accounted, LeftBehind
    <2>7. ASSUME ExecFails PROVE Accounted(q)'
        <3>1. Strand(Pipelines)
            BY <2>7 DEF ExecFails
        <3>2. known[q] # NotKnown => LeftBehind(q)'
            BY <1>0, <3>1, Stranded
        <3> QED
            BY <1>0, <3>2 DEF Accounted, LeftBehind
    <2>8. Accounted(q)'
        BY <2>5, <2>6, <2>7
    <2> QED
        BY <2>3, <2>4, <2>8
<1>3. TodoOK' /\ CurrentOK' /\ FilesAreValid' /\ ChecksumDescribesProcess'
    BY <1>0 DEF Inv, Reconciled, TodoOK, CurrentOK, FilesAreValid, ChecksumDescribesProcess, Busy
<1> QED
    BY <1>2, <1>3 DEF Reconciled

LEMMA PushRestartReconciled ==
    ASSUME Inv, NEW p \in Pipelines, PushRestart(p)
    PROVE  Reconciled'
<1>0. TypeOK /\ todo = {} /\ current.kind = "nothing"
    BY DEF Inv, PushRestart, Idle, Nothing
<1>1. UNCHANGED <<known, file, todo, alive, label, running, stranded>>
    BY DEF PushRestart, Remove
<1>2. /\ entry[p] # "absent" /\ entry'[p] = "absent"
      /\ \A q \in Pipelines \ {p} : entry'[q] = entry[q]
    BY <1>0 DEF PushRestart, Remove, TypeOK, TableTypeOK
<1>3. /\ current'.kind = "RestartInPlace" /\ current'.pipeline = p
      /\ current'.config = label[p].secrets /\ current'.version = label[p].version
    BY DEF PushRestart
<1>4. RunsKnown(p)
    BY <1>0, <1>2 DEF Inv, Reconciled, Managed, StopPending, Busy
<1>5. ASSUME NEW q \in Pipelines PROVE Managed(q)' /\ Accounted(q)' /\ Awaited(q)'
    <2>1. CASE q = p
        BY <1>2, <1>3, <2>1 DEF Managed, Accounted, LeftBehind, Awaited, Busy
    <2>2. CASE q # p
        BY <1>0, <1>1, <1>2, <2>2, OthersManaged
    <2> QED
        BY <2>1, <2>2
<1>6. TodoOK'
    BY <1>0, <1>1 DEF TodoOK
<1>7. CurrentOK'
    BY <1>1, <1>2, <1>3, <1>4 DEF CurrentOK, RunsKnown, RunsAs
<1>8. FilesAreValid' /\ ChecksumDescribesProcess'
    BY <1>1, <1>2 DEF Inv, Reconciled, FilesAreValid, ChecksumDescribesProcess
<1> QED
    BY <1>5, <1>6, <1>7, <1>8 DEF Reconciled

LEMMA PushRestartLaunchesReconciled ==
    ASSUME Inv, PushRestartLaunches
    PROVE  Reconciled'
<1> DEFINE p == current.pipeline
<1>0. TypeOK /\ p \in Pipelines /\ current.kind = "RestartInPlace"
    BY CurrentType DEF Inv, PushRestartLaunches
<1>1. /\ UNCHANGED <<known, file, todo>> /\ current' = Nothing /\ current'.kind = "nothing"
      /\ StartVector(p)
    BY DEF PushRestartLaunches, Nothing
<1>2. /\ file[p] = current.config /\ known[p] # NotKnown
      /\ known[p].config = current.config /\ known[p].version = current.version /\ todo = {}
    BY <1>0 DEF Inv, Reconciled, CurrentOK, TodoOK
<1>3. /\ entry'[p] # "absent"
      /\ running'[p] = [yaml |-> current.config, secrets |-> current.config]
      /\ label'[p].secrets = current.config /\ label'[p].version = current.version
      /\ label'[p].checksum = NoConfig
      /\ \A q \in Pipelines \ {p} : /\ entry'[q] = entry[q] /\ alive'[q] = alive[q]
                                    /\ label'[q] = label[q] /\ running'[q] = running[q]
                                    /\ stranded'[q] = stranded[q]
    BY <1>0, <1>1, <1>2, VectorStarts
<1>4. ASSUME NEW q \in Pipelines PROVE Managed(q)' /\ Accounted(q)' /\ Awaited(q)'
    <2>1. CASE q = p
        <3>1. RunsKnown(q)'
            BY <1>1, <1>2, <1>3, <2>1 DEF RunsKnown, RunsAs
        <3> QED
            BY <1>3, <2>1, <3>1 DEF Managed, Accounted, LeftBehind, Awaited
    <2>2. CASE q # p
        BY <1>0, <1>1, <1>3, <2>2, OthersManaged
    <2> QED
        BY <2>1, <2>2
<1>5. TodoOK' /\ CurrentOK'
    BY <1>1, <1>2 DEF TodoOK, CurrentOK
<1>6. FilesAreValid' /\ ChecksumDescribesProcess'
    BY <1>0, <1>1, <1>2, <1>3 DEF Inv, Reconciled, FilesAreValid, ChecksumDescribesProcess
<1> QED
    BY <1>4, <1>5, <1>6 DEF Reconciled

\* Nothing is managed any more: ShutdownAll, and a new agent.
LEMMA ShutdownReconciled ==
    ASSUME Inv, SelfUpdate \/ ExecSucceeds \/ AgentDies
    PROVE  Reconciled'
<1>1. /\ todo' = {} /\ file' = file /\ \A p \in Pipelines : entry'[p] = "absent"
      /\ \/ current'.kind = "SelfUpdate"
         \/ /\ current'.kind = "nothing"
            /\ \A p \in Pipelines : alive'[p] = FALSE /\ known'[p] = NotKnown
    BY DEF SelfUpdate, ExecSucceeds, AgentDies, FreshAgent, RemoveAll, Idle, Nothing
<1>2. \A p \in Pipelines : Managed(p)' /\ Accounted(p)' /\ Awaited(p)'
    BY <1>1 DEF Managed, Accounted, LeftBehind, Awaited
<1>3. TodoOK' /\ CurrentOK' /\ FilesAreValid' /\ ChecksumDescribesProcess'
    BY <1>1 DEF Inv, Reconciled, TodoOK, CurrentOK, FilesAreValid, ChecksumDescribesProcess
<1> QED
    BY <1>2, <1>3 DEF Reconciled

LEMMA InvStep == Inv /\ [Next]_vars => Inv'
<1> SUFFICES ASSUME Inv, [Next]_vars PROVE Inv'
    OBVIOUS
<1>1. TypeOK'
    BY TypeStep DEF Inv
<1>2. CASE Apply
    BY <1>1, <1>2, ActivateReconciled, UpdateVersionReconciled, ApplyStopReconciled,
       StopOldReconciled, LaunchReconciled, ApplyFailsReconciled, MarkAppliedReconciled,
       EndReconciled, PushRestartLaunchesReconciled, ShutdownReconciled DEF Apply, Inv
<1> QED
    BY <1>1, <1>2, ServerReconciled, PollReconciled, PushRestartReconciled,
       SupervisorReconciled, ShutdownReconciled DEF Next, Inv

LEMMA SpecInv == Spec => []Inv
<1>1. Init => Inv
    BY InitType, InitReconciled DEF Inv
<1> QED
    BY <1>1, InvStep, PTL DEF Spec

-----------------------------------------------------------------------------
\* Between two iterations of the main loop, a managed process runs the config
\* last applied, with its secrets and under its version; a pipeline the poller
\* does not know has neither entry nor process, and one it knows has an entry
\* unless a failed restart or a failed exec has left it behind.
THEOREM AppliedIsRunningHolds == Spec => []AppliedIsRunning
<1>1. Inv => AppliedIsRunning
    BY DEF Inv, Reconciled, Managed, Accounted, Awaited, Busy, StopPending, RunsKnown, RunsAs,
           AppliedIsRunning, Idle, Nothing
<1> QED
    BY <1>1, SpecInv, PTL

\* The checksum that is reported for a process is that of the config it was
\* launched with, and every config that is launched is valid.
THEOREM ChecksumDescribesProcessHolds == Spec => []ChecksumDescribesProcess
<1>1. Inv => ChecksumDescribesProcess
    BY DEF Inv, Reconciled
<1> QED
    BY <1>1, SpecInv, PTL

===============================================================================
