--------------------------- MODULE AgentReconcile ---------------------------
(***************************************************************************)
(* How the agent keeps its Vector processes in line with the server's      *)
(* config response (agent/internal/agent: poller.go, agent.go, updater.go).*)
(*                                                                         *)
(* Everything here runs on the agent's main goroutine, one select case     *)
(* after the other; the supervisor's goroutines, of which this module sees *)
(* the process table, run beside it.  The server is a table of deployments *)
(* that changes at any time.                                               *)
(*                                                                         *)
(* A config stands for one checksum: a YAML document with its secrets.  A  *)
(* process reads the YAML from the pipeline's file when it is launched,    *)
(* but gets the secrets from its ProcessInfo, so the two are kept apart.   *)
(***************************************************************************)
EXTENDS ProcessTable, FiniteSets, Naturals

CONSTANTS
    Configs,
    ValidConfigs,   \* the configs validateVectorYAML accepts
    NoConfig,       \* no file, or the empty checksum
    Versions,
    Referencing,    \* pipelines whose config refers to variables or secrets
    NotKnown        \* no deployment, no entry in poller.known

ASSUME ReconcileAssumption ==
    /\ ValidConfigs \subseteq Configs
    /\ NoConfig \notin Configs
    /\ Referencing \subseteq Pipelines
    /\ NotKnown \notin [config: Configs, version: Versions]

VARIABLES
    \* The server's side.
    deployed,       \* what the server wants to run for each pipeline
    unresolved,     \* deployed pipelines whose config cannot be generated
    calm,           \* from now on nothing changes or fails any more
    \* The agent.
    known,          \* poller.known: what was last applied
    file,           \* pipelines/<pipeline>.yaml
    todo,           \* actions of the last poll that are still to be applied
    current,        \* the operation in progress
    \* Each pipeline's ProcessInfo and what its process was launched with.
    label,
    running,
    \* History: the config that stays known of a pipeline although a failure
    \* has left it without an entry, until the pipeline is launched again.
    stranded

serverVars == <<deployed, unresolved, calm>>
processVars == <<tableVars, label, running>>
vars == <<serverVars, known, file, todo, current, processVars, stranded>>

Deployments == [config: Configs, version: Versions]

Nothing == [kind |-> "nothing"]

Actions ==
    [kind: {"Start", "Restart", "UpdateVersion"}, pipeline: Pipelines,
     config: Configs, version: Versions]
        \cup [kind: {"Stop"}, pipeline: Pipelines]

\* An apply holds the file contents it may have to put back.
Operations ==
    {Nothing}
        \cup [kind: {"Start", "Restart"}, pipeline: Pipelines, config: Configs,
              version: Versions, previous: Configs \cup {NoConfig},
              stage: {"activated", "waiting", "launched"}]
        \cup [kind: {"RestartInPlace"}, pipeline: Pipelines, config: Configs,
              version: Versions]
        \cup [kind: {"Stop"}, pipeline: Pipelines]
        \cup [kind: {"SelfUpdate"}]

TypeOK ==
    /\ TableTypeOK
    /\ deployed \in [Pipelines -> Deployments \cup {NotKnown}]
    /\ unresolved \in SUBSET Pipelines
    /\ calm \in BOOLEAN
    /\ known \in [Pipelines -> Deployments \cup {NotKnown}]
    /\ file \in [Pipelines -> Configs \cup {NoConfig}]
    /\ todo \in SUBSET Actions
    /\ current \in Operations
    /\ label \in [Pipelines -> [version: Versions, secrets: Configs,
                                checksum: Configs \cup {NoConfig}]]
    /\ running \in [Pipelines -> [yaml: Configs \cup {NoConfig}, secrets: Configs]]
    /\ stranded \in [Pipelines -> Configs \cup {NoConfig}]

Init ==
    /\ TableInit
    /\ deployed = [p \in Pipelines |-> NotKnown]
    /\ unresolved = {}
    /\ calm = FALSE
    /\ known = [p \in Pipelines |-> NotKnown]
    /\ file = [p \in Pipelines |-> NoConfig]
    /\ todo = {}
    /\ current = Nothing
    /\ stranded = [p \in Pipelines |-> NoConfig]
    /\ \E c \in Configs, v \in Versions :       \* not in use yet
        /\ label = [p \in Pipelines |->
                [version |-> v, secrets |-> c, checksum |-> NoConfig]]
        /\ running = [p \in Pipelines |-> [yaml |-> NoConfig, secrets |-> c]]

Idle == todo = {} /\ current = Nothing

\* Pipelines that a failure leaves without an entry, known as before.
Strand(P) ==
    stranded' = [p \in Pipelines |->
        IF p \in P /\ known[p] # NotKnown THEN known[p].config ELSE stranded[p]]

-----------------------------------------------------------------------------
(***************************************************************************)
(* The server: deployments, undeployments and pauses, rollbacks to any     *)
(* earlier config, and variables or secrets that cannot be resolved.       *)
(***************************************************************************)
Deploy(p) ==
    /\ ~calm
    /\ \E d \in Deployments \cup {NotKnown} : deployed' = [deployed EXCEPT ![p] = d]
    /\ UNCHANGED <<unresolved, calm, known, file, todo, current, processVars, stranded>>

BreakReferences(p) ==
    /\ ~calm
    /\ p \in Referencing
    /\ \E u \in {unresolved \cup {p}, unresolved \ {p}} : unresolved' = u
    /\ UNCHANGED <<deployed, calm, known, file, todo, current, processVars, stranded>>

BecomeCalm ==
    /\ ~calm
    /\ calm' = TRUE
    /\ UNCHANGED <<deployed, unresolved, known, file, todo, current, processVars, stranded>>

\* The pipelines in a config response.  One whose config cannot be generated
\* is skipped, as if it were not deployed.
Served == {p \in Pipelines : deployed[p] # NotKnown} \ unresolved

-----------------------------------------------------------------------------
Valid(p) == deployed[p].config \in ValidConfigs

\* Known with another checksum, or with the same one under another version.
Changed(p) == known[p] # NotKnown /\ known[p].config # deployed[p].config
Bumped(p)  == known[p] # NotKnown /\ known[p].config = deployed[p].config
                                  /\ known[p].version # deployed[p].version

\* Mutant of ToStop: undeployed pipelines are forgotten, not stopped.
ToStopNothing == {}

\* The pipelines each kind of action is for.  An invalid config is skipped.
ToStart   == {p \in Served : known[p] = NotKnown /\ Valid(p)}
ToRestart == {p \in Served : Changed(p) /\ Valid(p)}
ToUpdate  == {p \in Served : Bumped(p)}
ToStop    == {p \in Pipelines \ Served : known[p] # NotKnown}

ActionFor(kind, p) ==
    [kind |-> kind, pipeline |-> p,
     config |-> deployed[p].config, version |-> deployed[p].version]

ActionsNeeded ==
    {ActionFor("Start", p) : p \in ToStart}
        \cup {ActionFor("Restart", p) : p \in ToRestart}
        \cup {ActionFor("UpdateVersion", p) : p \in ToUpdate}
        \cup {[kind |-> "Stop", pipeline |-> p] : p \in ToStop}

\* Mutant of Poll: known state is advanced before the action is applied.
PollAdvancesKnown ==
    /\ Idle
    /\ todo' = ActionsNeeded
    /\ known' = [p \in Pipelines |->
          IF p \notin Served THEN NotKnown
          ELSE IF Valid(p) THEN deployed[p] ELSE known[p]]
    /\ file' = [p \in Pipelines |-> IF p \in Served THEN file[p] ELSE NoConfig]
    /\ stranded' = [p \in Pipelines |-> IF p \in Served THEN stranded[p] ELSE NoConfig]
    /\ UNCHANGED <<serverVars, current, processVars>>

(***************************************************************************)
(* Poll: pipelines that are not in the response are forgotten and lose     *)
(* their file at once, before their Stop action is applied.  A request     *)
(* that fails changes nothing.                                             *)
(***************************************************************************)
Poll ==
    /\ Idle
    /\ todo' = ActionsNeeded
    /\ known' = [p \in Pipelines |-> IF p \in Served THEN known[p] ELSE NotKnown]
    /\ file' = [p \in Pipelines |-> IF p \in Served THEN file[p] ELSE NoConfig]
    /\ stranded' = [p \in Pipelines |-> IF p \in Served THEN stranded[p] ELSE NoConfig]
    /\ UNCHANGED <<serverVars, current, processVars>>

-----------------------------------------------------------------------------
(***************************************************************************)
(* pollAndApply, one action after the other, stops last.                   *)
(***************************************************************************)
Take(a) ==
    /\ current = Nothing
    /\ a \in todo
    /\ a.kind = "Stop" => \A b \in todo : b.kind = "Stop"
    /\ todo' = todo \ {a}

\* activateConfigFile, whose failure ends the attempt.
Activate(a) ==
    /\ a.kind \in {"Start", "Restart"}
    /\ Take(a)
    /\ \/ /\ file' = [file EXCEPT ![a.pipeline] = a.config]
          /\ current' = [kind |-> a.kind, pipeline |-> a.pipeline,
                         config |-> a.config, version |-> a.version,
                         previous |-> file[a.pipeline], stage |-> "activated"]
       \/ /\ ~calm
          /\ UNCHANGED <<file, current>>
    /\ UNCHANGED <<serverVars, known, processVars, stranded>>

\* Restart, up to the wait for the old process.
StopOld ==
    /\ current.kind = "Restart"
    /\ current.stage = "activated"
    /\ Remove(current.pipeline)
    /\ current' = [current EXCEPT !.stage = "waiting"]
    /\ UNCHANGED <<serverVars, known, file, todo, label, running, stranded>>

\* Start and Restart find no entry, or have removed it and waited.
MayLaunch ==
    /\ current.kind \in {"Start", "Restart"}
    /\ current.stage \in {"activated", "waiting"}
    /\ entry[current.pipeline] = "absent"

\* startProcess for the operation in progress: a ProcessInfo without checksum.
StartVector(p) ==
    /\ Launch(p)
    /\ running' = [running EXCEPT ![p] =
          [yaml |-> file[p], secrets |-> current.config]]
    /\ label' = [label EXCEPT ![p] =
          [version |-> current.version, secrets |-> current.config,
           checksum |-> NoConfig]]
    /\ stranded' = [stranded EXCEPT ![p] = NoConfig]

ApplyLaunches ==
    /\ MayLaunch
    /\ StartVector(current.pipeline)
    /\ current' = [current EXCEPT !.stage = "launched"]
    /\ UNCHANGED <<serverVars, known, file, todo>>

\* Mutant of ApplyFails: what failed is remembered as applied.
ApplyFailsMarked ==
    /\ MayLaunch /\ ~alive[current.pipeline] /\ ~calm
    /\ file' = [file EXCEPT ![current.pipeline] = current.previous]
    /\ known' = [known EXCEPT ![current.pipeline] =
          [config |-> current.config, version |-> current.version]]
    /\ current' = Nothing
    /\ Strand({current.pipeline})
    /\ UNCHANGED <<serverVars, todo, processVars>>

(***************************************************************************)
(* Start or Restart returns an error: no port, no process, or, for Start,  *)
(* a pipeline that is running already.  The file is rolled back, unless    *)
(* that fails as well, and known stays as it is.                           *)
(***************************************************************************)
ApplyFails ==
    /\ \/ MayLaunch /\ ~alive[current.pipeline] /\ ~calm
       \/ current.kind = "Start" /\ current.stage = "activated"
            /\ entry[current.pipeline] # "absent"
    /\ \/ file' = [file EXCEPT ![current.pipeline] = current.previous]
       \/ ~calm /\ UNCHANGED file
    /\ current' = Nothing
    /\ Strand({current.pipeline})
    /\ UNCHANGED <<serverVars, known, todo, processVars>>

\* SetConfigChecksum and MarkApplied.
MarkApplied ==
    /\ current.kind \in {"Start", "Restart"}
    /\ current.stage = "launched"
    /\ LET p == current.pipeline
       IN  /\ label' = [label EXCEPT ![p].checksum = current.config]
           /\ known' = [known EXCEPT ![p] =
                 [config |-> current.config, version |-> current.version]]
    /\ current' = Nothing
    /\ UNCHANGED <<serverVars, file, todo, tableVars, running, stranded>>

\* ActionUpdateVersion: without an entry there is nothing to label.
UpdateVersion(a) ==
    /\ a.kind = "UpdateVersion"
    /\ Take(a)
    /\ label' = [label EXCEPT ![a.pipeline].version = a.version]
    /\ known' = [known EXCEPT ![a.pipeline] =
          [config |-> a.config, version |-> a.version]]
    /\ UNCHANGED <<serverVars, file, current, tableVars, running, stranded>>

\* ActionStop: Stop of an absent pipeline returns at once.
ApplyStop(a) ==
    /\ a.kind = "Stop"
    /\ Take(a)
    /\ \/ Remove(a.pipeline) /\ current' = a
       \/ entry[a.pipeline] = "absent" /\ UNCHANGED <<tableVars, current>>
    /\ UNCHANGED <<serverVars, known, file, label, running, stranded>>

\* Stop returns when the process has exited.
StopReturns ==
    /\ current.kind = "Stop"
    /\ ~alive[current.pipeline]
    /\ current' = Nothing
    /\ UNCHANGED <<serverVars, known, file, todo, processVars, stranded>>

-----------------------------------------------------------------------------
(***************************************************************************)
(* A "restart" pushed by the server: RestartInPlace with the fields of the *)
(* entry it removes.  No failure of it reaches the poller.                 *)
(***************************************************************************)
PushRestart(p) ==
    /\ ~calm
    /\ Idle
    /\ Remove(p)
    /\ current' = [kind |-> "RestartInPlace", pipeline |-> p,
                   config |-> label[p].secrets, version |-> label[p].version]
    /\ UNCHANGED <<serverVars, known, file, todo, label, running, stranded>>

PushRestartLaunches ==
    /\ current.kind = "RestartInPlace"
    /\ StartVector(current.pipeline)
    /\ current' = Nothing
    /\ UNCHANGED <<serverVars, known, file, todo>>

PushRestartFails ==
    /\ ~calm
    /\ current.kind = "RestartInPlace"
    /\ ~alive[current.pipeline]
    /\ current' = Nothing
    /\ Strand({current.pipeline})
    /\ UNCHANGED <<serverVars, known, file, todo, processVars>>

(***************************************************************************)
(* handleSelfUpdate from ShutdownAll on: everything before it leaves the   *)
(* agent as it was.  If exec fails the old agent goes on, with an empty    *)
(* process table and the poller's known state of before.                   *)
(***************************************************************************)
SelfUpdate ==
    /\ ~calm
    /\ Idle
    /\ RemoveAll
    /\ current' = [kind |-> "SelfUpdate"]
    /\ UNCHANGED <<serverVars, known, file, todo, label, running, stranded>>

ExecFails ==
    /\ ~calm
    /\ current.kind = "SelfUpdate"
    /\ \A p \in Pipelines : ~alive[p]
    /\ current' = Nothing
    /\ Strand(Pipelines)
    /\ UNCHANGED <<serverVars, known, file, todo, processVars>>

\* A new agent: nothing is known, nothing runs, and the files are still there.
FreshAgent ==
    /\ entry' = [p \in Pipelines |-> "absent"]
    /\ alive' = [p \in Pipelines |-> FALSE]
    /\ known' = [p \in Pipelines |-> NotKnown]
    /\ todo' = {}
    /\ current' = Nothing
    /\ stranded' = [p \in Pipelines |-> NoConfig]
    /\ UNCHANGED <<serverVars, file, label, running>>

ExecSucceeds ==
    /\ current.kind = "SelfUpdate"
    /\ \A p \in Pipelines : ~alive[p]
    /\ FreshAgent

\* The agent is stopped, crashes or the host reboots, at any point; its
\* service unit or container ends the Vector processes with it.
AgentDies == ~calm /\ FreshAgent

-----------------------------------------------------------------------------
(***************************************************************************)
(* The supervisor beside the main goroutine.                               *)
(***************************************************************************)
ProcessExits(p) ==
    /\ calm => entry[p] = "absent"
    /\ Exit(p)
    /\ UNCHANGED <<serverVars, known, file, todo, current, label, running, stranded>>

MonitorNotices(p) ==
    /\ Settle(p) \/ NoticeCleanExit(p) \/ NoticeCrash(p)
    /\ UNCHANGED <<serverVars, known, file, todo, current, label, running, stranded>>

RestartAttemptFails(p) ==
    /\ ~calm
    /\ GiveUpRestart(p)
    /\ UNCHANGED <<serverVars, known, file, todo, current, label, running, stranded>>

\* Mutant of CrashRestart: the new ProcessInfo keeps the checksum of the old one.
CrashRestartWithChecksum(p) ==
    /\ entry[p] = "CRASHED"
    /\ Launch(p)
    /\ running' = [running EXCEPT ![p] =
          [yaml |-> file[p], secrets |-> label[p].secrets]]
    /\ UNCHANGED <<serverVars, known, file, todo, current, label, stranded>>

(***************************************************************************)
(* restartAfter: the file as it is now, version and secrets of the entry,  *)
(* and no checksum.                                                        *)
(***************************************************************************)
CrashRestart(p) ==
    /\ entry[p] = "CRASHED"
    /\ Launch(p)
    /\ running' = [running EXCEPT ![p] =
          [yaml |-> file[p], secrets |-> label[p].secrets]]
    /\ label' = [label EXCEPT ![p].checksum = NoConfig]
    /\ UNCHANGED <<serverVars, known, file, todo, current, stranded>>

-----------------------------------------------------------------------------
Server == (\E p \in Pipelines : Deploy(p) \/ BreakReferences(p)) \/ BecomeCalm

\* The main goroutine goes on with what it is doing.
Apply ==
    \/ \E a \in todo : Activate(a) \/ UpdateVersion(a) \/ ApplyStop(a)
    \/ StopOld
    \/ ApplyLaunches
    \/ ApplyFails
    \/ MarkApplied
    \/ StopReturns
    \/ PushRestartLaunches
    \/ PushRestartFails
    \/ ExecFails
    \/ ExecSucceeds

SupervisorStep(p) ==
    \/ ProcessExits(p)
    \/ MonitorNotices(p)
    \/ RestartAttemptFails(p)
    \/ CrashRestart(p)

Next ==
    \/ Server
    \/ Poll
    \/ Apply
    \/ \E p \in Pipelines : PushRestart(p) \/ SupervisorStep(p)
    \/ SelfUpdate
    \/ AgentDies

Spec == Init /\ [][Next]_vars

(***************************************************************************)
(* The agent polls whenever its ticker fires and finishes what it begins;  *)
(* stopProcess ends a process that was removed from the table; monitors    *)
(* and restart goroutines keep running.  That the server and the host      *)
(* become calm is assumed only where a property says so.                   *)
(***************************************************************************)
Fairness ==
    /\ WF_vars(Poll)
    /\ WF_vars(Apply)
    /\ \A p \in Pipelines : WF_vars(SupervisorStep(p))

FairSpec == Spec /\ Fairness

-----------------------------------------------------------------------------
\* The exception to both properties below.  A Restart removes the old entry
\* before it fails, as do a pushed restart and a self-update whose exec fails,
\* and the old config stays known: as long as the server wants that config,
\* no action follows and nothing runs.  (What failed was another config, or an
\* operation the poller does not hear of.)
LeftBehind(p) == known[p] # NotKnown /\ stranded[p] = known[p].config

\* Types; and whenever the main goroutine is between two iterations, which is when it
\* sends heartbeats, a managed process runs the config last applied, with its
\* secrets, under the version last applied; a pipeline the poller does not
\* know, which it would never stop, has neither entry nor process; and one it
\* does know has an entry, unless it was left behind.
AppliedIsRunning ==
  /\ TypeOK
  /\ Idle => \A p \in Pipelines :
        /\ entry[p] # "absent" =>
            /\ known[p] # NotKnown
            /\ running[p] = [yaml |-> known[p].config, secrets |-> known[p].config]
            /\ label[p].version = known[p].version
        /\ entry[p] = "absent" =>
            /\ ~alive[p]
            /\ known[p] = NotKnown \/ LeftBehind(p)

\* Whichever path launches a process, its config parses, and a checksum is
\* reported only for the config it was launched with, even if it crashed and
\* was restarted while a new file was being activated.  (It may be launched
\* without a config: a crash restart of a pipeline that was undeployed a
\* moment before finds its file deleted.)
ChecksumDescribesProcess ==
    \A p \in Pipelines : entry[p] # "absent" =>
        /\ running[p].yaml \in ValidConfigs \cup {NoConfig}
        /\ label[p].checksum # NoConfig =>
              running[p] = [yaml |-> label[p].checksum, secrets |-> label[p].checksum]

\* Wanted and valid.
Wanted(p) == p \in Served /\ Valid(p)

\* The process of p runs this config, or ended before the host was calm in a
\* way the supervisor does not answer: it exited cleanly, or too often.
Runs(p, config) ==
    /\ running[p] = [yaml |-> config, secrets |-> config]
    /\ alive[p] \/ entry[p] \in {"STOPPED", "CRASH_LOOP"}

\* "Known state is advanced after the restart succeeds so failed applies are
\* retried" (poller.go:145): once the server and the host are calm, the last
\* deployment of every pipeline is what the poller knows and what runs, and
\* stays so.  A failed apply is retried as long as the server wants what
\* failed; the exception is a server that went back to the config before.
KnownConverges ==
    \A p \in Pipelines :
        calm ~> [](Wanted(p) => /\ known[p] = deployed[p]
                                /\ LeftBehind(p) \/ Runs(p, deployed[p].config))

\* Once they are calm, a pipeline that is not served any more is stopped, its
\* process is gone and its config file is deleted.
UndeployedStops ==
    \A p \in Pipelines :
        calm ~> [](p \notin Served =>
                    entry[p] = "absent" /\ ~alive[p] /\ file[p] = NoConfig)

=============================================================================
