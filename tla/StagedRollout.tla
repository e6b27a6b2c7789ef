---------------------------- MODULE StagedRollout ----------------------------
(***************************************************************************)
(* Canary rollouts of one pipeline: the staged rollout service, the        *)
(* auto-rollback service, direct deployments beside them, and the agents   *)
(* that fetch the result (src/server/services/staged-rollout.ts,           *)
(* auto-rollback.ts, pipeline-version.ts, deploy-agent.ts and              *)
(* src/app/api/agent/config/route.ts).                                     *)
(*                                                                         *)
(* The services are asynchronous: between two database calls of a handler  *)
(* any other handler may run, so a step is what a handler does from one    *)
(* awaited database call to the next.  Any call may fail; the exception    *)
(* ends the handler, or one iteration of a poll loop.  Alerts, SSE         *)
(* broadcasts and audit entries change nothing here and are left out.      *)
(***************************************************************************)
EXTENDS PipelineVersions, FiniteSets

CONSTANTS
    Nodes,        \* agents the pipeline's nodeSelector matches
    Configs,      \* the YAML of a graph; the graph itself is not modelled
    NoConfig,
    Requests,     \* API requests that are handled at the same time
    MaxRows,      \* bound on the versions of the pipeline
    MaxReleases   \* bound on its rollouts

ASSUME StagedRolloutAssumption ==
    /\ IsFiniteSet(Nodes) /\ Nodes # {}
    /\ NoConfig \notin Configs /\ Configs # {}
    /\ IsFiniteSet(Requests)
    /\ "healthTick" \notin Requests /\ "rollbackTick" \notin Requests
    /\ MaxRows \in Nat /\ MaxReleases \in Nat

\* The two poll loops cannot overlap themselves (tickInFlight): one slot each.
Handlers == Requests \cup {"healthTick", "rollbackTick"}

VARIABLES
    rows,       \* PipelineVersion rows: version number and config
    pipeline,   \* the graph as edited, deployed, autoRollbackEnabled
    releases,   \* Release rows with strategy CANARY
    handler,    \* where each handler is, with its local variables
    inFlight,   \* the poll loops whose tickInFlight is set
    told,       \* <<release, node>> pushed config_changed to broaden
    serving     \* the row each agent was given by its last poll

dbVars     == <<rows, pipeline, releases>>
serverVars == <<handler, inFlight>>
vars       == <<dbVars, serverVars, told, serving>>

-----------------------------------------------------------------------------
Statuses == {"CANARY_DEPLOYED", "HEALTH_CHECK", "BROADENED", "ROLLED_BACK"}
ActiveStatuses == {"CANARY_DEPLOYED", "HEALTH_CHECK"}
Operations == {"none", "deploy", "create", "broaden", "rollback", "health", "auto"}
RowIds == 0 .. MaxRows
ReleaseIds == 1 .. MaxReleases

Rows == [version: 1 .. MaxRows, config: Configs]
Releases == [status: Statuses, canary: RowIds, previous: RowIds,
             canaryNodes: SUBSET Nodes, expired: BOOLEAN]

\* A handler's next database call, and what it has read so far.
HandlerStates ==
    [op: Operations,
     at: {"idle", "graph", "previous", "number", "insert", "publish", "record",
          "budget", "restore", "versions", "disable", "active", "next", "broaden"},
     release: 0 .. MaxReleases, source: RowIds, row: RowIds,
     config: Configs \cup {NoConfig}, number: RowIds, todo: SUBSET ReleaseIds]

Blank == [op |-> "none", at |-> "idle", release |-> 0, source |-> NoRow, row |-> NoRow,
          config |-> NoConfig, number |-> 0, todo |-> {}]

TypeOK ==
    /\ rows \in Seq(Rows) /\ Len(rows) <= MaxRows
    /\ pipeline \in [graph: Configs, deployed: BOOLEAN, autoRollback: BOOLEAN]
    /\ releases \in Seq(Releases) /\ Len(releases) <= MaxReleases
    /\ handler \in [Handlers -> HandlerStates]
    /\ inFlight \in SUBSET {"health", "auto"}
    /\ told \in SUBSET (ReleaseIds \X Nodes)
    /\ serving \in [Nodes -> RowIds]

Status(r) == releases[r].status

Active == {r \in DOMAIN releases : Status(r) \in ActiveStatuses}

Busy == {h \in Handlers : handler[h].at # "idle"}

Init ==
    /\ rows = <<>>
    /\ pipeline \in [graph: {CHOOSE config \in Configs : TRUE}, deployed: {FALSE},
                     autoRollback: {FALSE}]
    /\ releases = <<>>
    /\ handler = [h \in Handlers |-> Blank]
    /\ inFlight = {}
    /\ told = {}
    /\ serving = [n \in Nodes |-> NoRow]

-----------------------------------------------------------------------------
(***************************************************************************)
(* Starting, continuing and ending a handler.                              *)
(***************************************************************************)
\* Room for the rows the running handlers may still insert (bound only).
Room == Len(rows) + Cardinality(Busy) < MaxRows

MayBegin(h) == handler[h] = Blank

Request(h) == h \in Requests /\ MayBegin(h)

At(h, place) == handler[h].at = place

Run(h, state) == handler' = [handler EXCEPT ![h] = state]

\* Mutant of EndIteration: without the finally block that clears tickInFlight.
EndIterationInFlight(h, todo) ==
    /\ Run(h, IF todo # {} THEN [handler[h] EXCEPT !.at = "next", !.release = 0, !.todo = todo]
              ELSE Blank)
    /\ UNCHANGED inFlight

\* The end of one iteration of checkHealthWindows; the last one also ends the
\* tick, as the only one of any other handler does, and clears tickInFlight.
EndIteration(h, todo) ==
    IF todo # {}
    THEN /\ Run(h, [handler[h] EXCEPT !.at = "next", !.release = 0, !.todo = todo])
         /\ UNCHANGED inFlight
    ELSE /\ Run(h, Blank)
         /\ inFlight' = inFlight \ {handler[h].op}

\* The handler returns or throws, which ends only the iteration it is in.
Finish(h) == EndIteration(h, handler[h].todo)

SetStatus(r, status) == releases' = [releases EXCEPT ![r].status = status]

-----------------------------------------------------------------------------
(***************************************************************************)
(* createVersion: read the highest number, insert the row, mark the        *)
(* pipeline deployed.  Three calls, in no transaction.                     *)
(***************************************************************************)
ReadNumber(h) ==
    /\ At(h, "number")
    /\ Run(h, [handler[h] EXCEPT !.at = "insert", !.number = NextNumber(rows)])
    /\ UNCHANGED <<dbVars, inFlight, told, serving>>

\* Mutant of InsertVersion: the config is that of the graph, restored or not.
InsertVersionOfGraph(h) ==
    /\ At(h, "insert")
    /\ rows' = Append(rows, [version |-> handler[h].number, config |-> pipeline.graph])
    /\ Run(h, [handler[h] EXCEPT !.at = "publish", !.row = Len(rows) + 1,
                             !.number = 0, !.config = NoConfig])
    /\ UNCHANGED <<pipeline, releases, inFlight, told, serving>>

InsertVersion(h) ==
    /\ At(h, "insert")
    /\ rows' = Append(rows, [version |-> handler[h].number, config |-> handler[h].config])
    /\ Run(h, [handler[h] EXCEPT !.at = "publish", !.row = Len(rows) + 1,
                             !.number = 0, !.config = NoConfig])
    /\ UNCHANGED <<pipeline, releases, inFlight, told, serving>>

\* What follows createVersion in its callers.
PublishVersion(h) ==
    /\ At(h, "publish")
    /\ pipeline' = [pipeline EXCEPT !.deployed = TRUE]
    /\ CASE handler[h].op \in {"create", "rollback"} ->
                Run(h, [handler[h] EXCEPT !.at = "record"]) /\ UNCHANGED inFlight
         [] handler[h].op = "auto" ->
                Run(h, [handler[h] EXCEPT !.at = "disable"]) /\ UNCHANGED inFlight
         [] OTHER -> Finish(h)
    /\ UNCHANGED <<rows, releases, told, serving>>

(***************************************************************************)
(* deployAgent: the graph is read first, the version is created from it.   *)
(***************************************************************************)
BeginDeploy(h) ==
    /\ Request(h) /\ Room
    /\ Run(h, [Blank EXCEPT !.op = "deploy", !.at = "number", !.config = pipeline.graph])
    /\ UNCHANGED <<dbVars, inFlight, told, serving>>

(***************************************************************************)
(* createRollout: refuse if a rollout is active, read the graph, read the  *)
(* two latest versions, create the canary version, record the rollout.     *)
(***************************************************************************)
BeginCreate(h) ==
    /\ Request(h) /\ Room
    /\ Len(releases) + Cardinality({g \in Busy : handler[g].op = "create"}) < MaxReleases
    /\ Active = {}
    /\ Run(h, [Blank EXCEPT !.op = "create", !.at = "graph"])
    /\ UNCHANGED <<dbVars, inFlight, told, serving>>

ReadGraph(h) ==
    /\ At(h, "graph")
    /\ Run(h, [handler[h] EXCEPT !.at = "previous", !.config = pipeline.graph])
    /\ UNCHANGED <<dbVars, inFlight, told, serving>>

\* versions[1] of the two latest rows, none when there are fewer than two.
SecondLatest(table) ==
    IF Len(table) < 2 THEN {NoRow}
    ELSE UNION {RunnersUp(table, i) : i \in Latest(table)}

ReadPrevious(h) ==
    /\ At(h, "previous")
    /\ \E i \in SecondLatest(rows) :
          Run(h, [handler[h] EXCEPT !.at = "number", !.source = i])
    /\ UNCHANGED <<dbVars, inFlight, told, serving>>

\* The selector of the request matches at least one node.
RecordRollout(h) ==
    /\ At(h, "record") /\ handler[h].op = "create"
    /\ \E canaryNodes \in SUBSET Nodes \ {{}} :
          releases' = Append(releases,
              [status |-> "CANARY_DEPLOYED", canary |-> handler[h].row,
               previous |-> handler[h].source, canaryNodes |-> canaryNodes,
               expired |-> FALSE])
    /\ Finish(h)
    /\ UNCHANGED <<rows, pipeline, told, serving>>

-----------------------------------------------------------------------------
(***************************************************************************)
(* broadenRollout: only a rollout under review, unless its error budget is *)
(* burned; push to the remaining nodes, then record it.                    *)
(***************************************************************************)
BeginBroaden(h) ==
    /\ Request(h)
    /\ \E r \in DOMAIN releases :
          /\ Status(r) = "HEALTH_CHECK"
          /\ Run(h, [Blank EXCEPT !.op = "broaden", !.at = "budget", !.release = r])
    /\ UNCHANGED <<dbVars, inFlight, told, serving>>

\* Mutant of PassBudget: the status is recorded without the pushes.
PassBudgetSilently(h) ==
    /\ At(h, "budget")
    /\ Run(h, [handler[h] EXCEPT !.at = "record"])
    /\ UNCHANGED <<dbVars, inFlight, told, serving>>

PassBudget(h) ==
    /\ At(h, "budget")
    /\ told' = told \cup {<<handler[h].release, n>> :
                              n \in Nodes \ releases[handler[h].release].canaryNodes}
    /\ Run(h, [handler[h] EXCEPT !.at = "record"])
    /\ UNCHANGED <<dbVars, inFlight, serving>>

BudgetBurned(h) ==
    /\ At(h, "budget")
    /\ Finish(h)
    /\ UNCHANGED <<dbVars, told, serving>>

RecordBroadened(h) ==
    /\ At(h, "record") /\ handler[h].op \in {"broaden", "health"}
    /\ SetStatus(handler[h].release, "BROADENED")
    /\ Finish(h)
    /\ UNCHANGED <<rows, pipeline, told, serving>>

MayRollBack(r) == Status(r) \in ActiveStatuses

(***************************************************************************)
(* rollbackRollout: deploy the previous version, if there is one, then     *)
(* record it.                                                              *)
(***************************************************************************)
BeginRollback(h) ==
    /\ Request(h) /\ Room
    /\ \E r \in DOMAIN releases :
          /\ MayRollBack(r)
          /\ Run(h, [Blank EXCEPT
                !.op = "rollback",
                !.at = IF releases[r].previous = NoRow THEN "record" ELSE "restore",
                !.release = r, !.source = releases[r].previous])
    /\ UNCHANGED <<dbVars, inFlight, told, serving>>

\* deployFromVersion: the graph goes back to the snapshot of the source row,
\* in a transaction; then the row is copied by createVersion.
RestoreGraph(h) ==
    /\ At(h, "restore")
    /\ pipeline' = [pipeline EXCEPT !.graph = rows[handler[h].source].config]
    /\ Run(h, [handler[h] EXCEPT !.at = "number", !.source = NoRow,
                             !.config = rows[handler[h].source].config])
    /\ UNCHANGED <<rows, releases, inFlight, told, serving>>

RecordRolledBack(h) ==
    /\ At(h, "record") /\ handler[h].op \in {"rollback", "auto"}
    /\ SetStatus(handler[h].release, "ROLLED_BACK")
    /\ Finish(h)
    /\ UNCHANGED <<rows, pipeline, told, serving>>

-----------------------------------------------------------------------------
(***************************************************************************)
(* The health-check loop: every rollout whose window has passed is put     *)
(* under review and, if its strategy says so and its metrics are good,     *)
(* broadened.                                                              *)
(***************************************************************************)
WindowExpires(r) ==
    /\ Status(r) = "CANARY_DEPLOYED" /\ ~releases[r].expired
    /\ releases' = [releases EXCEPT ![r].expired = TRUE]
    /\ UNCHANGED <<rows, pipeline, serverVars, told, serving>>

Due(r) == r \in DOMAIN releases /\ Status(r) = "CANARY_DEPLOYED" /\ releases[r].expired

BeginHealthTick ==
    LET due == {r \in DOMAIN releases : Due(r)}
    IN  /\ MayBegin("healthTick") /\ "health" \notin inFlight
        /\ due # {}
        /\ Run("healthTick", [Blank EXCEPT !.op = "health", !.at = "next", !.todo = due])
        /\ inFlight' = inFlight \cup {"health"}
        /\ UNCHANGED <<dbVars, told, serving>>

\* Updated by id: the status it had when the tick listed it is not checked again.
MarkHealthCheck(h) ==
    /\ At(h, "next")
    /\ \E r \in handler[h].todo :
          /\ SetStatus(r, "HEALTH_CHECK")
          /\ Run(h, [handler[h] EXCEPT !.at = "broaden", !.release = r, !.todo = @ \ {r}])
    /\ UNCHANGED <<rows, pipeline, inFlight, told, serving>>

\* The update fails: this rollout is left to a later tick.
MarkFails(h) ==
    /\ At(h, "next")
    /\ \E r \in handler[h].todo : EndIteration(h, handler[h].todo \ {r})
    /\ UNCHANGED <<dbVars, told, serving>>

\* autoBroaden and good metrics: broadenRollout, which reads the rollout again.
AutoBroaden(h) ==
    /\ At(h, "broaden")
    /\ Status(handler[h].release) = "HEALTH_CHECK"
    /\ Run(h, [handler[h] EXCEPT !.at = "budget"])
    /\ UNCHANGED <<dbVars, inFlight, told, serving>>

LeaveForReview(h) ==
    /\ At(h, "broaden")
    /\ Finish(h)
    /\ UNCHANGED <<dbVars, told, serving>>

(***************************************************************************)
(* The auto-rollback loop: copy the second latest version over the latest, *)
(* switch the feature off, mark the active rollout.                        *)
(***************************************************************************)
BeginRollbackTick ==
    /\ MayBegin("rollbackTick") /\ "auto" \notin inFlight /\ Room
    /\ pipeline.deployed /\ pipeline.autoRollback
    /\ Run("rollbackTick", [Blank EXCEPT !.op = "auto", !.at = "versions"])
    /\ inFlight' = inFlight \cup {"auto"}
    /\ UNCHANGED <<dbVars, told, serving>>

ErrorRateExceeded(h) ==
    /\ At(h, "versions") /\ Len(rows) >= 2
    /\ \E i \in SecondLatest(rows) :
          Run(h, [handler[h] EXCEPT !.at = "restore", !.source = i])
    /\ UNCHANGED <<dbVars, inFlight, told, serving>>

ErrorRateAcceptable(h) ==
    /\ At(h, "versions")
    /\ Finish(h)
    /\ UNCHANGED <<dbVars, told, serving>>

DisableAutoRollback(h) ==
    /\ At(h, "disable")
    /\ pipeline' = [pipeline EXCEPT !.autoRollback = FALSE]
    /\ Run(h, [handler[h] EXCEPT !.at = "active"])
    /\ UNCHANGED <<rows, releases, inFlight, told, serving>>

FindActiveRollout(h) ==
    /\ At(h, "active")
    /\ IF Active = {} THEN Finish(h)
       ELSE /\ \E r \in Active :
                  Run(h, [handler[h] EXCEPT !.at = "record", !.release = r])
            /\ UNCHANGED inFlight
    /\ UNCHANGED <<dbVars, told, serving>>

-----------------------------------------------------------------------------
\* A database call of the handler fails.
CallFails(h) ==
    /\ h \in Busy /\ ~At(h, "next")
    /\ Finish(h)
    /\ UNCHANGED <<dbVars, told, serving>>

\* The server stops; what its handlers had in memory is lost.
ServerRestarts ==
    /\ Busy # {}
    /\ handler' = [h \in Handlers |-> Blank]
    /\ inFlight' = {}
    /\ UNCHANGED <<dbVars, told, serving>>

\* Users edit the graph, undeploy, and switch auto-rollback on again.  An
\* edited graph is one that no version has and no handler has read (bound).
Edit ==
    /\ \E config \in Configs \ ({pipeline.graph} \cup {rows[i].config : i \in DOMAIN rows}
                                 \cup {handler[h].config : h \in Handlers}) :
          pipeline' = [pipeline EXCEPT !.graph = config]
    /\ UNCHANGED <<rows, releases, serverVars, told, serving>>

Undeploy ==
    /\ pipeline.deployed
    /\ pipeline' = [pipeline EXCEPT !.deployed = FALSE]
    /\ UNCHANGED <<rows, releases, serverVars, told, serving>>

EnableAutoRollback ==
    /\ ~pipeline.autoRollback
    /\ pipeline' = [pipeline EXCEPT !.autoRollback = TRUE]
    /\ UNCHANGED <<rows, releases, serverVars, told, serving>>

\* The config route gives every matching node the latest row.
ServedRows == IF pipeline.deployed /\ rows # <<>> THEN Latest(rows) ELSE {NoRow}

PollConfig(n) ==
    /\ serving[n] \notin ServedRows
    /\ \E i \in ServedRows : serving' = [serving EXCEPT ![n] = i]
    /\ UNCHANGED <<dbVars, serverVars, told>>

Begin(h) == BeginDeploy(h) \/ BeginCreate(h) \/ BeginBroaden(h) \/ BeginRollback(h)

Continue(h) ==
    \/ ReadNumber(h) \/ InsertVersion(h) \/ PublishVersion(h)
    \/ ReadGraph(h) \/ ReadPrevious(h) \/ RecordRollout(h)
    \/ PassBudget(h) \/ BudgetBurned(h) \/ RecordBroadened(h)
    \/ RestoreGraph(h) \/ RecordRolledBack(h)
    \/ MarkHealthCheck(h) \/ AutoBroaden(h) \/ LeaveForReview(h)
    \/ ErrorRateExceeded(h) \/ ErrorRateAcceptable(h)
    \/ DisableAutoRollback(h) \/ FindActiveRollout(h)

Next ==
    \/ \E h \in Requests : Begin(h)
    \/ BeginHealthTick
    \/ BeginRollbackTick
    \/ \E h \in Handlers : Continue(h) \/ CallFails(h) \/ MarkFails(h)
    \/ ServerRestarts
    \/ \E r \in DOMAIN releases : WindowExpires(r)
    \/ Edit \/ Undeploy \/ EnableAutoRollback
    \/ \E n \in Nodes : PollConfig(n)

Spec == Init /\ [][Next]_vars

(***************************************************************************)
(* setInterval keeps starting ticks, a tick that waits for the database    *)
(* goes on when the call returns, and the update that marks a rollout does *)
(* not fail every time it is tried.                                        *)
(***************************************************************************)
Fairness ==
    /\ WF_vars(BeginHealthTick)
    /\ WF_vars(Continue("healthTick"))
    /\ SF_vars(MarkHealthCheck("healthTick"))

FairSpec == Spec /\ Fairness

-----------------------------------------------------------------------------
\* Types; and a rollout is recorded as broadened only after every remaining
\* node was told to fetch the new version, even if the recording handler
\* failed before and a later one finished the work.
BroadenedWasTold ==
  /\ TypeOK
  /\ \A r \in DOMAIN releases : Status(r) = "BROADENED" =>
           \A n \in Nodes \ releases[r].canaryNodes : <<r, n>> \in told

\* Whatever runs beside createRollout, the version a rollback would deploy is
\* an older one than the canary: a rollback never deploys the canary again.
PreviousIsOlder ==
    \A r \in DOMAIN releases : releases[r].previous # NoRow =>
        rows[releases[r].previous].version < rows[releases[r].canary].version

\* While a rollout is in its canary phase, only canary nodes have the canary.
CanaryStaysOnCanaryNodes ==
    \A r \in DOMAIN releases, n \in Nodes :
        Status(r) = "CANARY_DEPLOYED" /\ serving[n] = releases[r].canary
            => n \in releases[r].canaryNodes

\* A version made by rolling a canary back has the config the rollout keeps as
\* its previous version, even if the graph was edited while it was made.
RollbacksCopyPrevious ==
    [][ \A h \in Handlers :
          LET previous == releases[handler[h].release].previous IN
          handler[h].op = "rollback" /\ At(h, "insert") /\ Len(rows') > Len(rows)
              /\ handler'[h] # handler[h]
            => rows'[Len(rows')].config = rows[previous].config ]_vars

\* A rollout whose window has passed is reviewed, or was ended, whatever
\* failed in earlier ticks and however often the server restarted.
WindowsAreReviewed == \A r \in ReleaseIds : Due(r) ~> ~Due(r)
=============================================================================
