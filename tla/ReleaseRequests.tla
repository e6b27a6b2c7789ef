--------------------------- MODULE ReleaseRequests ---------------------------
(***************************************************************************)
(* Requests to deploy a pipeline and to promote it to another environment: *)
(* who asks, who reviews, and what is deployed in the end                  *)
(* (src/server/routers/release/direct.ts and promotion.ts,                 *)
(* src/server/services/promotion-service.ts, the webhook route of the git  *)
(* host).                                                                  *)
(*                                                                         *)
(* A request is a Release row.  Its handlers read it, check it, claim it   *)
(* with an updateMany that names the expected status, and go on; between   *)
(* two calls of the database other handlers run, of the same server or of  *)
(* another one.  Each user runs one handler at a time, and the webhook of  *)
(* the git host is one more.                                               *)
(*                                                                         *)
(* One source pipeline and one name in one target environment are          *)
(* modelled.  deployAgent is one step here; its own calls are those of     *)
(* StagedRollout.                                                          *)
(***************************************************************************)
EXTENDS Naturals, Sequences, FiniteSets

CONSTANTS
    Users,
    Configs,         \* graphs of the source pipeline, or the YAML made of them
    Referencing,     \* the configs that refer to variables: VAR[...]
    Values,          \* what the variables of pipeline and environment may say
    Modes,           \* the settings of the environments to look at
    MaxRequests,     \* bound on the requests
    MaxDeployments   \* bound on the versions deployed for requests

ASSUME RequestsAssumption ==
    /\ "nobody" \notin Users /\ "gitHost" \notin Users
    /\ Referencing \subseteq Configs
    /\ "unset" \notin Values /\ "none" \notin Values
    /\ Modes \subseteq [approval: BOOLEAN,   \* requireDeployApproval
                        gitOps: BOOLEAN,     \* gitOpsMode is "promotion"
                        reliable: BOOLEAN]   \* no crash, and no failing claim or revert
    /\ MaxRequests \in Nat \ {0} /\ MaxDeployments \in Nat \ {0}

VARIABLES
    mode,
    graph,        \* the source pipeline's graph
    variables,    \* the variables' values, or Unset if one of them is missing
    requests,     \* the Release rows, in the order of their creation
    deployments,  \* versions created for DIRECT requests
    targets,      \* pipelines created under the name in the target environment
    handler       \* the next call of each handler

dbVars == <<graph, variables, requests, deployments, targets>>
vars   == <<mode, dbVars, handler>>

Unset    == "unset"
NoValues == "none"      \* nothing was resolved
Nobody == "nobody"
GitHost == "gitHost"
Handlers == Users \cup {GitHost}

RequestIds == 1 .. MaxRequests

Statuses ==
    {"PENDING", "APPROVED", "DEPLOYED", "REJECTED", "CANCELLED",
     "AWAITING_PR_MERGE", "DEPLOYING"}

Requests ==
    [strategy: {"DIRECT", "PROMOTION"}, status: Statuses,
     requester: Users \cup {Nobody}, reviewer: Users \cup {Nobody},
     config: Configs, pull: {"none", "open", "merged"}]

HandlerStates ==
    [at: {"idle", "approve", "reject", "cancel", "deploy", "record", "revert",
          "pull", "await", "check", "commit"},
     request: 0 .. MaxRequests]

Blank == [at |-> "idle", request |-> 0]

\* What came of a request.  A version that was deployed has its YAML (a config
\* resolved with values), and the graph its log level and snapshot are of.
Promotions == [request: RequestIds, config: Configs]

Versions ==
    [request: RequestIds, config: Configs, values: Values \cup {NoValues},
     snapshot: Configs]

TypeOK ==
    /\ mode \in Modes
    /\ graph \in Configs
    /\ variables \in Values \cup {Unset}
    /\ requests \in Seq(Requests) /\ Len(requests) <= MaxRequests
    /\ \A r \in DOMAIN requests : requests[r].status = "APPROVED" => requests[r].reviewer \in Users
    /\ deployments \in Seq(Versions)
    /\ targets \in Seq(Promotions)
    /\ handler \in [Handlers -> HandlerStates]

Status(r)   == requests[r].status
Strategy(r) == requests[r].strategy

Init ==
    /\ mode \in Modes
    /\ graph \in Configs
    /\ variables \in Values \cup {Unset}
    /\ requests = <<>>
    /\ deployments = <<>>
    /\ targets = <<>>
    /\ handler = [h \in Handlers |-> Blank]

-----------------------------------------------------------------------------
Idle(h) == handler[h] = Blank

At(h, place) == handler[h].at = place

Goto(h, place, r) == handler' = [handler EXCEPT ![h] = [at |-> place, request |-> r]]

Finish(h) == handler' = [handler EXCEPT ![h] = Blank]

SetStatus(r, status) == requests' = [requests EXCEPT ![r].status = status]

SetReview(r, status, user) ==
    requests' = [requests EXCEPT ![r].status = status, ![r].reviewer = user]

NewRequest(strategy, user, config) ==
    requests' = Append(requests,
        [strategy |-> strategy, status |-> "PENDING", requester |-> user,
         reviewer |-> Nobody, config |-> config, pull |-> "none"])

\* The bounds, with what the running handlers may still add.
RoomForRequest    == Len(requests) < MaxRequests
RoomForDeployment ==
    Len(deployments) + Cardinality({h \in Handlers : At(h, "deploy")}) < MaxDeployments

-----------------------------------------------------------------------------
(***************************************************************************)
(* DIRECT requests: asked for by an editor, or imported by a push to the   *)
(* environment's repository.                                               *)
(***************************************************************************)
Edit ==
    /\ \E config \in Configs \ {graph} : graph' = config
    /\ UNCHANGED <<mode, variables, requests, deployments, targets, handler>>

\* Any editor sets, changes or deletes a variable; nobody reviews it.
EditVariables ==
    /\ \E values \in (Values \cup {Unset}) \ {variables} : variables' = values
    /\ UNCHANGED <<mode, graph, requests, deployments, targets, handler>>

\* release.agent for an editor.  The check and the insert are one serializable
\* transaction; the graph it makes the YAML of is read just before.
SubmitDeploy(u) ==
    /\ Idle(u) /\ mode.approval /\ RoomForRequest
    /\ ~ \E r \in DOMAIN requests : Strategy(r) = "DIRECT" /\ Status(r) = "PENDING"
    /\ NewRequest("DIRECT", u, graph)
    /\ UNCHANGED <<mode, graph, variables, deployments, targets, handler>>

\* The webhook's push event: the graph is replaced, then the request made,
\* whether or not another one is pending.  If the second call fails, or no
\* approval is asked for, the import is no more than an edit.
ImportFromGit ==
    /\ Idle(GitHost) /\ mode.approval /\ RoomForRequest
    /\ \E config \in Configs :
          graph' = config /\ NewRequest("DIRECT", Nobody, config)
    /\ UNCHANGED <<mode, variables, deployments, targets, handler>>

-----------------------------------------------------------------------------
(***************************************************************************)
(* Review: the handler reads the request and checks it, then claims it.    *)
(***************************************************************************)
MayApprove(u, r) == Status(r) = "PENDING" /\ requests[r].requester # u

MayReject(u, r) == Status(r) = "PENDING"

MayCancel(u, r) ==
    \/ (Status(r) = "PENDING" /\ requests[r].requester = u)
    \/ (Status(r) = "APPROVED" /\ Strategy(r) = "DIRECT")

BeginReview(u) ==
    /\ Idle(u)
    /\ \E r \in DOMAIN requests :
          \/ (MayApprove(u, r) /\ Goto(u, "approve", r))
          \/ (MayReject(u, r) /\ Goto(u, "reject", r))
          \/ (MayCancel(u, r) /\ Goto(u, "cancel", r))
    /\ UNCHANGED <<mode, dbVars>>

\* The approval of a promotion goes on to execute it.
ClaimApproval(u) ==
    LET r == handler[u].request
    IN  /\ At(u, "approve")
        /\ IF Status(r) # "PENDING" THEN UNCHANGED requests /\ Finish(u)
           ELSE /\ SetReview(r, "APPROVED", u)
                /\ IF Strategy(r) = "PROMOTION" THEN Goto(u, "check", r) ELSE Finish(u)
        /\ UNCHANGED <<mode, graph, variables, deployments, targets>>

ClaimRejection(u) ==
    LET r == handler[u].request
    IN  /\ At(u, "reject")
        /\ IF Status(r) # "PENDING" THEN UNCHANGED requests
           ELSE IF Strategy(r) = "DIRECT" THEN SetReview(r, "REJECTED", u)
           ELSE SetStatus(r, "REJECTED")
        /\ Finish(u)
        /\ UNCHANGED <<mode, graph, variables, deployments, targets>>

Cancellable(r) ==
    Status(r) = "PENDING" \/ (Status(r) = "APPROVED" /\ Strategy(r) = "DIRECT")

ClaimCancellation(u) ==
    LET r == handler[u].request
    IN  /\ At(u, "cancel")
        /\ IF Cancellable(r) THEN SetStatus(r, "CANCELLED") ELSE UNCHANGED requests
        /\ Finish(u)
        /\ UNCHANGED <<mode, graph, variables, deployments, targets>>

-----------------------------------------------------------------------------
(***************************************************************************)
(* executeApprovedRequest: claim, deploy the reviewed YAML, and give the   *)
(* claim back if anything fails.                                           *)
(***************************************************************************)
\* Mutant of ClaimExecution: the status is changed only after the deployment.
ClaimExecutionLate(r) == Status(r) = "APPROVED" /\ UNCHANGED requests

ClaimExecution(r) == Status(r) = "APPROVED" /\ SetStatus(r, "DEPLOYED")

BeginExecute(u) ==
    /\ Idle(u) /\ RoomForDeployment
    /\ \E r \in DOMAIN requests :
          /\ Strategy(r) = "DIRECT"
          /\ ClaimExecution(r)
          /\ Goto(u, "deploy", r)
    /\ UNCHANGED <<mode, graph, variables, deployments, targets>>

\* Mutant of DeployedConfig: deployAgent is called without the snapshot.
CurrentConfig(r) == graph

DeployedConfig(r) == requests[r].config

\* resolveConfigYamlVariables throws if a variable is missing.
Resolvable(config) == config \in Referencing => variables # Unset

ValuesFor(config) == IF config \in Referencing THEN variables ELSE NoValues

\* deployAgent: of the reviewed YAML it resolves the references with the
\* variables of now, and what it stores beside it is made of the graph of now.
Deploy(u) ==
    /\ At(u, "deploy")
    /\ LET r      == handler[u].request
           config == DeployedConfig(r)
       IN  /\ Resolvable(config)
           /\ deployments' = Append(deployments,
                 [request |-> r, config |-> config, values |-> ValuesFor(config),
                  snapshot |-> graph])
    /\ Goto(u, "record", handler[u].request)
    /\ UNCHANGED <<mode, graph, variables, requests, targets>>

\* Mutant of DeployRefused: only an exception gives the claim back.
DeployRefusedForGood(u) ==
    /\ At(u, "deploy")
    /\ Finish(u)
    /\ UNCHANGED <<mode, dbVars>>

\* deployAgent reports that the YAML is invalid, or throws before the insert:
\* always so if a variable the YAML refers to is missing.
DeployRefused(u) ==
    /\ At(u, "deploy")
    /\ Goto(u, "revert", handler[u].request)
    /\ UNCHANGED <<mode, dbVars>>

\* The node selector is saved.
RecordDeployed(u) ==
    /\ At(u, "record")
    /\ Finish(u)
    /\ UNCHANGED <<mode, dbVars>>

\* Something throws after the version was inserted.
RecordFails(u) ==
    /\ At(u, "record")
    /\ Goto(u, "revert", handler[u].request)
    /\ UNCHANGED <<mode, dbVars>>

RevertedStatus == "APPROVED"

Revert(u) ==
    LET r == handler[u].request
    IN  /\ At(u, "revert")
        /\ IF Status(r) = "DEPLOYED" THEN SetStatus(r, RevertedStatus) ELSE UNCHANGED requests
        /\ Finish(u)
        /\ UNCHANGED <<mode, graph, variables, deployments, targets>>

-----------------------------------------------------------------------------
(***************************************************************************)
(* Promotion requests.  executePromotion runs in a transaction of the      *)
(* default isolation level: another one may commit between its check of    *)
(* the name and its own commit.  It does not look at the request's status. *)
(***************************************************************************)
Initiate(u) ==
    /\ Idle(u) /\ RoomForRequest
    /\ targets = <<>>
    /\ NewRequest("PROMOTION", u, graph)
    /\ IF mode.gitOps THEN Goto(u, "pull", Len(requests) + 1)
       ELSE IF ~mode.approval THEN Goto(u, "check", Len(requests) + 1)
       ELSE UNCHANGED handler
    /\ UNCHANGED <<mode, graph, variables, deployments, targets>>

OpenPull(u) ==
    /\ At(u, "pull")
    /\ requests' = [requests EXCEPT ![handler[u].request].pull = "open"]
    /\ Goto(u, "await", handler[u].request)
    /\ UNCHANGED <<mode, graph, variables, deployments, targets>>

AwaitMerge(u) ==
    /\ At(u, "await")
    /\ SetStatus(handler[u].request, "AWAITING_PR_MERGE")
    /\ Finish(u)
    /\ UNCHANGED <<mode, graph, variables, deployments, targets>>

\* On the git host somebody merges the pull request.
MergePull(r) ==
    /\ requests[r].pull = "open"
    /\ requests' = [requests EXCEPT ![r].pull = "merged"]
    /\ UNCHANGED <<mode, graph, variables, deployments, targets, handler>>

\* The webhook's merge event, delivered once or again.  If the request does
\* not await it, the event is answered and has no effect.
PullMerged(r) ==
    /\ Idle(GitHost)
    /\ requests[r].pull = "merged" /\ Status(r) = "AWAITING_PR_MERGE"
    /\ SetStatus(r, "DEPLOYING")
    /\ Goto(GitHost, "check", r)
    /\ UNCHANGED <<mode, graph, variables, deployments, targets>>

CheckName(h) ==
    /\ At(h, "check")
    /\ IF targets = <<>> THEN Goto(h, "commit", handler[h].request) ELSE Finish(h)
    /\ UNCHANGED <<mode, dbVars>>

Executor(h) == IF h = GitHost THEN requests[handler[h].request].requester ELSE h

\* The target gets the graph the source pipeline has now.
CommitPromotion(h) ==
    /\ At(h, "commit")
    /\ targets' = Append(targets, [request |-> handler[h].request, config |-> graph])
    /\ SetReview(handler[h].request, "DEPLOYED", Executor(h))
    /\ Finish(h)
    /\ UNCHANGED <<mode, graph, variables, deployments>>

-----------------------------------------------------------------------------
\* A call fails: the handler throws.  In executeApprovedRequest this is the
\* read of the claimed request, outside the try block, or the revert; any
\* other call before the insert leads to DeployRefused, after it to RecordFails.
CallFails(h) ==
    /\ ~Idle(h) /\ ~At(h, "record")
    /\ mode.reliable => handler[h].at \notin {"deploy", "revert"}
    /\ Finish(h)
    /\ UNCHANGED <<mode, dbVars>>

ServerStops ==
    /\ ~mode.reliable
    /\ \E h \in Handlers : ~Idle(h)
    /\ handler' = [h \in Handlers |-> Blank]
    /\ UNCHANGED <<mode, dbVars>>

UserStep(u) ==
    \/ SubmitDeploy(u) \/ Initiate(u) \/ BeginReview(u) \/ BeginExecute(u)
    \/ ClaimApproval(u) \/ ClaimRejection(u) \/ ClaimCancellation(u)
    \/ Deploy(u) \/ DeployRefused(u) \/ RecordDeployed(u) \/ RecordFails(u) \/ Revert(u)
    \/ OpenPull(u) \/ AwaitMerge(u)

Next ==
    \/ Edit
    \/ EditVariables
    \/ \E u \in Users : UserStep(u)
    \/ ImportFromGit
    \/ \E r \in DOMAIN requests : MergePull(r) \/ PullMerged(r)
    \/ \E h \in Handlers : CheckName(h) \/ CommitPromotion(h) \/ CallFails(h)
    \/ ServerStops

Spec == Init /\ [][Next]_vars

-----------------------------------------------------------------------------
ApprovedByOther(request) == request.reviewer \in Users \ {request.requester}

\* The YAML of a version is the one that was reviewed, word for word unless it
\* refers to variables; then with a value for each of them.
DeploysReviewed(version, request) ==
    /\ version.config = request.config
    /\ IF request.config \in Referencing THEN version.values \in Values
       ELSE version.values = NoValues

\* Types; and what is deployed for a request was approved by somebody else than
\* who asked for it, and is the YAML that was reviewed, however often the
\* deployment was retried and the graph edited in between.  Of the variables
\* it refers to, names are reviewed and values are not (deploy-agent.ts:173;
\* the comments "as-is" at :127 and "NOT the current pipeline state" at
\* direct.ts:570 go further); nor are the log level, the global config and the
\* node snapshot stored with the version (:190-209).  So was what is promoted
\* approved, unless promotions are reviewed on the git host.
TwoPersonRule ==
    /\ TypeOK
    /\ mode.approval =>
         /\ \A d \in DOMAIN deployments :
               LET request == requests[deployments[d].request]
               IN  ApprovedByOther(request) /\ DeploysReviewed(deployments[d], request)
         /\ ~mode.gitOps =>
               \A t \in DOMAIN targets : ApprovedByOther(requests[targets[t].request])

\* A version is deployed only for a request that is claimed at that moment, so
\* never for one that was rejected or cancelled while its executor worked.
DeployedWhileClaimed ==
    [][ Len(deployments') > Len(deployments) =>
            LET r == deployments'[Len(deployments')].request
            IN  Status(r) = "DEPLOYED" /\ Cardinality({h \in Handlers :
                    ~Idle(h) /\ At(h, "deploy") /\ handler[h].request = r}) = 1 ]_vars

\* If the server does not stop and claims can be given back, a request that is
\* marked as deployed and that nobody works on was deployed: the refusal of an
\* invalid config, which is not an exception, gives the claim back as well.
ClaimsAreSettled ==
    mode.reliable =>
        \A r \in DOMAIN requests :
            Strategy(r) = "DIRECT" /\ Status(r) = "DEPLOYED" =>
                \/ \E h \in Handlers : handler[h].request = r
                                       /\ handler[h].at \in {"deploy", "record", "revert"}
                \/ \E d \in DOMAIN deployments : deployments[d].request = r

=============================================================================
