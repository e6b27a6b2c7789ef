---------------------------- MODULE EventSamples -----------------------------
(***************************************************************************)
(* A request for samples of the events of some components, from the user's *)
(* call to the stored samples (src/server/routers/                         *)
(* pipeline-observability.ts, src/app/api/agent/samples/route.ts, the      *)
(* sample parts of the heartbeat and config routes, and of the agent).     *)
(*                                                                         *)
(* The request is pushed to one node, or published to all, and every node  *)
(* that polls while it is pending takes it up as well.  A node samples the *)
(* components one by one; a result goes to the samples route, or with a    *)
(* heartbeat if it came by a poll or that route failed.  The two routes    *)
(* bind the request to the first node whose result they accept, and end it *)
(* each in its own way.                                                    *)
(***************************************************************************)
EXTENDS Naturals, FiniteSets

CONSTANTS
    Nodes,        \* nodes that run the pipeline
    Keys,         \* componentKeys of the request
    Broken,       \* those that can only be sampled with an error
    MaxTold,      \* bound on how often a node takes the request up
    MaxFailures   \* bound on failed calls and queries

ASSUME EventSamplesAssumption ==
    /\ IsFiniteSet(Nodes) /\ IsFiniteSet(Keys) /\ Keys # {} /\ Broken \subseteq Keys
    /\ "none" \notin Nodes /\ "heartbeat" \notin Keys
    /\ MaxTold \in Nat /\ MaxFailures \in Nat

VARIABLES
    status, nodeId,   \* the EventSampleRequest row
    samples,          \* the EventSample rows, by component
    caller,           \* progress of requestSamples
    sampling,         \* what each agent is sampling, and where it will send it
    sampleResults,    \* results waiting for the next heartbeat of each agent
    handlers,         \* calls the two routes are handling
    told, failures,
    taken,            \* results agents have obtained
    lapses,           \* a binding taken back, a heartbeat's results given up
    overtaken         \* heartbeats about to overwrite the request when it ended

requestVars == <<status, nodeId, samples>>
agentVars == <<sampling, sampleResults, told, taken>>
vars == <<requestVars, caller, agentVars, handlers, failures, lapses, overtaken>>

None == "none"
Ended == {"COMPLETED", "ERROR", "EXPIRED"}

Result == [key: Keys, error: BOOLEAN]

\* One call of the samples route per component, one heartbeat per node.
Heartbeat == "heartbeat"
Calls == Nodes \X (Keys \cup {Heartbeat})

NoSample == [node |-> None, error |-> FALSE]
NoCall == [step |-> "next", todo |-> {}]

HandlerStates ==
    [step: {"next"}, todo: SUBSET Result]
      \cup [step: {"create", "finish", "failed", "overwrite"},
            todo: SUBSET Result, item: Result]

TypeOK ==
    /\ status \in {None, "PENDING", "deleted"} \cup Ended
    /\ nodeId \in Nodes \cup {None}
    /\ samples \in [Keys -> [node: Nodes \cup {None}, error: BOOLEAN]]
    /\ caller \in [step: {"idle", "probe", "done"}, left: SUBSET Nodes]
              \cup [step: {"push", "release"}, left: SUBSET Nodes, node: Nodes]
    /\ sampling \in [Nodes -> SUBSET (Keys \X {"route", "heartbeat"})]
    /\ sampleResults \in [Nodes -> SUBSET Result]
    /\ handlers \in [Calls -> HandlerStates]
    /\ told \in 0 .. MaxTold /\ failures \in 0 .. MaxFailures
    /\ taken \subseteq Nodes \X Keys
    /\ lapses \subseteq {"release", "abort"} /\ overtaken \subseteq Calls

Init ==
    /\ status = None /\ nodeId = None
    /\ samples = [k \in Keys |-> NoSample]
    /\ caller = [step |-> "idle", left |-> Nodes]
    /\ sampling = [n \in Nodes |-> {}]
    /\ sampleResults = [n \in Nodes |-> {}]
    /\ handlers = [c \in Calls |-> NoCall]
    /\ told = 0 /\ failures = 0
    /\ taken = {} /\ lapses = {} /\ overtaken = {}

-----------------------------------------------------------------------------
(***************************************************************************)
(* requestSamples.                                                         *)
(***************************************************************************)
Told(nodes, via) ==
    /\ told' = told + Cardinality(nodes)
    /\ told' <= MaxTold
    /\ sampling' = [n \in Nodes |->
                   IF n \in nodes THEN sampling[n] \cup (Keys \X {via}) ELSE sampling[n]]

Return == caller' = [step |-> "done", left |-> {}]

Request ==
    /\ status = None
    /\ status' = "PENDING"
    /\ caller' = [caller EXCEPT !.step = "probe"]
    /\ UNCHANGED <<nodeId, samples, agentVars, handlers, failures, lapses, overtaken>>

\* A node that is connected to this process is bound before it is told; the
\* others are passed over, here or by FanOut.
Bind(n) ==
    /\ caller.step = "probe" /\ n \in caller.left
    /\ IF status = "PENDING" /\ nodeId = None
       THEN /\ nodeId' = n
            /\ caller' = [step |-> "push", left |-> caller.left \ {n}, node |-> n]
       ELSE UNCHANGED nodeId /\ Return
    /\ UNCHANGED <<status, samples, agentVars, handlers, failures, lapses, overtaken>>

\* tryLocalPush; the message may still be lost on its way.
Push ==
    /\ caller.step = "push"
    /\ \/ Return /\ Told({caller.node}, "route")
       \/ Return /\ UNCHANGED <<sampling, told>>
       \/ caller' = [caller EXCEPT !.step = "release"] /\ UNCHANGED <<sampling, told>>
    /\ UNCHANGED <<requestVars, sampleResults, taken, handlers, failures, lapses, overtaken>>

Release ==
    /\ caller.step = "release"
    /\ IF status = "PENDING" /\ nodeId = caller.node
       THEN nodeId' = None /\ lapses' = lapses \cup {"release"}
       ELSE UNCHANGED <<nodeId, lapses>>
    /\ caller' = [step |-> "probe", left |-> caller.left]
    /\ UNCHANGED <<status, samples, agentVars, handlers, failures, overtaken>>

\* Some of the nodes hear of it; when none can, the request is deleted.
FanOut ==
    /\ caller.step = "probe"
    /\ \/ /\ \E nodes \in SUBSET Nodes : Told(nodes, "route")
          /\ UNCHANGED status
       \/ /\ status' = "deleted"
          /\ UNCHANGED <<sampling, told>>
    /\ Return
    /\ UNCHANGED <<nodeId, samples, sampleResults, taken, handlers, failures, lapses, overtaken>>

-----------------------------------------------------------------------------
(***************************************************************************)
(* The agents.  What they sample or send once the request is over is left  *)
(* out: both routes refuse it (MayClaim).                                  *)
(***************************************************************************)
Poll(n) ==
    /\ status = "PENDING"
    /\ Told({n}, "heartbeat")
    /\ UNCHANGED <<requestVars, caller, sampleResults, taken, handlers, failures, lapses, overtaken>>

\* Mutant of Keep: results that could not be sent are dropped.
KeepNot(n, results) == UNCHANGED sampleResults

Keep(n, results) ==
    sampleResults' = [sampleResults EXCEPT ![n] = @ \cup results]

Calling(call, results) == handlers' = [handlers EXCEPT ![call].todo = results]

Failing == failures < MaxFailures /\ failures' = failures + 1

\* sampler.Sample has a result for one component, perhaps an error.
ResultOf(k) == [key |-> k, error |-> k \in Broken]

Sampled(n, k, via) ==
    /\ status = "PENDING" /\ <<k, via>> \in sampling[n]
    /\ sampling' = [sampling EXCEPT ![n] = @ \ {<<k, via>>}]
    /\ taken' = taken \cup {<<n, k>>}
    /\ UNCHANGED <<requestVars, caller, told, lapses, overtaken>>

SampleForHeartbeat(n, k) ==
    /\ Sampled(n, k, "heartbeat")
    /\ Keep(n, {ResultOf(k)})
    /\ UNCHANGED <<handlers, failures>>

\* The call may fail before the route has it, or its answer may be lost.
SampleForRoute(n, k) ==
    /\ Sampled(n, k, "route")
    /\ handlers[<<n, k>>] = NoCall
    /\ \/ Calling(<<n, k>>, {ResultOf(k)}) /\ UNCHANGED <<sampleResults, failures>>
       \/ Calling(<<n, k>>, {ResultOf(k)}) /\ Failing /\ Keep(n, {ResultOf(k)})
       \/ UNCHANGED handlers /\ Failing /\ Keep(n, {ResultOf(k)})

\* sendHeartbeat: the results go back when the call failed.
SendHeartbeat(n) ==
    /\ status = "PENDING" /\ sampleResults[n] # {}
    /\ handlers[<<n, Heartbeat>>] = NoCall
    /\ Calling(<<n, Heartbeat>>, sampleResults[n])
    /\ \/ sampleResults' = [sampleResults EXCEPT ![n] = {}] /\ UNCHANGED failures
       \/ UNCHANGED sampleResults /\ Failing
    /\ UNCHANGED <<requestVars, caller, sampling, told, taken, lapses, overtaken>>

-----------------------------------------------------------------------------
(***************************************************************************)
(* The two routes; call is <<node, component>> or <<node, Heartbeat>>.     *)
(***************************************************************************)
IsHeartbeat(call) == call[2] = Heartbeat

Step(call, step) == handlers' = [handlers EXCEPT ![call].step = step]

\* On to the next result of the call.
Skip(call) ==
    handlers' = [handlers EXCEPT ![call] = [step |-> "next", todo |-> @.todo]]

\* Mutant of MayClaim: the node that is bound to the request is not asked for.
MayClaimAny(n) == status = "PENDING"

MayClaim(n) == status = "PENDING" /\ nodeId \in {None, n}

\* The claim repeats what was checked before: the request is pending.  A
\* request is pending only once, so all results are refused once it is not.
Claim(call) ==
    /\ handlers[call].step = "next"
    /\ \E r \in handlers[call].todo :
          LET rest == IF status = "PENDING" THEN handlers[call].todo \ {r} ELSE {} IN
          IF MayClaim(call[1])
          THEN /\ nodeId' = call[1]
               /\ handlers' = [handlers EXCEPT ![call] =
                                 [step |-> "create", todo |-> rest, item |-> r]]
          ELSE /\ UNCHANGED nodeId
               /\ handlers' = [handlers EXCEPT ![call].todo = rest]
    /\ UNCHANGED <<status, samples, caller, agentVars, failures, lapses, overtaken>>

Row(call) == [node |-> call[1], error |-> handlers[call].item.error]

\* A second sample of the component violates the unique constraint, which
\* only the samples route knows to ignore.
Create(call) ==
    LET key == handlers[call].item.key IN
    /\ handlers[call].step = "create"
    /\ IF samples[key] = NoSample /\ status # "deleted"
       THEN samples' = [samples EXCEPT ![key] = Row(call)] /\ Step(call, "finish")
       ELSE /\ UNCHANGED samples
            /\ IF IsHeartbeat(call) THEN Step(call, "failed") ELSE Skip(call)
    /\ UNCHANGED <<status, nodeId, caller, agentVars, failures, lapses, overtaken>>

Pending(call) ==
    handlers[call].todo \cup
      (IF handlers[call].step = "next" THEN {} ELSE {handlers[call].item})

\* A query fails.  The samples route answers with an error and the agent
\* keeps the result; the heartbeat was answered before, so its results are
\* given up, unless it had claimed the request and may note the error.
Break(call) ==
    /\ handlers[call] # NoCall
    /\ Failing
    /\ IF IsHeartbeat(call) /\ handlers[call].step \in {"create", "finish"}
       THEN Step(call, "failed") /\ UNCHANGED <<sampleResults, lapses>>
       ELSE /\ handlers' = [handlers EXCEPT ![call] = NoCall]
            /\ IF IsHeartbeat(call)
               THEN lapses' = lapses \cup {"abort"} /\ UNCHANGED sampleResults
               ELSE Keep(call[1], Pending(call)) /\ UNCHANGED lapses
    /\ UNCHANGED <<requestVars, caller, sampling, told, taken, overtaken>>

\* Mutant of Outcome: a request is over only when all went well.
OutcomeOfSuccess(rows) ==
    IF \E row \in rows : row = NoSample \/ row.error THEN "PENDING" ELSE "COMPLETED"

\* What the samples route makes of a request with these samples.
Outcome(rows) ==
    IF NoSample \in rows THEN "PENDING"
    ELSE IF \E row \in rows : row.error THEN "ERROR" ELSE "COMPLETED"

\* Notes who is still about to overwrite the request when it ends.
Overtake ==
    overtaken' = IF status \notin Ended /\ status' \in Ended
                 THEN {c \in Calls : handlers[c].step = "overwrite"} ELSE overtaken

FinishInRoute(call) ==
    /\ handlers[call].step = "finish" /\ ~IsHeartbeat(call)
    /\ LET outcome == Outcome({samples[k] : k \in Keys}) IN
       IF outcome # "PENDING" /\ status = "PENDING"
       THEN status' = outcome /\ nodeId' = call[1]
       ELSE UNCHANGED <<status, nodeId>>
    /\ Overtake
    /\ Skip(call)
    /\ UNCHANGED <<samples, caller, agentVars, failures, lapses>>

Write(call, outcome) ==
    /\ IF status = "deleted" THEN UNCHANGED <<status, nodeId>>
       ELSE status' = outcome /\ nodeId' = call[1]
    /\ Overtake
    /\ Skip(call)
    /\ UNCHANGED <<samples, caller, agentVars, failures, lapses>>

\* The heartbeat ends the request with the first result it stores, whatever
\* its status by then and whatever is missing.
FinishInHeartbeat(call) ==
    /\ handlers[call].step = "finish" /\ IsHeartbeat(call)
    /\ Write(call, IF handlers[call].item.error THEN "ERROR" ELSE "COMPLETED")

\* Mutant of LookAgain: the error is noted whatever the status is by now.
LookAgainNot(call) ==
    /\ handlers[call].step = "failed"
    /\ Step(call, "overwrite")
    /\ UNCHANGED <<requestVars, caller, agentVars, failures, lapses, overtaken>>

LookAgain(call) ==
    /\ handlers[call].step = "failed"
    /\ IF status = "PENDING" THEN Step(call, "overwrite") ELSE Skip(call)
    /\ UNCHANGED <<requestVars, caller, agentVars, failures, lapses, overtaken>>

Overwrite(call) ==
    /\ handlers[call].step = "overwrite"
    /\ Write(call, "ERROR")

Handle(call) ==
    \/ Claim(call) \/ Create(call)
    \/ FinishInRoute(call) \/ FinishInHeartbeat(call)
    \/ LookAgain(call) \/ Overwrite(call)

\* The hourly clean-up of the leader.
Expire ==
    /\ status = "PENDING"
    /\ status' = "EXPIRED"
    /\ Overtake
    /\ UNCHANGED <<nodeId, samples, caller, agentVars, handlers, failures, lapses>>

-----------------------------------------------------------------------------
Next ==
    \/ Request \/ Push \/ Release \/ FanOut \/ Expire
    \/ \E n \in Nodes : Bind(n) \/ Poll(n) \/ SendHeartbeat(n)
    \/ \E n \in Nodes, k \in Keys : SampleForHeartbeat(n, k) \/ SampleForRoute(n, k)
    \/ \E c \in Calls : Handle(c) \/ Break(c)

Spec == Init /\ [][Next]_vars

\* Heartbeats go on and calls are handled; nothing else has to happen.
Fairness ==
    /\ \A n \in Nodes : WF_vars(SendHeartbeat(n))
    /\ \A c \in Calls : WF_vars(Handle(c))

FairSpec == Spec /\ Fairness

-----------------------------------------------------------------------------
\* Types; and the samples of a request come from one node, the one it is
\* bound to, unless requestSamples took a binding back that the node may
\* already have used.
OneNodePerRequest ==
    /\ TypeOK
    /\ "release" \notin lapses =>
         \A k \in Keys : samples[k] # NoSample => samples[k].node = nodeId

\* While a request is pending, a result of the node it may be bound to is
\* stored, on its way or waiting for the next heartbeat, whatever call or
\* query failed, unless that ended the handling of a heartbeat, or a binding
\* was taken back (pipeline-observability.ts:398-401).
ResultsAreKept ==
    status = "PENDING" /\ lapses = {} =>
      \A n \in Nodes, k \in Keys :
         <<n, k>> \in taken /\ nodeId \in {n, None} =>
           \/ samples[k] # NoSample
           \/ \E r \in sampleResults[n] : r.key = k
           \/ \E c \in {k, Heartbeat} : \E r \in Pending(<<n, c>>) : r.key = k

\* A request that has ended changes its status only in a step of a heartbeat
\* that has stored a result of its own (heartbeat/route.ts:102 asks for no
\* status), or that looked again after a failure and found it pending before
\* the end: one that fails, or looks, after the end leaves the request alone,
\* as the comment at :111-113 says, and so does the samples route.  (Between
\* the second look and the update the code can still overwrite an end.)
EndsAreKept ==
    [][(status \in Ended /\ status' \notin {status, "deleted"}) =>
         \E n \in Nodes :
            LET call == <<n, Heartbeat>> IN
            /\ handlers'[call] # handlers[call]
            /\ \/ /\ handlers[call].step = "finish"
                  /\ samples[handlers[call].item.key] = Row(call)
               \/ handlers[call].step = "overwrite" /\ call \in overtaken]_vars

\* A request ends once its node has a result for every component, however
\* these are delivered and though no clean-up expires it, unless a binding was
\* taken back or the handling of a heartbeat given up.
SampledRequestsEnd ==
    (/\ status = "PENDING" /\ lapses = {}
     /\ \E n \in Nodes : nodeId = n /\ \A k \in Keys : <<n, k>> \in taken)
      ~> (status # "PENDING" \/ lapses # {})

=============================================================================
