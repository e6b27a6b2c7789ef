-------------------------- MODULE EventSamplesProofs --------------------------
(***************************************************************************)
(* One node answers a request for samples, and no result is lost, for any  *)
(* nodes and components, any number of duplicates, and any calls and       *)
(* queries that fail.                                                      *)
(***************************************************************************)
EXTENDS EventSamples, FiniteSetTheorems, TLAPS

Claimed == {"create", "finish", "failed", "overwrite"}

(***************************************************************************)
(* A call that has claimed the request writes it again later, by its id    *)
(* alone.  That the request is still bound to its node then is not checked *)
(* by the code; it holds because no other node could claim it since.       *)
(***************************************************************************)
ClaimsStand ==
    "release" \notin lapses =>
        \A c \in Calls : handlers[c].step \in Claimed => nodeId = c[1]

SamplesAreBound ==
    "release" \notin lapses =>
        \A k \in Keys : samples[k] # NoSample => samples[k].node = nodeId /\ nodeId \in Nodes

\* A call that is about to end has stored its result, and only heartbeats note errors.
CallsFinish ==
    \A c \in Calls :
        /\ handlers[c].step = "finish" => samples[handlers[c].item.key] = Row(c)
        /\ handlers[c].step \in {"failed", "overwrite"} => IsHeartbeat(c)

\* Once the request has ended, no call is about to overwrite it but those that
\* were when it ended: to look again then is to leave it alone.
LooksWereBefore ==
    status \in Ended =>
        \A c \in Calls : handlers[c].step = "overwrite" => c \in overtaken

Fresh == status = None => taken = {} /\ caller.step = "idle"

Bound == ClaimsStand /\ SamplesAreBound /\ CallsFinish /\ Fresh

Inv == TypeOK /\ Bound /\ LooksWereBefore /\ ResultsAreKept

-----------------------------------------------------------------------------
(***************************************************************************)
(* Types.                                                                  *)
(***************************************************************************)
LEMMA CallType ==
    ASSUME NEW c \in Calls
    PROVE  c[1] \in Nodes /\ c[1] # None /\ Row(c) # NoSample
BY EventSamplesAssumption DEF Calls, None, Row, NoSample

LEMMA HandlerType ==
    ASSUME TypeOK, NEW c \in Calls
    PROVE  /\ handlers[c] \in HandlerStates
           /\ handlers[c].step \in {"next"} \cup Claimed
           /\ handlers[c].todo \in SUBSET Result
           /\ handlers[c].step \in Claimed =>
                 handlers[c].item \in Result /\ handlers[c].item.key \in Keys
           /\ handlers[c].step = "next" =>
                 handlers[c] = [step |-> "next", todo |-> handlers[c].todo]
BY DEF TypeOK, HandlerStates, Claimed, Result

LEMMA InitType == Init => TypeOK
<1> SUFFICES ASSUME Init PROVE TypeOK
    OBVIOUS
<1>1. NoCall \in HandlerStates
    BY DEF NoCall, HandlerStates
<1>2. handlers \in [Calls -> HandlerStates]
    BY <1>1 DEF Init
<1>3. /\ samples \in [Keys -> [node: Nodes \cup {None}, error: BOOLEAN]]
      /\ caller \in [step: {"idle", "probe", "done"}, left: SUBSET Nodes]
      /\ sampling \in [Nodes -> SUBSET (Keys \X {"route", "heartbeat"})]
      /\ sampleResults \in [Nodes -> SUBSET Result]
    BY DEF Init, NoSample
<1> QED
    BY <1>2, <1>3, EventSamplesAssumption DEF Init, TypeOK

LEMMA ToldType ==
    ASSUME TypeOK, NEW nodes \in SUBSET Nodes, NEW via \in {"route", "heartbeat"}, Told(nodes, via)
    PROVE  told' \in 0 .. MaxTold /\ sampling' \in [Nodes -> SUBSET (Keys \X {"route", "heartbeat"})]
<1>1. Cardinality(nodes) \in Nat
    BY EventSamplesAssumption, FS_Subset, FS_CardinalityType
<1>2. told' \in 0 .. MaxTold
    BY <1>1, EventSamplesAssumption DEF TypeOK, Told
<1>3. sampling' \in [Nodes -> SUBSET (Keys \X {"route", "heartbeat"})]
    BY DEF TypeOK, Told
<1> QED
    BY <1>2, <1>3

LEMMA OvertakeType == TypeOK /\ Overtake => overtaken' \subseteq Calls
BY DEF TypeOK, Overtake

LEMMA CallerType ==
    ASSUME TypeOK, Fresh,
           \/ Request \/ Push \/ Release \/ FanOut \/ Expire
           \/ \E n \in Nodes : Bind(n)
    PROVE  TypeOK'
<1>1. CASE Request
    <2>1. caller \in [step: {"idle", "probe", "done"}, left: SUBSET Nodes]
        BY <1>1 DEF Request, Fresh, TypeOK
    <2>2. caller' \in [step: {"idle", "probe", "done"}, left: SUBSET Nodes]
        BY <1>1, <2>1 DEF Request
    <2> QED
        BY <1>1, <2>2 DEF Request, TypeOK, agentVars
<1>2. CASE Push
    <2>1. caller \in [step: {"push", "release"}, left: SUBSET Nodes, node: Nodes]
        BY <1>2 DEF Push, TypeOK
    <2>2. /\ [step |-> "done", left |-> {}] \in [step: {"idle", "probe", "done"}, left: SUBSET Nodes]
          /\ [caller EXCEPT !.step = "release"]
                \in [step: {"push", "release"}, left: SUBSET Nodes, node: Nodes]
        BY <2>1
    <2>3. /\ told' \in 0 .. MaxTold
          /\ sampling' \in [Nodes -> SUBSET (Keys \X {"route", "heartbeat"})]
        <3>1. caller.node \in Nodes
            BY <2>1
        <3>2. CASE Told({caller.node}, "route")
            BY <3>1, <3>2, ToldType
        <3>3. CASE UNCHANGED <<sampling, told>>
            BY <3>3 DEF TypeOK
        <3> QED
            BY <1>2, <3>2, <3>3 DEF Push
    <2>4. caller' \in [step: {"idle", "probe", "done"}, left: SUBSET Nodes]
             \cup [step: {"push", "release"}, left: SUBSET Nodes, node: Nodes]
        BY <1>2, <2>2 DEF Push, Return
    <2> QED
        BY <1>2, <2>3, <2>4 DEF Push, TypeOK, requestVars
<1>3. CASE Release
    <2>1. caller \in [step: {"push", "release"}, left: SUBSET Nodes, node: Nodes]
        BY <1>3 DEF Release, TypeOK
    <2>2. caller' \in [step: {"idle", "probe", "done"}, left: SUBSET Nodes]
        BY <1>3, <2>1 DEF Release
    <2>3. nodeId' \in Nodes \cup {None} /\ lapses' \subseteq {"release", "abort"}
        BY <1>3 DEF Release, TypeOK
    <2> QED
        BY <1>3, <2>2, <2>3 DEF Release, TypeOK, agentVars
<1>4. CASE FanOut
    <2>1. /\ told' \in 0 .. MaxTold
          /\ sampling' \in [Nodes -> SUBSET (Keys \X {"route", "heartbeat"})]
        <3>1. CASE \E nodes \in SUBSET Nodes : Told(nodes, "route")
            BY <3>1, ToldType
        <3>2. CASE UNCHANGED <<sampling, told>>
            BY <3>2 DEF TypeOK
        <3> QED
            BY <1>4, <3>1, <3>2 DEF FanOut
    <2>2. caller' \in [step: {"idle", "probe", "done"}, left: SUBSET Nodes]
        BY <1>4 DEF FanOut, Return
    <2>3. status' \in {None, "PENDING", "deleted"} \cup Ended
        BY <1>4 DEF FanOut, TypeOK
    <2> QED
        BY <1>4, <2>1, <2>2, <2>3 DEF FanOut, TypeOK
<1>5. CASE Expire
    BY <1>5, OvertakeType DEF Expire, TypeOK, Ended, agentVars
<1>6. ASSUME NEW n \in Nodes, Bind(n) PROVE TypeOK'
    <2>1. caller.left \in SUBSET Nodes
        BY <1>6 DEF Bind, TypeOK
    <2>2. caller' \in [step: {"idle", "probe", "done"}, left: SUBSET Nodes]
             \cup [step: {"push", "release"}, left: SUBSET Nodes, node: Nodes]
        BY <1>6, <2>1 DEF Bind, Return
    <2>3. nodeId' \in Nodes \cup {None}
        BY <1>6 DEF Bind, TypeOK
    <2> QED
        BY <1>6, <2>2, <2>3 DEF Bind, TypeOK, agentVars
<1> QED
    BY <1>1, <1>2, <1>3, <1>4, <1>5, <1>6

LEMMA AgentType ==
    ASSUME TypeOK,
           \/ \E n \in Nodes : Poll(n) \/ SendHeartbeat(n)
           \/ \E n \in Nodes, k \in Keys : SampleForHeartbeat(n, k) \/ SampleForRoute(n, k)
    PROVE  TypeOK'
<1>1. ASSUME NEW n \in Nodes, Poll(n) PROVE TypeOK'
    <2>1. Told({n}, "heartbeat")
        BY <1>1 DEF Poll
    <2> QED
        BY <1>1, <2>1, ToldType DEF Poll, TypeOK, requestVars
<1>2. ASSUME NEW n \in Nodes, SendHeartbeat(n) PROVE TypeOK'
    <2>1. <<n, Heartbeat>> \in Calls /\ sampleResults[n] \in SUBSET Result
        BY DEF Calls, TypeOK
    <2>2. [handlers[<<n, Heartbeat>>] EXCEPT !.todo = sampleResults[n]] \in HandlerStates
        BY <1>2, <2>1 DEF SendHeartbeat, NoCall, HandlerStates
    <2>3. handlers' \in [Calls -> HandlerStates]
        BY <1>2, <2>1, <2>2 DEF SendHeartbeat, Calling, TypeOK
    <2>4. sampleResults' \in [Nodes -> SUBSET Result] /\ failures' \in 0 .. MaxFailures
        BY <1>2, EventSamplesAssumption DEF SendHeartbeat, TypeOK, Failing
    <2> QED
        BY <1>2, <2>3, <2>4 DEF SendHeartbeat, TypeOK, requestVars
<1>3. ASSUME NEW n \in Nodes, NEW k \in Keys, SampleForHeartbeat(n, k) \/ SampleForRoute(n, k)
      PROVE  TypeOK'
    <2>1. ResultOf(k) \in Result /\ <<n, k>> \in Calls
        BY DEF ResultOf, Result, Calls
    <2>2. /\ sampling' \in [Nodes -> SUBSET (Keys \X {"route", "heartbeat"})]
          /\ taken' \subseteq Nodes \X Keys
          /\ UNCHANGED <<requestVars, caller, told, lapses, overtaken>>
        BY <1>3 DEF SampleForHeartbeat, SampleForRoute, Sampled, TypeOK
    <2>3. sampleResults' \in [Nodes -> SUBSET Result]
        BY <1>3, <2>1 DEF SampleForHeartbeat, SampleForRoute, Keep, TypeOK
    <2>4. failures' \in 0 .. MaxFailures
        BY <1>3, EventSamplesAssumption DEF SampleForHeartbeat, SampleForRoute, Failing, TypeOK
    <2>5. handlers' \in [Calls -> HandlerStates]
        <3>1. CASE UNCHANGED handlers
            BY <3>1 DEF TypeOK
        <3>2. CASE Calling(<<n, k>>, {ResultOf(k)}) /\ handlers[<<n, k>>] = NoCall
            <4>1. [handlers[<<n, k>>] EXCEPT !.todo = {ResultOf(k)}] \in HandlerStates
                BY <2>1, <3>2 DEF NoCall, HandlerStates
            <4> QED
                BY <2>1, <3>2, <4>1 DEF Calling, TypeOK
        <3> QED
            BY <1>3, <3>1, <3>2 DEF SampleForHeartbeat, SampleForRoute
    <2> QED
        BY <2>2, <2>3, <2>4, <2>5 DEF TypeOK, requestVars
<1> QED
    BY <1>1, <1>2, <1>3

\* What a route does to the record of a call.
LEMMA StepType ==
    ASSUME TypeOK, NEW c \in Calls,
           \/ Skip(c)
           \/ handlers[c].step \in Claimed /\ \E step \in Claimed : Step(c, step)
    PROVE  handlers' \in [Calls -> HandlerStates]
<1>1. [step |-> "next", todo |-> handlers[c].todo] \in HandlerStates
    BY HandlerType DEF HandlerStates
<1>2. ASSUME NEW step \in Claimed, handlers[c].step \in Claimed
      PROVE  [handlers[c] EXCEPT !.step = step] \in HandlerStates
    BY <1>2 DEF TypeOK, HandlerStates, Claimed
<1> QED
    BY <1>1, <1>2 DEF Skip, Step, TypeOK

\* What the three ways to go on do to the record of the call, and to no other.
LEMMA CallingSets ==
    ASSUME TypeOK, NEW c \in Calls, NEW results \in SUBSET Result,
           handlers[c] = NoCall, Calling(c, results)
    PROVE  /\ handlers'[c].step = "next" /\ handlers'[c].todo = results
           /\ \A d \in Calls \ {c} : handlers'[d] = handlers[d]
<1>1. [handlers[c] EXCEPT !.todo = results] = [step |-> "next", todo |-> results]
    BY DEF NoCall
<1> QED
    BY <1>1 DEF Calling, TypeOK

LEMMA StepSets ==
    ASSUME TypeOK, NEW c \in Calls, handlers[c].step \in Claimed, NEW step, Step(c, step)
    PROVE  /\ handlers'[c].step = step
           /\ handlers'[c].todo = handlers[c].todo /\ handlers'[c].item = handlers[c].item
           /\ \A d \in Calls \ {c} : handlers'[d] = handlers[d]
<1>1. handlers[c] \in [step: Claimed, todo: SUBSET Result, item: Result]
    BY DEF TypeOK, HandlerStates, Claimed
<1>2. [handlers[c] EXCEPT !.step = step] =
          [step |-> step, todo |-> handlers[c].todo, item |-> handlers[c].item]
    BY <1>1
<1> QED
    BY <1>2 DEF Step, TypeOK

LEMMA SkipSets ==
    ASSUME TypeOK, NEW c \in Calls, Skip(c)
    PROVE  /\ handlers'[c].step = "next" /\ handlers'[c].todo = handlers[c].todo
           /\ \A d \in Calls \ {c} : handlers'[d] = handlers[d]
BY DEF Skip, TypeOK

\* The result that Claim takes up, and what it leaves of the others.
LEMMA ClaimCases ==
    ASSUME TypeOK, NEW c \in Calls, Claim(c)
    PROVE  /\ handlers[c].step = "next"
           /\ \E r \in handlers[c].todo, rest \in SUBSET Result :
                 /\ status = "PENDING" => rest = handlers[c].todo \ {r}
                 /\ \/ /\ MayClaim(c[1]) /\ nodeId' = c[1]
                       /\ handlers' = [handlers EXCEPT ![c] =
                                         [step |-> "create", todo |-> rest, item |-> r]]
                    \/ /\ ~MayClaim(c[1]) /\ nodeId' = nodeId
                       /\ handlers' = [handlers EXCEPT ![c].todo = rest]
<1>1. PICK r \in handlers[c].todo :
         LET rest == IF status = "PENDING" THEN handlers[c].todo \ {r} ELSE {} IN
         IF MayClaim(c[1])
         THEN /\ nodeId' = c[1]
              /\ handlers' = [handlers EXCEPT ![c] =
                                [step |-> "create", todo |-> rest, item |-> r]]
         ELSE /\ nodeId' = nodeId
              /\ handlers' = [handlers EXCEPT ![c].todo = rest]
    BY DEF Claim
<1> DEFINE rest == IF status = "PENDING" THEN handlers[c].todo \ {r} ELSE {}
<1>2. rest \in SUBSET Result
    BY HandlerType
<1>3. /\ status = "PENDING" => rest = handlers[c].todo \ {r}
      /\ \/ /\ MayClaim(c[1]) /\ nodeId' = c[1]
            /\ handlers' = [handlers EXCEPT ![c] =
                              [step |-> "create", todo |-> rest, item |-> r]]
         \/ /\ ~MayClaim(c[1]) /\ nodeId' = nodeId
            /\ handlers' = [handlers EXCEPT ![c].todo = rest]
    BY <1>1
<1> HIDE DEF rest
<1> QED
    BY <1>2, <1>3 DEF Claim

\* A claim takes up a result or goes on to the next; it never overwrites.
LEMMA ClaimStep ==
    ASSUME TypeOK, NEW c \in Calls, Claim(c)
    PROVE  /\ handlers'[c].step \in {"create", "next"}
           /\ \A d \in Calls \ {c} : handlers'[d] = handlers[d]
<1>1. PICK r \in handlers[c].todo, rest \in SUBSET Result :
         \/ handlers' = [handlers EXCEPT ![c] = [step |-> "create", todo |-> rest, item |-> r]]
         \/ handlers' = [handlers EXCEPT ![c].todo = rest]
    BY ClaimCases
<1>2. [handlers[c] EXCEPT !.todo = rest].step = "next"
    BY ClaimCases, HandlerType
<1>3. [step |-> "create", todo |-> rest, item |-> r].step = "create"
    OBVIOUS
<1> QED
    BY <1>1, <1>2, <1>3 DEF TypeOK

LEMMA RouteType ==
    ASSUME TypeOK, NEW c \in Calls, Handle(c) \/ Break(c)
    PROVE  TypeOK'
<1>0. c[1] \in Nodes /\ handlers \in [Calls -> HandlerStates]
    BY CallType DEF TypeOK
<1>1. CASE Claim(c)
    <2>1. nodeId' \in Nodes \cup {None}
        BY <1>0, <1>1 DEF Claim, TypeOK
    <2>2. PICK r \in handlers[c].todo, rest \in SUBSET Result :
             \/ handlers' = [handlers EXCEPT ![c] = [step |-> "create", todo |-> rest, item |-> r]]
             \/ handlers' = [handlers EXCEPT ![c].todo = rest] /\ handlers[c].step = "next"
        BY <1>1, ClaimCases
    <2>3. /\ [step |-> "create", todo |-> rest, item |-> r] \in HandlerStates
          /\ handlers[c].step = "next" => [handlers[c] EXCEPT !.todo = rest] \in HandlerStates
        BY HandlerType DEF HandlerStates
    <2>4. handlers' \in [Calls -> HandlerStates]
        BY <1>0, <2>2, <2>3
    <2> QED
        BY <1>1, <2>1, <2>4 DEF Claim, TypeOK, agentVars
<1>2. CASE Create(c)
    <2>1. handlers' \in [Calls -> HandlerStates]
        BY <1>2, StepType DEF Create, Claimed
    <2>2. Row(c) \in [node: Nodes \cup {None}, error: BOOLEAN]
        BY <1>0, <1>2, HandlerType DEF Row, Create, Claimed, Result
    <2>3. samples' \in [Keys -> [node: Nodes \cup {None}, error: BOOLEAN]]
        BY <1>2, <2>2 DEF Create, TypeOK
    <2> QED
        BY <1>2, <2>1, <2>3 DEF Create, TypeOK, agentVars
<1>3. CASE FinishInRoute(c)
    <2>1. handlers' \in [Calls -> HandlerStates]
        BY <1>3, StepType DEF FinishInRoute
    <2>2. Outcome({samples[k] : k \in Keys}) \in {"PENDING"} \cup Ended
        BY DEF Outcome, Ended
    <2>3. status' \in {None, "PENDING", "deleted"} \cup Ended /\ nodeId' \in Nodes \cup {None}
        BY <1>0, <1>3, <2>2 DEF FinishInRoute, TypeOK
    <2> QED
        BY <1>3, <2>1, <2>3, OvertakeType DEF FinishInRoute, TypeOK, agentVars
<1>4. CASE FinishInHeartbeat(c) \/ Overwrite(c)
    <2>1. \E outcome \in Ended : Write(c, outcome)
        BY <1>4 DEF FinishInHeartbeat, Overwrite, Ended
    <2>2. handlers' \in [Calls -> HandlerStates]
        BY <2>1, StepType DEF Write
    <2>3. status' \in {None, "PENDING", "deleted"} \cup Ended /\ nodeId' \in Nodes \cup {None}
        BY <1>0, <2>1 DEF Write, TypeOK
    <2> QED
        BY <2>1, <2>2, <2>3, OvertakeType DEF Write, TypeOK, agentVars
<1>5. CASE LookAgain(c)
    <2>1. handlers' \in [Calls -> HandlerStates]
        BY <1>5, StepType DEF LookAgain, Claimed
    <2> QED
        BY <1>5, <2>1 DEF LookAgain, TypeOK, requestVars, agentVars
<1>6. CASE Break(c)
    <2>1. NoCall \in HandlerStates
        BY DEF NoCall, HandlerStates
    <2>2. handlers' \in [Calls -> HandlerStates]
        <3>1. CASE Step(c, "failed") /\ handlers[c].step \in {"create", "finish"}
            BY <3>1, StepType DEF Claimed
        <3>2. CASE handlers' = [handlers EXCEPT ![c] = NoCall]
            BY <1>0, <2>1, <3>2
        <3> QED
            BY <1>6, <3>1, <3>2 DEF Break
    <2>3. Pending(c) \in SUBSET Result
        <3>1. handlers[c].todo \in SUBSET Result
            BY HandlerType
        <3>2. handlers[c].step # "next" => handlers[c].item \in Result
            BY HandlerType
        <3> QED
            BY <3>1, <3>2 DEF Pending
    <2>4. sampleResults' \in [Nodes -> SUBSET Result] /\ lapses' \subseteq {"release", "abort"}
        <3>1. \/ UNCHANGED sampleResults
              \/ sampleResults' = [sampleResults EXCEPT ![c[1]] = @ \cup Pending(c)]
            BY <1>6 DEF Break, Keep
        <3>2. lapses' \in {lapses, lapses \cup {"abort"}}
            BY <1>6 DEF Break
        <3> QED
            BY <1>0, <2>3, <3>1, <3>2 DEF TypeOK
    <2>5. failures' \in 0 .. MaxFailures
        BY <1>6, EventSamplesAssumption DEF Break, Failing, TypeOK
    <2> QED
        BY <1>6, <2>2, <2>4, <2>5 DEF Break, TypeOK, requestVars
<1> QED
    BY <1>1, <1>2, <1>3, <1>4, <1>5, <1>6 DEF Handle

LEMMA TypeStep == TypeOK /\ Fresh /\ [Next]_vars => TypeOK'
<1> SUFFICES ASSUME TypeOK, Fresh, [Next]_vars PROVE TypeOK'
    OBVIOUS
<1>1. UNCHANGED vars => TypeOK'
    BY DEF vars, requestVars, agentVars, TypeOK
<1> QED
    BY <1>1, CallerType, AgentType, RouteType DEF Next

-----------------------------------------------------------------------------
(***************************************************************************)
(* One node answers.                                                       *)
(***************************************************************************)
LEMMA InitBound == Init => Bound
BY DEF Init, Bound, ClaimsStand, SamplesAreBound, CallsFinish, Fresh, NoCall, Claimed, Row

LEMMA CallerBound ==
    ASSUME TypeOK, Bound,
           \/ Request \/ Push \/ Release \/ FanOut \/ Expire
           \/ \E n \in Nodes : Bind(n)
    PROVE  Bound'
<1>1. UNCHANGED <<samples, handlers>>
    BY DEF Request, Push, Release, FanOut, Expire, Bind, requestVars, agentVars
<1>2. CallsFinish'
    BY <1>1 DEF Bound, CallsFinish, Row
<1>3. Fresh'
    <2>1. CASE status # None
        BY <2>1 DEF Request, Push, Release, FanOut, Expire, Bind, requestVars, None, Fresh
    <2>2. CASE status = None
        <3>1. caller.step = "idle"
            BY <2>2 DEF Bound, Fresh
        <3>2. Request
            BY <2>2, <3>1 DEF Push, Release, FanOut, Expire, Bind, None
        <3> QED
            BY <3>2 DEF Request, Fresh, None
    <2> QED
        BY <2>1, <2>2
<1>4. CASE UNCHANGED <<nodeId, lapses>> \/ "release" \in lapses'
    BY <1>1, <1>2, <1>3, <1>4 DEF Bound, ClaimsStand, SamplesAreBound
<1>5. ASSUME NEW n \in Nodes, Bind(n), nodeId = None PROVE Bound'
    <2>1. None \notin Nodes /\ lapses' = lapses
        BY <1>5, EventSamplesAssumption DEF None, Bind
    <2>2. "release" \notin lapses => \A c \in Calls : handlers[c].step \notin Claimed
        BY <1>5, CallType DEF Bound, ClaimsStand
    <2>3. "release" \notin lapses => \A k \in Keys : samples[k] = NoSample
        BY <1>5, <2>1 DEF Bound, SamplesAreBound
    <2> QED
        BY <1>1, <1>2, <1>3, <2>1, <2>2, <2>3 DEF Bound, ClaimsStand, SamplesAreBound
<1>6. \/ UNCHANGED <<nodeId, lapses>> \/ "release" \in lapses'
      \/ \E n \in Nodes : Bind(n) /\ nodeId = None
    BY DEF Request, Push, Release, FanOut, Expire, Bind, requestVars
<1> QED
    BY <1>4, <1>5, <1>6

LEMMA AgentBound ==
    ASSUME TypeOK, Bound,
           \/ \E n \in Nodes : Poll(n) \/ SendHeartbeat(n)
           \/ \E n \in Nodes, k \in Keys : SampleForHeartbeat(n, k) \/ SampleForRoute(n, k)
    PROVE  Bound'
<1>1. UNCHANGED <<status, nodeId, samples, caller, lapses>> /\ status = "PENDING"
    BY DEF Poll, SendHeartbeat, SampleForHeartbeat, SampleForRoute, Sampled, requestVars
<1>2. \/ UNCHANGED handlers
      \/ \E d \in Calls, results \in SUBSET Result :
            handlers[d] = NoCall /\ Calling(d, results)
    <2>1. ASSUME NEW n \in Nodes, SendHeartbeat(n)
          PROVE  \E d \in Calls, results \in SUBSET Result : handlers[d] = NoCall /\ Calling(d, results)
        <3>1. <<n, Heartbeat>> \in Calls /\ sampleResults[n] \in SUBSET Result
            BY DEF Calls, TypeOK
        <3> QED
            BY <2>1, <3>1 DEF SendHeartbeat
    <2>2. ASSUME NEW n \in Nodes, NEW k \in Keys, SampleForRoute(n, k)
          PROVE  \/ UNCHANGED handlers
                 \/ \E d \in Calls, results \in SUBSET Result : handlers[d] = NoCall /\ Calling(d, results)
        <3>1. <<n, k>> \in Calls /\ {ResultOf(k)} \in SUBSET Result
            BY DEF Calls, ResultOf, Result
        <3> QED
            BY <2>2, <3>1 DEF SampleForRoute
    <2> QED
        BY <2>1, <2>2 DEF Poll, SampleForHeartbeat
<1>3. \A c \in Calls : handlers'[c] = handlers[c] \/ handlers'[c].step = "next"
    BY <1>2, CallingSets
<1>4. \A c \in Calls : handlers'[c].step # "next" => handlers'[c] = handlers[c]
    BY <1>3
<1>5. CallsFinish' /\ Fresh'
    BY <1>1, <1>4 DEF Bound, CallsFinish, Fresh, None, IsHeartbeat, Row
<1>6. ClaimsStand' /\ SamplesAreBound'
    BY <1>1, <1>4 DEF Bound, ClaimsStand, SamplesAreBound, Claimed
<1> QED
    BY <1>5, <1>6 DEF Bound

LEMMA RouteBound ==
    ASSUME TypeOK, Bound, NEW c \in Calls, Handle(c) \/ Break(c)
    PROVE  Bound'
<1> USE CallType
<1>1. Fresh'
    <2>1. UNCHANGED <<taken, caller>>
        BY DEF Handle, Break, Claim, Create, FinishInRoute, FinishInHeartbeat, LookAgain,
               Overwrite, Write, agentVars
    <2>2. status' = None => status = None
        BY DEF Handle, Break, Claim, Create, FinishInRoute, FinishInHeartbeat, LookAgain,
               Overwrite, Write, Outcome, requestVars, None
    <2> QED
        BY <2>1, <2>2 DEF Bound, Fresh
<1>2. CASE Claim(c)
    <2>1. /\ UNCHANGED <<samples, lapses>>
          /\ handlers[c].step = "next"
          /\ \/ nodeId \in {None, c[1]} /\ nodeId' = c[1] /\ handlers'[c].step = "create"
             \/ nodeId' = nodeId /\ handlers'[c].step = "next"
        <3>1. PICK r \in handlers[c].todo, rest \in SUBSET Result :
                 \/ /\ MayClaim(c[1]) /\ nodeId' = c[1]
                    /\ handlers' = [handlers EXCEPT ![c] =
                                      [step |-> "create", todo |-> rest, item |-> r]]
                 \/ nodeId' = nodeId /\ handlers' = [handlers EXCEPT ![c].todo = rest]
            BY <1>2, ClaimCases
        <3>2. handlers[c].step = "next" /\ UNCHANGED <<samples, lapses>>
            BY <1>2 DEF Claim
        <3>3. [handlers[c] EXCEPT !.todo = rest].step = "next"
            BY <3>2, HandlerType
        <3>4. handlers \in [Calls -> HandlerStates]
            BY DEF TypeOK
        <3>5. CASE MayClaim(c[1]) /\ nodeId' = c[1] /\ handlers' = [handlers EXCEPT ![c] =
                                      [step |-> "create", todo |-> rest, item |-> r]]
            <4>1. handlers'[c] = [step |-> "create", todo |-> rest, item |-> r]
                BY <3>4, <3>5
            <4>2. handlers'[c].step = "create"
                BY <4>1
            <4> QED
                BY <3>2, <3>5, <4>2 DEF MayClaim
        <3>6. CASE nodeId' = nodeId /\ handlers' = [handlers EXCEPT ![c].todo = rest]
            BY <3>2, <3>3, <3>4, <3>6
        <3> QED
            BY <3>1, <3>5, <3>6
    <2>2. \A d \in Calls \ {c} : handlers'[d] = handlers[d]
        BY <1>2, ClaimCases DEF TypeOK
    <2>3. ClaimsStand'
        BY <2>1, <2>2 DEF Bound, ClaimsStand, Claimed
    <2>4. SamplesAreBound'
        BY <2>1, EventSamplesAssumption DEF Bound, SamplesAreBound, None
    <2>5. CallsFinish'
        BY <2>1, <2>2 DEF Bound, CallsFinish, IsHeartbeat, Row
    <2> QED
        BY <1>1, <2>3, <2>4, <2>5 DEF Bound
<1>3. CASE Create(c)
    <2> DEFINE key == handlers[c].item.key
    <2>1. /\ UNCHANGED <<nodeId, lapses>>
          /\ handlers[c].step = "create" /\ key \in Keys
        BY <1>3, HandlerType DEF Create, Claimed
    <2>2. "release" \notin lapses => nodeId = c[1]
        BY <2>1 DEF Bound, ClaimsStand, Claimed
    <2>3. \A d \in Calls \ {c} : handlers'[d] = handlers[d]
        BY <1>3 DEF Create, Step, Skip, TypeOK
    <2>4. Row(c).node = c[1] /\ Row(c) # NoSample
        BY DEF Row, NoSample
    <2>5. \/ /\ samples[key] = NoSample /\ samples' = [samples EXCEPT ![key] = Row(c)]
             /\ handlers' = [handlers EXCEPT ![c].step = "finish"]
          \/ /\ UNCHANGED samples
             /\ \/ handlers'[c].step = "failed" /\ IsHeartbeat(c)
                \/ handlers'[c].step = "next"
        <3>1. Skip(c) => handlers'[c].step = "next"
            BY SkipSets
        <3>2. Step(c, "failed") => handlers'[c].step = "failed"
            BY <2>1, StepSets DEF Claimed
        <3> QED
            BY <1>3, <3>1, <3>2 DEF Create, Step
    <2>6. \A k \in Keys : samples'[k] = samples[k] \/ (samples[k] = NoSample /\ samples'[k] = Row(c))
        BY <2>5 DEF TypeOK
    <2>7. ClaimsStand'
        BY <2>1, <2>2, <2>3 DEF Bound, ClaimsStand
    <2>8. SamplesAreBound'
        BY <2>1, <2>2, <2>4, <2>6 DEF Bound, SamplesAreBound
    <2>9. CallsFinish'
        <3>1. ASSUME NEW d \in Calls, d # c PROVE CallsFinish!(d)'
            <4>1. handlers'[d] = handlers[d]
                BY <2>3, <3>1
            <4>2. ASSUME handlers[d].step = "finish"
                  PROVE  samples'[handlers[d].item.key] = Row(d)
                <5>1. samples[handlers[d].item.key] = Row(d) /\ Row(d) # NoSample
                    BY <4>2 DEF Bound, CallsFinish
                <5>2. handlers[d].item.key \in Keys
                    BY <4>2, HandlerType DEF Claimed
                <5> QED
                    BY <2>6, <5>1, <5>2
            <4>3. Row(d)' = Row(d)
                BY <4>1 DEF Row
            <4> QED
                BY <4>1, <4>2, <4>3 DEF Bound, CallsFinish, IsHeartbeat
        <3>2. CallsFinish!(c)'
            <4>1. CASE /\ samples[key] = NoSample /\ samples' = [samples EXCEPT ![key] = Row(c)]
                       /\ handlers' = [handlers EXCEPT ![c].step = "finish"]
                <5>1. handlers'[c].item = handlers[c].item /\ handlers'[c].step = "finish"
                    BY <2>1, <4>1, HandlerType DEF HandlerStates, TypeOK
                <5> QED
                    BY <2>1, <4>1, <5>1 DEF TypeOK, Row
            <4>2. CASE \/ handlers'[c].step = "failed" /\ IsHeartbeat(c)
                       \/ handlers'[c].step = "next"
                BY <4>2 DEF IsHeartbeat
            <4> QED
                BY <2>5, <4>1, <4>2
        <3> QED
            BY <3>1, <3>2 DEF CallsFinish
    <2> QED
        BY <1>1, <2>7, <2>8, <2>9 DEF Bound
<1>4. CASE FinishInRoute(c) \/ FinishInHeartbeat(c) \/ Overwrite(c)
    <2>1. UNCHANGED <<samples, lapses>> /\ Skip(c) /\ nodeId' \in {nodeId, c[1]}
        BY <1>4 DEF FinishInRoute, FinishInHeartbeat, Overwrite, Write
    <2>2. "release" \notin lapses => nodeId = c[1]
        BY <1>4 DEF Bound, ClaimsStand, Claimed, FinishInRoute, FinishInHeartbeat, Overwrite
    <2>3. handlers'[c].step = "next" /\ \A d \in Calls \ {c} : handlers'[d] = handlers[d]
        BY <2>1 DEF Skip, TypeOK
    <2>4. ClaimsStand' /\ SamplesAreBound'
        BY <2>1, <2>2, <2>3 DEF Bound, ClaimsStand, SamplesAreBound, Claimed
    <2>5. CallsFinish'
        BY <2>1, <2>3 DEF Bound, CallsFinish, IsHeartbeat, Row
    <2> QED
        BY <1>1, <2>4, <2>5 DEF Bound
<1>5. CASE LookAgain(c) \/ Break(c)
    <2>1. UNCHANGED <<nodeId, samples>> /\ lapses \subseteq lapses'
        BY <1>5 DEF LookAgain, Break, requestVars
    <2>2. \A d \in Calls \ {c} : handlers'[d] = handlers[d]
        BY <1>5 DEF LookAgain, Break, Step, Skip, TypeOK
    <2>3. \/ handlers'[c].step = "next"
          \/ /\ handlers'[c].step \in {"failed", "overwrite"} /\ IsHeartbeat(c)
             /\ handlers[c].step \in Claimed
        <3>1. CASE LookAgain(c)
            <4>1. handlers[c].step = "failed" /\ IsHeartbeat(c)
                BY <3>1 DEF LookAgain, Bound, CallsFinish
            <4> QED
                BY <3>1, <4>1, StepSets, SkipSets DEF LookAgain, Claimed
        <3>2. CASE Break(c)
            <4>1. CASE Step(c, "failed") /\ handlers[c].step \in {"create", "finish"} /\ IsHeartbeat(c)
                BY <4>1, StepSets DEF Claimed
            <4>2. CASE handlers' = [handlers EXCEPT ![c] = NoCall]
                BY <4>2 DEF NoCall, TypeOK
            <4> QED
                BY <3>2, <4>1, <4>2 DEF Break
        <3> QED
            BY <1>5, <3>1, <3>2
    <2>4. ClaimsStand'
        BY <2>1, <2>2, <2>3 DEF Bound, ClaimsStand, Claimed
    <2>5. SamplesAreBound'
        BY <2>1 DEF Bound, SamplesAreBound
    <2>6. CallsFinish'
        BY <2>1, <2>2, <2>3 DEF Bound, CallsFinish, IsHeartbeat, Row
    <2> QED
        BY <1>1, <2>4, <2>5, <2>6 DEF Bound
<1> QED
    BY <1>2, <1>3, <1>4, <1>5 DEF Handle

LEMMA BoundStep == TypeOK /\ Bound /\ [Next]_vars => TypeOK' /\ Bound'
<1> SUFFICES ASSUME TypeOK, Bound, [Next]_vars PROVE TypeOK' /\ Bound'
    OBVIOUS
<1>1. UNCHANGED vars => Bound'
    BY DEF vars, requestVars, agentVars, Bound, ClaimsStand, SamplesAreBound, CallsFinish, Fresh,
           IsHeartbeat, Row
<1>2. TypeOK'
    BY TypeStep DEF Bound
<1>3. CASE \E c \in Calls : Handle(c) \/ Break(c)
    BY <1>2, <1>3, RouteBound
<1>4. CASE \/ Request \/ Push \/ Release \/ FanOut \/ Expire
           \/ \E n \in Nodes : Bind(n)
    BY <1>2, <1>4, CallerBound
<1>5. CASE \/ \E n \in Nodes : Poll(n) \/ SendHeartbeat(n)
           \/ \E n \in Nodes, k \in Keys : SampleForHeartbeat(n, k) \/ SampleForRoute(n, k)
    BY <1>2, <1>5, AgentBound
<1> QED
    BY <1>1, <1>2, <1>3, <1>4, <1>5 DEF Next

-----------------------------------------------------------------------------
(***************************************************************************)
(* No result is lost.                                                      *)
(***************************************************************************)
Kept(n, k) ==
    \/ samples[k] # NoSample
    \/ \E r \in sampleResults[n] : r.key = k
    \/ \E c \in {k, Heartbeat} : \E r \in Pending(<<n, c>>) : r.key = k

LEMMA ResultsAreKeptDef ==
    ResultsAreKept <=>
        (status = "PENDING" /\ lapses = {} =>
            \A n \in Nodes, k \in Keys :
                <<n, k>> \in taken /\ nodeId \in {n, None} => Kept(n, k))
BY DEF ResultsAreKept, Kept

LEMMA CallerKept ==
    ASSUME TypeOK, Bound, ResultsAreKept,
           \/ Request \/ Push \/ Release \/ FanOut \/ Expire
           \/ \E n \in Nodes : Bind(n)
    PROVE  ResultsAreKept'
<1> SUFFICES ASSUME status' = "PENDING", lapses' = {},
                    NEW n \in Nodes, NEW k \in Keys, <<n, k>> \in taken', nodeId' \in {n, None}
             PROVE  Kept(n, k)'
    BY DEF ResultsAreKept, Kept
<1>1. UNCHANGED <<samples, sampleResults, handlers, taken>>
    BY DEF Request, Push, Release, FanOut, Expire, Bind, requestVars, agentVars
<1>2. Kept(n, k)' <=> Kept(n, k)
    BY <1>1 DEF Kept, Pending
<1>3. status = "PENDING" /\ lapses = {} /\ nodeId \in {n, None}
    <2>1. ~Request
        BY <1>1 DEF Request, Bound, Fresh, agentVars
    <2> QED
        BY <2>1 DEF Push, Release, FanOut, Expire, Bind, requestVars
<1> QED
    BY <1>1, <1>2, <1>3, ResultsAreKeptDef

LEMMA AgentKept ==
    ASSUME TypeOK, Bound, ResultsAreKept,
           \/ \E n \in Nodes : Poll(n) \/ SendHeartbeat(n)
           \/ \E n \in Nodes, k \in Keys : SampleForHeartbeat(n, k) \/ SampleForRoute(n, k)
    PROVE  ResultsAreKept'
<1> SUFFICES ASSUME status' = "PENDING", lapses' = {},
                    NEW n \in Nodes, NEW k \in Keys, <<n, k>> \in taken', nodeId' \in {n, None}
             PROVE  Kept(n, k)'
    BY DEF ResultsAreKept, Kept
<1>1. UNCHANGED <<status, nodeId, samples, lapses>>
    BY DEF Poll, SendHeartbeat, SampleForHeartbeat, SampleForRoute, Sampled, requestVars
<1>2. <<n, k>> \in taken => Kept(n, k)
    BY <1>1, ResultsAreKeptDef
<1>3. \A c \in {k, Heartbeat} : <<n, c>> \in Calls
    BY DEF Calls
<1>4. ASSUME NEW m \in Nodes, Poll(m) PROVE Kept(n, k)'
    <2>1. UNCHANGED <<samples, sampleResults, handlers, taken>>
        BY <1>4 DEF Poll, requestVars
    <2> QED
        BY <1>2, <2>1 DEF Kept, Pending
<1>5. ASSUME NEW m \in Nodes, SendHeartbeat(m) PROVE Kept(n, k)'
    <2> DEFINE d == <<m, Heartbeat>>
    <2>1. d \in Calls /\ sampleResults[m] \in SUBSET Result
        BY DEF Calls, TypeOK
    <2>2. /\ handlers[d] = NoCall /\ Calling(d, sampleResults[m]) /\ UNCHANGED taken
          /\ \A q \in Nodes \ {m} : sampleResults'[q] = sampleResults[q]
        BY <1>5 DEF SendHeartbeat, TypeOK
    <2>3. /\ handlers'[d].step = "next" /\ handlers'[d].todo = sampleResults[m]
          /\ \A e \in Calls \ {d} : handlers'[e] = handlers[e]
        BY <2>1, <2>2, CallingSets
    <2>4. Pending(d)' = sampleResults[m] /\ Pending(d) = {}
        BY <2>2, <2>3 DEF Pending, NoCall
    <2>5. \A e \in Calls \ {d} : Pending(e)' = Pending(e)
        BY <2>3 DEF Pending
    <2>6. CASE n = m
        BY <1>1, <1>2, <1>3, <2>2, <2>4, <2>5, <2>6 DEF Kept
    <2>7. CASE n # m
        BY <1>1, <1>2, <1>3, <2>2, <2>5, <2>7 DEF Kept
    <2> QED
        BY <2>6, <2>7
<1>6. ASSUME NEW m \in Nodes, NEW j \in Keys, SampleForHeartbeat(m, j) PROVE Kept(n, k)'
    <2>1. /\ UNCHANGED handlers
          /\ sampleResults' = [sampleResults EXCEPT ![m] = @ \cup {ResultOf(j)}]
          /\ taken' = taken \cup {<<m, j>>}
        BY <1>6 DEF SampleForHeartbeat, Sampled, Keep
    <2>2. sampleResults[n] \subseteq sampleResults'[n]
        BY <2>1 DEF TypeOK
    <2>3. CASE <<n, k>> \in taken
        BY <1>1, <1>2, <2>1, <2>2, <2>3 DEF Kept, Pending
    <2>4. CASE <<n, k>> \notin taken
        <3>1. n = m /\ k = j
            BY <2>1, <2>4
        <3>2. ResultOf(k) \in sampleResults'[n] /\ ResultOf(k).key = k
            BY <2>1, <3>1 DEF TypeOK, ResultOf
        <3> QED
            BY <3>2 DEF Kept
    <2> QED
        BY <2>3, <2>4
<1>7. ASSUME NEW m \in Nodes, NEW j \in Keys, SampleForRoute(m, j) PROVE Kept(n, k)'
    <2> DEFINE d == <<m, j>>
    <2>1. d \in Calls /\ {ResultOf(j)} \in SUBSET Result /\ ResultOf(j).key = j
        BY DEF Calls, ResultOf, Result
    <2>2. /\ handlers[d] = NoCall /\ taken' = taken \cup {d}
          /\ \/ Calling(d, {ResultOf(j)}) \/ UNCHANGED handlers
          /\ \/ Calling(d, {ResultOf(j)}) \/ Keep(m, {ResultOf(j)})
          /\ \/ UNCHANGED sampleResults \/ Keep(m, {ResultOf(j)})
        BY <1>7 DEF SampleForRoute, Sampled
    <2>3. Pending(d) = {}
        BY <2>2 DEF Pending, NoCall
    <2>4. \A e \in Calls : e # d => Pending(e)' = Pending(e)
        BY <2>1, <2>2, CallingSets DEF Pending
    <2>5. sampleResults[n] \subseteq sampleResults'[n]
        BY <2>2 DEF Keep, TypeOK
    <2>6. CASE <<n, k>> \in taken
        BY <1>1, <1>2, <1>3, <2>3, <2>4, <2>5, <2>6 DEF Kept
    <2>7. CASE <<n, k>> \notin taken
        <3>1. n = m /\ k = j
            BY <2>2, <2>7
        <3>2. Calling(d, {ResultOf(j)}) => Pending(d)' = {ResultOf(j)}
            BY <2>1, <2>2, CallingSets DEF Pending
        <3>3. Keep(m, {ResultOf(j)}) => ResultOf(j) \in sampleResults'[m]
            BY DEF Keep, TypeOK
        <3> QED
            BY <2>1, <2>2, <3>1, <3>2, <3>3 DEF Kept
    <2> QED
        BY <2>6, <2>7
<1> QED
    BY <1>4, <1>5, <1>6, <1>7

(***************************************************************************)
(* A step of a call leaves every result of the call pending, unless it is  *)
(* stored, back with the agent, or of a node that the request is not bound *)
(* to; what else is stored or waiting stays.                               *)
(***************************************************************************)
PendingStays(c) ==
    nodeId' \in {c[1], None} =>
        \A r \in Pending(c) :
            r \in Pending(c)' \/ samples'[r.key] # NoSample \/ r \in sampleResults'[c[1]]

LEMMA RoutePending ==
    ASSUME TypeOK, Bound, NEW c \in Calls, Handle(c) \/ Break(c),
           status' = "PENDING", lapses' = {}
    PROVE  PendingStays(c)
<1>0. /\ handlers[c].todo \in SUBSET Result
      /\ handlers[c].step # "next" => handlers[c].item \in Result
    BY HandlerType
<1>1. CASE Claim(c)
    <2>1. PICK r \in handlers[c].todo, rest \in SUBSET Result :
             /\ status = "PENDING" => rest = handlers[c].todo \ {r}
             /\ \/ /\ MayClaim(c[1]) /\ nodeId' = c[1]
                   /\ handlers' = [handlers EXCEPT ![c] =
                                     [step |-> "create", todo |-> rest, item |-> r]]
                \/ ~MayClaim(c[1]) /\ nodeId' = nodeId
        BY <1>1, ClaimCases
    <2>2. handlers[c].step = "next" /\ status = "PENDING"
        BY <1>1 DEF Claim
    <2>3. CASE MayClaim(c[1])
        <3>1. handlers'[c] = [step |-> "create", todo |-> rest, item |-> r]
            BY <2>1, <2>3 DEF TypeOK
        <3>2. handlers'[c].step = "create" /\ handlers'[c].todo = rest /\ handlers'[c].item = r
            BY <3>1
        <3> QED
            BY <2>1, <2>2, <3>2 DEF PendingStays, Pending
    <2>4. CASE ~MayClaim(c[1])
        BY <2>1, <2>2, <2>4 DEF PendingStays, MayClaim
    <2> QED
        BY <2>3, <2>4
<1>2. CASE Create(c)
    <2>1. handlers[c].step = "create" /\ handlers[c].item.key \in Keys /\ status # "deleted"
        BY <1>2, HandlerType DEF Create, Claimed
    <2>2. CASE \E step \in Claimed : Step(c, step)
        <3>1. Pending(c)' = Pending(c)
            BY <2>1, <2>2, StepSets DEF Pending, Claimed
        <3> QED
            BY <3>1 DEF PendingStays
    <2>3. CASE Skip(c) /\ samples[handlers[c].item.key] # NoSample /\ UNCHANGED samples
        <3>1. Pending(c)' = handlers[c].todo /\ Pending(c) = handlers[c].todo \cup {handlers[c].item}
            BY <2>1, <2>3, SkipSets DEF Pending
        <3> QED
            BY <2>3, <3>1 DEF PendingStays
    <2>4. \/ \E step \in Claimed : Step(c, step)
          \/ Skip(c) /\ samples[handlers[c].item.key] # NoSample /\ UNCHANGED samples
        BY <1>2, <2>1 DEF Create, Claimed
    <2> QED
        BY <2>2, <2>3, <2>4
<1>3. CASE FinishInRoute(c)
    <2>1. Skip(c) /\ handlers[c].step = "finish" /\ UNCHANGED samples
        BY <1>3 DEF FinishInRoute
    <2>2. samples[handlers[c].item.key] # NoSample
        BY <2>1, CallType DEF Bound, CallsFinish
    <2>3. Pending(c)' = handlers[c].todo /\ Pending(c) = handlers[c].todo \cup {handlers[c].item}
        BY <2>1, SkipSets DEF Pending
    <2> QED
        BY <2>1, <2>2, <2>3 DEF PendingStays
<1>4. ~FinishInHeartbeat(c) /\ ~Overwrite(c)
    BY DEF FinishInHeartbeat, Overwrite, Write
<1>5. CASE LookAgain(c)
    <2>1. handlers[c].step = "failed" /\ Step(c, "overwrite")
        BY <1>5 DEF LookAgain, requestVars
    <2>2. Pending(c)' = Pending(c)
        BY <2>1, StepSets DEF Pending, Claimed
    <2> QED
        BY <2>2 DEF PendingStays
<1>6. CASE Break(c)
    <2>1. \/ Step(c, "failed") /\ handlers[c].step \in {"create", "finish"}
          \/ Keep(c[1], Pending(c))
        BY <1>6 DEF Break
    <2>2. CASE Step(c, "failed") /\ handlers[c].step \in {"create", "finish"}
        <3>1. Pending(c)' = Pending(c)
            BY <2>2, StepSets DEF Pending, Claimed
        <3> QED
            BY <3>1 DEF PendingStays
    <2>3. CASE Keep(c[1], Pending(c))
        <3>1. Pending(c) \subseteq sampleResults'[c[1]]
            BY <2>3, CallType DEF Keep, TypeOK
        <3> QED
            BY <3>1 DEF PendingStays
    <2> QED
        BY <2>1, <2>2, <2>3
<1> QED
    BY <1>1, <1>2, <1>3, <1>4, <1>5, <1>6 DEF Handle

LEMMA RouteLeaves ==
    ASSUME TypeOK, NEW c \in Calls, Handle(c) \/ Break(c), status' = "PENDING"
    PROVE  /\ UNCHANGED taken
           /\ status = "PENDING" /\ lapses \subseteq lapses'
           /\ nodeId' = nodeId \/ (nodeId' = c[1] /\ nodeId \in {None, c[1]})
           /\ \A k \in Keys : samples[k] # NoSample => samples'[k] # NoSample
           /\ \A n \in Nodes : sampleResults[n] \subseteq sampleResults'[n]
           /\ \A d \in Calls \ {c} : Pending(d)' = Pending(d)
<1>1. UNCHANGED taken /\ status = "PENDING" /\ lapses \subseteq lapses'
    BY DEF Handle, Break, Claim, Create, FinishInRoute, FinishInHeartbeat, LookAgain,
           Overwrite, Write, Outcome, agentVars, requestVars
<1>2. nodeId' = nodeId \/ (nodeId' = c[1] /\ nodeId \in {None, c[1]})
    BY DEF Handle, Break, Claim, MayClaim, Create, FinishInRoute, FinishInHeartbeat, LookAgain,
           Overwrite, Write, requestVars
<1>3. \A k \in Keys : samples[k] # NoSample => samples'[k] # NoSample
    <2>1. UNCHANGED samples
          \/ \E key : samples[key] = NoSample /\ samples' = [samples EXCEPT ![key] = Row(c)]
        BY DEF Handle, Break, Claim, Create, FinishInRoute, FinishInHeartbeat, LookAgain,
               Overwrite, Write, requestVars
    <2> QED
        BY <2>1 DEF TypeOK
<1>4. \A n \in Nodes : sampleResults[n] \subseteq sampleResults'[n]
    <2>1. UNCHANGED sampleResults \/ \E results : Keep(c[1], results)
        BY DEF Handle, Break, Claim, Create, FinishInRoute, FinishInHeartbeat, LookAgain,
               Overwrite, Write, agentVars
    <2> QED
        BY <2>1 DEF Keep, TypeOK
<1>5. \A d \in Calls \ {c} : handlers'[d] = handlers[d]
    <2>1. Claim(c) => \A d \in Calls \ {c} : handlers'[d] = handlers[d]
        BY ClaimCases DEF TypeOK
    <2> QED
        BY <2>1 DEF Handle, Break, Create, FinishInRoute, FinishInHeartbeat, LookAgain,
                    Overwrite, Write, Step, Skip, TypeOK
<1> QED
    BY <1>1, <1>2, <1>3, <1>4, <1>5 DEF Pending

LEMMA RouteKept ==
    ASSUME TypeOK, Bound, ResultsAreKept, NEW c \in Calls, Handle(c) \/ Break(c)
    PROVE  ResultsAreKept'
<1> SUFFICES ASSUME status' = "PENDING", lapses' = {},
                    NEW n \in Nodes, NEW k \in Keys, <<n, k>> \in taken', nodeId' \in {n, None}
             PROVE  Kept(n, k)'
    BY DEF ResultsAreKept, Kept
<1>1. lapses = {} /\ nodeId \in {n, None} /\ status = "PENDING" /\ <<n, k>> \in taken
    BY RouteLeaves
<1>2. Kept(n, k)
    BY <1>1, ResultsAreKeptDef
<1>3. CASE samples[k] # NoSample \/ \E r \in sampleResults[n] : r.key = k
    BY <1>3, RouteLeaves DEF Kept
<1>4. ASSUME NEW e \in {k, Heartbeat}, NEW r \in Pending(<<n, e>>), r.key = k
      PROVE  Kept(n, k)'
    <2>1. <<n, e>> \in Calls
        BY DEF Calls
    <2>2. CASE c # <<n, e>>
        BY <1>4, <2>1, <2>2, RouteLeaves DEF Kept
    <2>3. CASE c = <<n, e>>
        <3>1. PendingStays(c) /\ c[1] = n
            BY <2>3, RoutePending
        <3>2. r \in Pending(c)' \/ samples'[r.key] # NoSample \/ r \in sampleResults'[n]
            BY <1>4, <2>3, <3>1 DEF PendingStays
        <3> QED
            BY <1>4, <2>3, <3>2 DEF Kept
    <2> QED
        BY <2>2, <2>3
<1> QED
    BY <1>2, <1>3, <1>4 DEF Kept

(***************************************************************************)
(* Who still overwrites a request that has ended.                          *)
(***************************************************************************)
LEMMA OvertakeCases ==
    ASSUME TypeOK, Next, status' \in Ended
    PROVE  /\ \/ status \in Ended /\ overtaken' = overtaken
              \/ /\ status \notin Ended
                 /\ overtaken' = {c \in Calls : handlers[c].step = "overwrite"}
           /\ \A c \in Calls : handlers'[c].step = "overwrite" => handlers[c].step = "overwrite"
<1>0. None \notin Ended /\ "PENDING" \notin Ended /\ "deleted" \notin Ended
    BY DEF Ended, None
<1>1. CASE Request \/ Push \/ Release \/ FanOut \/ Expire \/ \E n \in Nodes : Bind(n)
    BY <1>0, <1>1 DEF Request, Push, Release, FanOut, Expire, Bind, Overtake, requestVars
<1>2. CASE \/ \E n \in Nodes : Poll(n) \/ SendHeartbeat(n)
           \/ \E n \in Nodes, k \in Keys : SampleForHeartbeat(n, k) \/ SampleForRoute(n, k)
    BY <1>0, <1>2 DEF Poll, SendHeartbeat, SampleForHeartbeat, SampleForRoute, Sampled, requestVars
<1>3. ASSUME NEW c \in Calls, Handle(c) \/ Break(c)
      PROVE  /\ \/ status \in Ended /\ overtaken' = overtaken
                \/ /\ status \notin Ended
                   /\ overtaken' = {d \in Calls : handlers[d].step = "overwrite"}
             /\ \A d \in Calls : handlers'[d].step = "overwrite" => handlers[d].step = "overwrite"
    <2>1. CASE FinishInRoute(c) \/ FinishInHeartbeat(c) \/ Overwrite(c)
        <3>1. Skip(c) /\ Overtake
            BY <2>1 DEF FinishInRoute, FinishInHeartbeat, Overwrite, Write
        <3> QED
            BY <3>1, SkipSets DEF Overtake
    <2>2. CASE Claim(c) \/ Create(c) \/ LookAgain(c) \/ Break(c)
        <3>1. status \in Ended /\ overtaken' = overtaken
            BY <2>2 DEF Claim, Create, LookAgain, Break, requestVars
        <3> DEFINE NoNew ==
                \A d \in Calls : handlers'[d].step = "overwrite" => handlers[d].step = "overwrite"
        <3>2. ASSUME Claim(c) PROVE NoNew
            BY <3>2, ClaimStep
        <3>3. ASSUME Skip(c) \/ handlers' = [handlers EXCEPT ![c] = NoCall] PROVE NoNew
            BY <3>3, SkipSets DEF NoCall, TypeOK
        <3>4. ASSUME handlers[c].step \in Claimed, Step(c, "finish") \/ Step(c, "failed")
              PROVE  NoNew
            BY <3>4, StepSets
        <3>5. \/ Claim(c) \/ Skip(c) \/ handlers' = [handlers EXCEPT ![c] = NoCall]
              \/ /\ handlers[c].step \in Claimed
                 /\ Step(c, "finish") \/ Step(c, "failed")
            BY <1>0, <2>2, <3>1 DEF Create, LookAgain, Break, Claimed
        <3> QED
            BY <3>1, <3>2, <3>3, <3>4, <3>5
    <2> QED
        BY <1>3, <2>1, <2>2 DEF Handle
<1> QED
    BY <1>1, <1>2, <1>3 DEF Next

LEMMA LooksStep == TypeOK /\ LooksWereBefore /\ [Next]_vars => LooksWereBefore'
<1>1. UNCHANGED vars /\ LooksWereBefore => LooksWereBefore'
    BY DEF vars, requestVars, LooksWereBefore
<1>2. TypeOK /\ LooksWereBefore /\ Next => LooksWereBefore'
    BY OvertakeCases DEF LooksWereBefore
<1> QED
    BY <1>1, <1>2

LEMMA KeptStep == Inv /\ [Next]_vars => Inv'
<1> SUFFICES ASSUME Inv, [Next]_vars PROVE Inv'
    OBVIOUS
<1> USE DEF Inv
<1>1. UNCHANGED vars => ResultsAreKept'
    BY DEF vars, requestVars, agentVars, ResultsAreKept, Pending
<1> USE LooksStep
<1>2. CASE \E c \in Calls : Handle(c) \/ Break(c)
    BY <1>2, BoundStep, RouteKept
<1>3. CASE \/ Request \/ Push \/ Release \/ FanOut \/ Expire
           \/ \E n \in Nodes : Bind(n)
    BY <1>3, BoundStep, CallerKept
<1>4. CASE \/ \E n \in Nodes : Poll(n) \/ SendHeartbeat(n)
           \/ \E n \in Nodes, k \in Keys : SampleForHeartbeat(n, k) \/ SampleForRoute(n, k)
    BY <1>4, BoundStep, AgentKept
<1> QED
    BY <1>1, <1>2, <1>3, <1>4, BoundStep DEF Next

-----------------------------------------------------------------------------
LEMMA Invariance == Spec => []Inv
<1>1. Init => Inv
    BY InitType, InitBound DEF Inv, Init, ResultsAreKept, LooksWereBefore, Ended, None
<1>2. Inv /\ [Next]_vars => Inv'
    BY KeptStep
<1> QED
    BY <1>1, <1>2, PTL DEF Spec

\* The stored samples come from the node the request is bound to, whichever
\* of the two routes and however many nodes compete for it, unless
\* requestSamples took a binding back.
THEOREM OneNodePerRequestHolds == Spec => []OneNodePerRequest
<1>1. Inv => OneNodePerRequest
    BY DEF Inv, Bound, SamplesAreBound, OneNodePerRequest
<1> QED
    BY <1>1, Invariance, PTL

\* No failed call or query loses a result while the request is pending and
\* bound to no other node, unless it ended the handling of a heartbeat.
THEOREM ResultsAreKeptHolds == Spec => []ResultsAreKept
<1>1. Inv => ResultsAreKept
    BY DEF Inv
<1> QED
    BY <1>1, Invariance, PTL

\* A request that has ended changes its status only by a heartbeat that has
\* stored its result, or that had found the request pending before it ended.
\* Neither the samples route nor a heartbeat that looks after the end does.
THEOREM EndsAreKeptHolds == Spec => EndsAreKept
<1> DEFINE Own(call) ==
        /\ handlers'[call] # handlers[call]
        /\ \/ /\ handlers[call].step = "finish"
              /\ samples[handlers[call].item.key] = Row(call)
           \/ handlers[call].step = "overwrite" /\ call \in overtaken
<1>1. Inv /\ [Next]_vars =>
         [(status \in Ended /\ status' \notin {status, "deleted"}) =>
             \E n \in Nodes : Own(<<n, Heartbeat>>)]_vars
    <2> SUFFICES ASSUME Inv, Next, status \in Ended, status' \notin {status, "deleted"}
                 PROVE  \E n \in Nodes : Own(<<n, Heartbeat>>)
        BY DEF vars
    <2>1. status \notin {None, "PENDING"}
        BY DEF Ended, None
    <2>2. PICK c \in Calls : Handle(c) \/ Break(c)
        BY <2>1 DEF Next, Request, Push, Release, FanOut, Expire, Bind, Poll, SendHeartbeat,
                    SampleForHeartbeat, SampleForRoute, Sampled, requestVars
    <2>3. FinishInHeartbeat(c) \/ Overwrite(c)
        BY <2>1, <2>2 DEF Handle, Break, Claim, Create, FinishInRoute, LookAgain, requestVars
    <2>4. IsHeartbeat(c)
        BY <2>3 DEF FinishInHeartbeat, Overwrite, Inv, Bound, CallsFinish
    <2>5. handlers'[c] # handlers[c]
        <3>1. handlers'[c].step = "next"
            BY <2>3, SkipSets DEF FinishInHeartbeat, Overwrite, Write, Inv
        <3> QED
            BY <2>3, <3>1 DEF FinishInHeartbeat, Overwrite
    <2>6. ASSUME FinishInHeartbeat(c) PROVE Own(c)
        BY <2>5, <2>6 DEF FinishInHeartbeat, Inv, Bound, CallsFinish
    <2>7. ASSUME Overwrite(c) PROVE Own(c)
        BY <2>5, <2>7 DEF Overwrite, Inv, LooksWereBefore
    <2>8. Own(c)
        BY <2>3, <2>6, <2>7
    <2>9. c = <<c[1], Heartbeat>> /\ c[1] \in Nodes
        BY <2>4 DEF Calls, IsHeartbeat
    <2> QED
        BY <2>8, <2>9
<1> QED
    BY <1>1, Invariance, PTL DEF Spec, EndsAreKept

===============================================================================
