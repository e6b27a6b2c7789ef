------------------------------ MODULE ReleaseProofs ------------------------------
(***************************************************************************)
(* The two-person rule and the claims of ReleaseRequests, for any users,   *)
(* configs and settings, any number of requests and any interleaving of    *)
(* their handlers.                                                         *)
(***************************************************************************)
EXTENDS ReleaseRequests, FiniteSetTheorems, TLAPS

Executing == {"deploy", "record", "revert"}
Promoting == {"pull", "await", "check", "commit"}

(***************************************************************************)
(* TwoPersonRule speaks of what was deployed; it rests on what is true of  *)
(* the rows before, and of every handler that has read a row: what it      *)
(* checked then is still true, although others have written since.         *)
(***************************************************************************)
RequestOK(r) ==
    /\ requests[r].pull # "none" => mode.gitOps /\ Strategy(r) = "PROMOTION"
    /\ Strategy(r) = "DIRECT" /\ Status(r) \in {"APPROVED", "DEPLOYED"}
         => ApprovedByOther(requests[r])

HandlerOK(h) ==
    LET at == handler[h].at
        r  == handler[h].request
    IN  /\ at # "idle" => r \in DOMAIN requests
        /\ at = "approve" => requests[r].requester # h
        /\ at \in Executing => Strategy(r) = "DIRECT" /\ Status(r) = "DEPLOYED"
        /\ at = "record" => \E d \in DOMAIN deployments : deployments[d].request = r
        /\ at \in Promoting => Strategy(r) = "PROMOTION"
        /\ at \in {"pull", "await"} => mode.gitOps
        /\ at \in {"check", "commit"} /\ mode.approval /\ ~mode.gitOps
             => h \in Users /\ requests[r].requester # h

\* A claim has one holder.
OneExecutor ==
    \A g, h \in Handlers :
        /\ handler[g].at \in Executing /\ handler[h].at \in Executing
        /\ handler[g].request = handler[h].request
        => g = h

DeploymentOK(d) ==
    LET r == deployments[d].request
    IN  /\ r \in DOMAIN requests
        /\ Strategy(r) = "DIRECT" /\ Status(r) # "PENDING"
        /\ ApprovedByOther(requests[r])
        /\ DeploysReviewed(deployments[d], requests[r])

TargetOK(t) ==
    LET r == targets[t].request
    IN  /\ r \in DOMAIN requests
        /\ Strategy(r) = "PROMOTION"
        /\ mode.approval /\ ~mode.gitOps => ApprovedByOther(requests[r])

ResultsOK ==
    /\ \A d \in DOMAIN deployments : DeploymentOK(d)
    /\ \A t \in DOMAIN targets : TargetOK(t)

Sound ==
    /\ TypeOK
    /\ \A r \in DOMAIN requests : RequestOK(r)
    /\ \A h \in Handlers : HandlerOK(h)
    /\ OneExecutor
    /\ ResultsOK

-----------------------------------------------------------------------------
(***************************************************************************)
(* What no step may do to a row, but for the release of its own claim.     *)
(***************************************************************************)
RowStep(r) ==
    /\ r \in DOMAIN requests'
    /\ requests'[r].strategy = requests[r].strategy
    /\ requests'[r].requester = requests[r].requester
    /\ requests'[r].config = requests[r].config
    /\ requests[r].strategy = "DIRECT" /\ requests[r].status # "PENDING"
         => requests'[r].status # "PENDING" /\ requests'[r].reviewer = requests[r].reviewer
    /\ /\ mode.approval /\ ~mode.gitOps /\ requests[r].strategy = "PROMOTION"
       /\ requests[r].reviewer \in Users \ {requests[r].requester}
       => requests'[r].reviewer \in Users \ {requests[r].requester}

StaysDeployed(r) ==
    requests[r].strategy = "DIRECT" /\ requests[r].status = "DEPLOYED"
      => requests'[r].status = "DEPLOYED"

\* Type facts about one row.
LEMMA RowType ==
    ASSUME TypeOK, NEW r \in DOMAIN requests
    PROVE  requests[r] \in Requests /\ r \in RequestIds
BY RequestsAssumption DEF TypeOK, RequestIds

\* A row is updated.
LEMMA UpdateRow ==
    ASSUME TypeOK, NEW r \in DOMAIN requests, NEW row \in Requests,
           requests' = [requests EXCEPT ![r] = row]
    PROVE  /\ requests' \in Seq(Requests) /\ Len(requests') = Len(requests)
           /\ DOMAIN requests' = DOMAIN requests
           /\ requests'[r] = row
           /\ \A s \in DOMAIN requests \ {r} : requests'[s] = requests[s]
BY DEF TypeOK

\* A row is inserted.
LEMMA InsertRow ==
    ASSUME TypeOK, RoomForRequest, NEW row \in Requests, requests' = Append(requests, row)
    PROVE  /\ requests' \in Seq(Requests) /\ Len(requests') <= MaxRequests
           /\ Len(requests) + 1 \in RequestIds
           /\ DOMAIN requests' = DOMAIN requests \cup {Len(requests) + 1}
           /\ requests'[Len(requests) + 1] = row
           /\ \A s \in DOMAIN requests : requests'[s] = requests[s]
BY RequestsAssumption DEF TypeOK, RoomForRequest, RequestIds

\* What holds of the results is kept by every legal step of the rows.
LEMMA ResultsKept ==
    ASSUME Sound, mode' = mode, UNCHANGED <<deployments, targets>>,
           \A r \in DOMAIN requests : RowStep(r)
    PROVE  ResultsOK'
<1>1. ASSUME NEW d \in DOMAIN deployments PROVE DeploymentOK(d)'
    <2>1. DeploymentOK(d)
        BY DEF Sound, ResultsOK
    <2> QED
        BY <2>1 DEF DeploymentOK, DeploysReviewed, RowStep, Strategy, Status, ApprovedByOther
<1>2. ASSUME NEW t \in DOMAIN targets PROVE TargetOK(t)'
    <2>1. TargetOK(t)
        BY DEF Sound, ResultsOK
    <2> QED
        BY <2>1 DEF TargetOK, RowStep, Strategy, Status, ApprovedByOther
<1> QED
    BY <1>1, <1>2 DEF ResultsOK

\* What holds of a handler is not disturbed by the step of another one.
LEMMA OthersKept ==
    ASSUME Sound, mode' = mode, NEW h \in Handlers, NEW s \in HandlerStates,
           handler' = [handler EXCEPT ![h] = s],
           \A d \in DOMAIN deployments : d \in DOMAIN deployments' /\ deployments'[d] = deployments[d],
           \A r \in DOMAIN requests : RowStep(r),
           \A r \in DOMAIN requests :
              StaysDeployed(r) \/ (handler[h].at \in Executing /\ handler[h].request = r),
           HandlerOK(h)',
           s.at \in Executing =>
              \/ handler[h].at \in Executing /\ handler[h].request = s.request
              \/ Status(s.request) # "DEPLOYED"
    PROVE  /\ handler' \in [Handlers -> HandlerStates]
           /\ \A g \in Handlers : HandlerOK(g)'
           /\ OneExecutor'
<1>1. /\ handler' \in [Handlers -> HandlerStates] /\ handler'[h] = s
      /\ \A g \in Handlers \ {h} : handler'[g] = handler[g]
    BY DEF Sound, TypeOK
<1>2. ASSUME NEW g \in Handlers, g # h PROVE HandlerOK(g)'
    <2>1. HandlerOK(g) /\ handler'[g] = handler[g]
        BY <1>1, <1>2 DEF Sound
    <2>2. handler[g].at \in Executing => StaysDeployed(handler[g].request)
        BY <1>2, <2>1 DEF Sound, OneExecutor, HandlerOK, Executing
    <2> QED
        BY <2>1, <2>2 DEF HandlerOK, RowStep, StaysDeployed, Strategy, Status, Executing, Promoting
<1>3. ASSUME NEW g \in Handlers, g # h, handler[g].at \in Executing, s.at \in Executing
      PROVE  handler[g].request # s.request
    BY <1>3 DEF Sound, OneExecutor, HandlerOK, Executing
<1>4. OneExecutor'
    BY <1>1, <1>3 DEF Sound, OneExecutor
<1> QED
    BY <1>1, <1>2, <1>4

-----------------------------------------------------------------------------
(***************************************************************************)
(* The kinds of steps: of a handler alone, with an update of one row, or   *)
(* with a new row.                                                         *)
(***************************************************************************)
LEMMA HandlerMoves ==
    ASSUME Sound, UNCHANGED <<mode, dbVars>>, NEW h \in Handlers, NEW s \in HandlerStates,
           handler' = [handler EXCEPT ![h] = s], HandlerOK(h)',
           s.at \in Executing => handler[h].at \in Executing /\ handler[h].request = s.request
    PROVE  Sound'
<1>1. \A r \in DOMAIN requests : RowStep(r) /\ StaysDeployed(r)
    BY DEF dbVars, RowStep, StaysDeployed
<1>2. /\ handler' \in [Handlers -> HandlerStates]
      /\ \A g \in Handlers : HandlerOK(g)'
      /\ OneExecutor'
    BY <1>1, OthersKept DEF dbVars
<1>3. ResultsOK' /\ \A r \in DOMAIN requests' : RequestOK(r)'
    BY <1>1, ResultsKept DEF dbVars, Sound, RequestOK, Strategy, Status, ApprovedByOther
<1>4. TypeOK'
    BY <1>2 DEF Sound, TypeOK, dbVars, Status
<1> QED
    BY <1>2, <1>3, <1>4 DEF Sound

\* A row is legal.
RowOK(row) ==
    /\ row \in Requests
    /\ row.pull # "none" => mode.gitOps /\ row.strategy = "PROMOTION"
    /\ row.status = "APPROVED" => row.reviewer \in Users
    /\ row.strategy = "DIRECT" /\ row.status \in {"APPROVED", "DEPLOYED"}
         => ApprovedByOther(row)

LEMMA RowMoves ==
    ASSUME Sound, UNCHANGED <<mode, graph, variables, deployments, targets>>,
           NEW r \in DOMAIN requests, NEW row, RowOK(row),
           requests' = [requests EXCEPT ![r] = row],
           RowStep(r),
           NEW h \in Handlers, NEW s \in HandlerStates,
           handler' = [handler EXCEPT ![h] = s], HandlerOK(h)',
           StaysDeployed(r) \/ (handler[h].at \in Executing /\ handler[h].request = r),
           s.at \in Executing =>
              \/ handler[h].at \in Executing /\ handler[h].request = s.request
              \/ Status(s.request) # "DEPLOYED"
    PROVE  Sound'
<1>1. /\ requests' \in Seq(Requests) /\ Len(requests') = Len(requests)
      /\ DOMAIN requests' = DOMAIN requests
      /\ requests'[r] = row
      /\ \A q \in DOMAIN requests \ {r} : requests'[q] = requests[q]
    BY UpdateRow DEF Sound, RowOK
<1>2. \A q \in DOMAIN requests \ {r} : RowStep(q) /\ StaysDeployed(q)
    BY <1>1 DEF RowStep, StaysDeployed
<1>3. /\ handler' \in [Handlers -> HandlerStates]
      /\ \A g \in Handlers : HandlerOK(g)'
      /\ OneExecutor'
    BY <1>2, OthersKept
<1>4. ResultsOK'
    BY <1>2, ResultsKept
<1>5. \A q \in DOMAIN requests' : RequestOK(q)'
    BY <1>1 DEF Sound, RowOK, RequestOK, Strategy, Status, ApprovedByOther
<1>6. TypeOK'
    BY <1>1, <1>3 DEF Sound, TypeOK, RowOK, Status
<1> QED
    BY <1>3, <1>4, <1>5, <1>6 DEF Sound

LEMMA RowAppears ==
    ASSUME Sound, UNCHANGED <<mode, variables, deployments, targets>>, graph' \in Configs,
           RoomForRequest, NEW row, RowOK(row), row.status = "PENDING",
           requests' = Append(requests, row),
           NEW h \in Handlers, handler[h].at = "idle", NEW s \in HandlerStates,
           handler' = [handler EXCEPT ![h] = s], HandlerOK(h)',
           s.at \notin Executing
    PROVE  Sound'
<1>1. /\ requests' \in Seq(Requests) /\ Len(requests') <= MaxRequests
      /\ DOMAIN requests' = DOMAIN requests \cup {Len(requests) + 1}
      /\ requests'[Len(requests) + 1] = row
      /\ \A q \in DOMAIN requests : requests'[q] = requests[q]
    BY InsertRow DEF Sound, RowOK
<1>2. \A q \in DOMAIN requests : RowStep(q) /\ StaysDeployed(q)
    BY <1>1 DEF RowStep, StaysDeployed
<1>3. /\ handler' \in [Handlers -> HandlerStates]
      /\ \A g \in Handlers : HandlerOK(g)'
      /\ OneExecutor'
    BY <1>2, OthersKept
<1>4. ResultsOK'
    BY <1>2, ResultsKept
<1>5. \A q \in DOMAIN requests' : RequestOK(q)'
    BY <1>1 DEF Sound, RowOK, RequestOK, Strategy, Status, ApprovedByOther
<1>6. TypeOK'
    BY <1>1, <1>3 DEF Sound, TypeOK, RowOK, Status
<1> QED
    BY <1>3, <1>4, <1>5, <1>6 DEF Sound

\* An idle handler has nothing to keep.
LEMMA BlankOK ==
    /\ Blank \in HandlerStates /\ Blank.at = "idle"
    /\ \A h : handler'[h] = Blank => HandlerOK(h)'
BY RequestsAssumption DEF Blank, HandlerStates, HandlerOK, Executing, Promoting

LEMMA InitSound == Init => Sound
<1> SUFFICES ASSUME Init PROVE Sound
    OBVIOUS
<1>1. requests = <<>> /\ deployments = <<>> /\ targets = <<>>
    BY DEF Init
<1>2. \A h \in Handlers : handler[h] = Blank
    BY DEF Init
<1>3. handler \in [Handlers -> HandlerStates]
    BY BlankOK DEF Init
<1>4. TypeOK
    BY <1>1, <1>3, RequestsAssumption DEF Init, TypeOK
<1>5. \A h \in Handlers : HandlerOK(h)
    BY <1>2 DEF Blank, HandlerOK, Executing, Promoting
<1>6. OneExecutor
    BY <1>2 DEF OneExecutor, Blank, Executing
<1> QED
    BY <1>1, <1>4, <1>5, <1>6 DEF Sound, ResultsOK

-----------------------------------------------------------------------------
(***************************************************************************)
(* The handlers, one lemma for each group of calls.                        *)
(***************************************************************************)
\* New requests: of an editor, of a push to the repository, of a promotion.
LEMMA SubmitSound ==
    ASSUME Sound,
           (\E u \in Users : SubmitDeploy(u) \/ Initiate(u)) \/ ImportFromGit
    PROVE  Sound'
<1> DEFINE Row(strategy, user, config) ==
        [strategy |-> strategy, status |-> "PENDING", requester |-> user,
         reviewer |-> Nobody, config |-> config, pull |-> "none"]
<1>1. \A strategy \in {"DIRECT", "PROMOTION"}, user \in Users \cup {Nobody}, config \in Configs :
         RowOK(Row(strategy, user, config))
    BY DEF RowOK, Requests, Statuses
<1>2. \A h \in Handlers : handler[h] \in HandlerStates
    BY DEF Sound, TypeOK
<1>3. ASSUME NEW h \in Handlers, Idle(h), UNCHANGED handler
      PROVE  /\ handler' = [handler EXCEPT ![h] = handler[h]] /\ handler[h].at = "idle"
             /\ HandlerOK(h)'
    BY <1>3, BlankOK DEF Sound, TypeOK, Idle
<1>4. ASSUME NEW u \in Users, SubmitDeploy(u) PROVE Sound'
    <2>1. requests' = Append(requests, Row("DIRECT", u, graph)) /\ graph \in Configs
        BY <1>4 DEF SubmitDeploy, NewRequest, Sound, TypeOK
    <2>2. u \in Handlers /\ Idle(u) /\ UNCHANGED handler
        BY <1>4 DEF SubmitDeploy, Handlers
    <2>3. handler[u] \in HandlerStates /\ handler[u].at \notin Executing
        BY <1>2, <1>3, <2>2 DEF Executing
    <2> QED
        BY <1>1, <1>3, <1>4, <2>1, <2>2, <2>3, RowAppears DEF SubmitDeploy
<1>5. CASE ImportFromGit
    <2>1. PICK config \in Configs : graph' = config /\ requests' = Append(requests, Row("DIRECT", Nobody, config))
        BY <1>5 DEF ImportFromGit, NewRequest
    <2>2. GitHost \in Handlers /\ Idle(GitHost) /\ UNCHANGED handler
        BY <1>5 DEF ImportFromGit, Handlers
    <2>3. handler[GitHost] \in HandlerStates /\ handler[GitHost].at \notin Executing
        BY <1>2, <1>3, <2>2 DEF Executing
    <2> QED
        BY <1>1, <1>3, <1>5, <2>1, <2>2, <2>3, RowAppears DEF ImportFromGit
<1>6. ASSUME NEW u \in Users, Initiate(u) PROVE Sound'
    <2> DEFINE new == Len(requests) + 1
    <2>1. /\ requests' = Append(requests, Row("PROMOTION", u, graph)) /\ graph \in Configs
          /\ RoomForRequest /\ UNCHANGED <<mode, graph, variables, deployments, targets>>
        BY <1>6 DEF Initiate, NewRequest, Sound, TypeOK
    <2>2. /\ new \in RequestIds /\ new \in DOMAIN requests'
          /\ requests'[new] = Row("PROMOTION", u, graph)
        <3>1. Row("PROMOTION", u, graph) \in Requests
            BY <1>1, <2>1 DEF RowOK
        <3> QED
            BY <2>1, <3>1, InsertRow DEF Sound
    <2>3. u \in Handlers /\ Idle(u) /\ handler[u].at = "idle"
        BY <1>6, BlankOK DEF Initiate, Handlers, Idle
    <2>4. CASE UNCHANGED handler
        <3>1. handler[u] \in HandlerStates /\ handler[u].at \notin Executing
            BY <1>2, <2>3 DEF Executing
        <3> QED
            BY <1>1, <1>3, <2>1, <2>3, <2>4, <3>1, RowAppears
    <2>5. ASSUME NEW place \in {"pull", "check"}, Goto(u, place, new),
                 place = "pull" => mode.gitOps
          PROVE  Sound'
        <3> DEFINE s == [at |-> place, request |-> new]
        <3>1. s \in HandlerStates /\ s.at \notin Executing
            BY <2>2 DEF HandlerStates, RequestIds, Executing
        <3>2. handler' = [handler EXCEPT ![u] = s] /\ handler'[u] = s
            BY <2>3, <2>5 DEF Goto, Sound, TypeOK
        <3>3. requests'[new].requester = u /\ requests'[new].strategy = "PROMOTION" /\ mode' = mode
            BY <2>1, <2>2
        <3>4. HandlerOK(u)'
            <4>1. CASE place = "pull"
                BY <2>2, <2>5, <3>2, <3>3, <4>1 DEF HandlerOK, Executing, Promoting, Strategy
            <4>2. CASE place = "check" /\ ~(mode.approval /\ ~mode.gitOps)
                BY <2>2, <3>2, <3>3, <4>2 DEF HandlerOK, Executing, Promoting, Strategy
            <4>3. ~(place = "check" /\ mode.approval /\ ~mode.gitOps)
                BY <1>6, <2>5, <3>2, <2>3 DEF Initiate, Goto, Sound, TypeOK
            <4> QED
                BY <2>5, <4>1, <4>2, <4>3
        <3> QED
            BY <1>1, <2>1, <2>3, <3>1, <3>2, <3>4, RowAppears
    <2> QED
        BY <1>6, <2>4, <2>5 DEF Initiate
<1> QED
    BY <1>4, <1>5, <1>6

\* What a handler that is not idle works on.
LEMMA HandledRow ==
    ASSUME Sound, NEW h \in Handlers, handler[h].at # "idle"
    PROVE  /\ handler[h].request \in DOMAIN requests
           /\ handler[h].request \in RequestIds
           /\ requests[handler[h].request] \in Requests
           /\ RequestOK(handler[h].request)
<1>1. handler[h].request \in DOMAIN requests
    BY DEF Sound, HandlerOK
<1> QED
    BY <1>1, RowType DEF Sound

\* A handler goes on with its request, or stops.
LEMMA Going ==
    ASSUME Sound, NEW h \in Handlers, NEW r \in RequestIds, NEW place,
           place \in {"approve", "reject", "cancel"} \cup Executing \cup Promoting
    PROVE  /\ [at |-> place, request |-> r] \in HandlerStates
           /\ Goto(h, place, r) => handler'[h] = [at |-> place, request |-> r]
           /\ Finish(h) => handler'[h] = Blank /\ HandlerOK(h)'
BY BlankOK, RequestsAssumption
   DEF Sound, TypeOK, HandlerStates, RequestIds, Executing, Promoting, Goto, Finish

LEMMA Finishing ==
    ASSUME Sound, NEW h \in Handlers, Finish(h)
    PROVE  handler'[h] = Blank /\ HandlerOK(h)' /\ handler' = [handler EXCEPT ![h] = Blank]
BY BlankOK DEF Sound, TypeOK, Finish

\* Review: what is read is checked again by the claim.
LEMMA ReviewSound ==
    ASSUME Sound, NEW u \in Users,
           BeginReview(u) \/ ClaimApproval(u) \/ ClaimRejection(u) \/ ClaimCancellation(u)
    PROVE  Sound'
<1> DEFINE r == handler[u].request
<1>0. u \in Handlers
    BY DEF Handlers
<1>1. CASE BeginReview(u)
    <2>1. PICK q \in DOMAIN requests, place \in {"approve", "reject", "cancel"} :
             Goto(u, place, q) /\ (place = "approve" => requests[q].requester # u)
        BY <1>1 DEF BeginReview, MayApprove
    <2>2. q \in RequestIds
        BY RowType DEF Sound
    <2>3. /\ [at |-> place, request |-> q] \in HandlerStates
          /\ handler'[u] = [at |-> place, request |-> q]
        BY <1>0, <2>1, <2>2, Going
    <2>4. UNCHANGED <<mode, dbVars>>
        BY <1>1 DEF BeginReview
    <2>5. HandlerOK(u)'
        BY <2>1, <2>3, <2>4 DEF HandlerOK, Executing, Promoting, dbVars
    <2>6. place \notin Executing
        BY DEF Executing
    <2> QED
        BY <1>0, <2>1, <2>3, <2>4, <2>5, <2>6, HandlerMoves DEF Goto
<1>2. CASE ClaimApproval(u)
    <2>1. r \in DOMAIN requests /\ r \in RequestIds /\ requests[r] \in Requests /\ RequestOK(r)
        BY <1>0, <1>2, HandledRow DEF ClaimApproval, At
    <2>2. CASE Status(r) # "PENDING"
        BY <1>0, <1>2, <2>2, BlankOK, Finishing, HandlerMoves DEF ClaimApproval, dbVars, Executing
    <2>3. CASE Status(r) = "PENDING"
        <3> DEFINE row == [requests[r] EXCEPT !.status = "APPROVED", !.reviewer = u]
        <3>1. requests' = [requests EXCEPT ![r] = row] /\ UNCHANGED <<mode, graph, variables, deployments, targets>>
            BY <1>2, <2>3 DEF ClaimApproval, SetReview
        <3>2. requests[r].requester # u
            BY <1>0, <1>2 DEF ClaimApproval, At, Sound, HandlerOK
        <3>3. /\ row \in Requests /\ row.status = "APPROVED" /\ row.reviewer = u
              /\ row.strategy = requests[r].strategy /\ row.requester = requests[r].requester
              /\ row.config = requests[r].config /\ row.pull = requests[r].pull
            BY <2>1 DEF Requests, Statuses
        <3>4. RowOK(row)
            BY <2>1, <3>2, <3>3 DEF RowOK, RequestOK, ApprovedByOther, Strategy
        <3>5. requests'[r] = row /\ DOMAIN requests' = DOMAIN requests
            BY <2>1, <3>1, <3>3, UpdateRow DEF Sound
        <3>6. RowStep(r) /\ StaysDeployed(r)
            BY <2>1, <2>3, <3>2, <3>3, <3>5 DEF RowStep, StaysDeployed, Status
        <3>7. CASE Strategy(r) = "PROMOTION"
            <4>1. Goto(u, "check", r)
                BY <1>2, <2>3, <3>7 DEF ClaimApproval
            <4>2. /\ [at |-> "check", request |-> r] \in HandlerStates
                  /\ handler'[u] = [at |-> "check", request |-> r]
                BY <1>0, <2>1, <4>1, Going DEF Promoting
            <4>3. /\ r \in DOMAIN requests' /\ mode' = mode
                  /\ requests'[r].strategy = "PROMOTION" /\ requests'[r].requester # u
                BY <2>1, <3>1, <3>2, <3>3, <3>5, <3>7 DEF Strategy
            <4>4. HandlerOK(u)'
                BY <4>2, <4>3 DEF HandlerOK, Executing, Promoting, Strategy
            <4> QED
                BY <1>0, <2>1, <3>1, <3>4, <3>6, <4>1, <4>2, <4>4, RowMoves DEF Goto, Executing
        <3>8. CASE Strategy(r) # "PROMOTION"
            <4>1. Finish(u)
                BY <1>2, <2>3, <3>8 DEF ClaimApproval
            <4> QED
                BY <1>0, <2>1, <3>1, <3>4, <3>6, <4>1, BlankOK, Finishing, RowMoves DEF Executing
        <3> QED
            BY <3>7, <3>8
    <2> QED
        BY <2>2, <2>3
<1>3. CASE ClaimRejection(u)
    <2>1. r \in DOMAIN requests /\ requests[r] \in Requests /\ RequestOK(r)
        BY <1>0, <1>3, HandledRow DEF ClaimRejection, At
    <2>2. Finish(u) /\ UNCHANGED <<mode, graph, variables, deployments, targets>>
        BY <1>3 DEF ClaimRejection
    <2>3. CASE Status(r) # "PENDING"
        BY <1>0, <1>3, <2>2, <2>3, BlankOK, Finishing, HandlerMoves DEF ClaimRejection, dbVars, Executing
    <2>4. CASE Status(r) = "PENDING"
        <3>1. PICK reviewer \in {u, requests[r].reviewer} :
                 /\ requests' = [requests EXCEPT ![r] =
                                   [@ EXCEPT !.status = "REJECTED", !.reviewer = reviewer]]
                 /\ Strategy(r) = "DIRECT" \/ reviewer = requests[r].reviewer
            BY <1>3, <2>1, <2>4 DEF ClaimRejection, SetReview, SetStatus, Strategy, Requests
        <3> DEFINE row == [requests[r] EXCEPT !.status = "REJECTED", !.reviewer = reviewer]
        <3>2. /\ row \in Requests /\ row.status = "REJECTED" /\ row.reviewer = reviewer
              /\ row.strategy = requests[r].strategy /\ row.requester = requests[r].requester
              /\ row.config = requests[r].config /\ row.pull = requests[r].pull
            BY <2>1 DEF Requests, Statuses
        <3>3. RowOK(row)
            BY <2>1, <3>2 DEF RowOK, RequestOK, Strategy
        <3>4. requests'[r] = row /\ DOMAIN requests' = DOMAIN requests
            BY <2>1, <3>1, <3>2, UpdateRow DEF Sound
        <3>5. RowStep(r) /\ StaysDeployed(r)
            BY <2>1, <2>4, <3>1, <3>2, <3>4 DEF RowStep, StaysDeployed, Status, Strategy
        <3> QED
            BY <1>0, <2>1, <2>2, <3>1, <3>3, <3>5, BlankOK, Finishing, RowMoves DEF Executing
    <2> QED
        BY <2>3, <2>4
<1>4. CASE ClaimCancellation(u)
    <2>1. r \in DOMAIN requests /\ requests[r] \in Requests /\ RequestOK(r)
        BY <1>0, <1>4, HandledRow DEF ClaimCancellation, At
    <2>2. Finish(u) /\ UNCHANGED <<mode, graph, variables, deployments, targets>>
        BY <1>4 DEF ClaimCancellation
    <2>3. CASE ~Cancellable(r)
        BY <1>0, <1>4, <2>2, <2>3, BlankOK, Finishing, HandlerMoves DEF ClaimCancellation, dbVars, Executing
    <2>4. CASE Cancellable(r)
        <3> DEFINE row == [requests[r] EXCEPT !.status = "CANCELLED"]
        <3>1. requests' = [requests EXCEPT ![r] = row]
            BY <1>4, <2>4 DEF ClaimCancellation, SetStatus
        <3>2. /\ row \in Requests /\ row.status = "CANCELLED" /\ row.reviewer = requests[r].reviewer
              /\ row.strategy = requests[r].strategy /\ row.requester = requests[r].requester
              /\ row.config = requests[r].config /\ row.pull = requests[r].pull
            BY <2>1 DEF Requests, Statuses
        <3>3. RowOK(row)
            BY <2>1, <3>2 DEF RowOK, RequestOK, Strategy
        <3>4. requests'[r] = row /\ DOMAIN requests' = DOMAIN requests
            BY <2>1, <3>1, <3>2, UpdateRow DEF Sound
        <3>5. RowStep(r) /\ StaysDeployed(r)
            BY <2>1, <2>4, <3>2, <3>4 DEF RowStep, StaysDeployed, Status, Cancellable
        <3> QED
            BY <1>0, <2>1, <2>2, <3>1, <3>3, <3>5, BlankOK, Finishing, RowMoves DEF Executing
    <2> QED
        BY <2>3, <2>4
<1> QED
    BY <1>1, <1>2, <1>3, <1>4

\* executeApprovedRequest: the claim is there until its holder gives it back.
LEMMA ExecuteSound ==
    ASSUME Sound, NEW u \in Users,
           \/ BeginExecute(u) \/ Deploy(u) \/ DeployRefused(u)
           \/ RecordDeployed(u) \/ RecordFails(u) \/ Revert(u)
    PROVE  Sound'
<1> DEFINE r == handler[u].request
<1>0. u \in Handlers
    BY DEF Handlers
<1>1. CASE BeginExecute(u)
    <2>1. PICK q \in DOMAIN requests :
             Strategy(q) = "DIRECT" /\ ClaimExecution(q) /\ Goto(u, "deploy", q)
        BY <1>1 DEF BeginExecute
    <2> DEFINE row == [requests[q] EXCEPT !.status = "DEPLOYED"]
    <2>2. /\ requests[q] \in Requests /\ q \in RequestIds /\ RequestOK(q)
          /\ Status(q) = "APPROVED" /\ requests' = [requests EXCEPT ![q] = row]
        BY <2>1, RowType DEF Sound, ClaimExecution, SetStatus
    <2>3. /\ row \in Requests /\ row.status = "DEPLOYED" /\ row.reviewer = requests[q].reviewer
          /\ row.strategy = requests[q].strategy /\ row.requester = requests[q].requester
          /\ row.config = requests[q].config /\ row.pull = requests[q].pull
        BY <2>2 DEF Requests, Statuses
    <2>4. RowOK(row)
        BY <2>1, <2>2, <2>3 DEF RowOK, RequestOK, ApprovedByOther, Strategy
    <2>5. requests'[q] = row /\ DOMAIN requests' = DOMAIN requests
        BY <2>2, <2>3, UpdateRow DEF Sound
    <2>6. RowStep(q) /\ StaysDeployed(q)
        BY <2>2, <2>3, <2>5 DEF RowStep, StaysDeployed, Status
    <2>7. /\ [at |-> "deploy", request |-> q] \in HandlerStates
          /\ handler'[u] = [at |-> "deploy", request |-> q]
        BY <1>0, <2>1, <2>2, Going DEF Executing
    <2>8. HandlerOK(u)'
        <3>1. /\ q \in DOMAIN requests'
              /\ requests'[q].strategy = "DIRECT" /\ requests'[q].status = "DEPLOYED"
            BY <2>1, <2>3, <2>5 DEF Strategy
        <3> QED
            BY <2>7, <3>1 DEF HandlerOK, Executing, Promoting, Strategy, Status
    <2>9. UNCHANGED <<mode, graph, variables, deployments, targets>>
        BY <1>1 DEF BeginExecute
    <2> QED
        BY <1>0, <2>1, <2>2, <2>4, <2>6, <2>7, <2>8, <2>9, RowMoves DEF Goto
<1>2. CASE Deploy(u)
    <2> DEFINE result == [request |-> r, config |-> requests[r].config,
                          values |-> ValuesFor(requests[r].config), snapshot |-> graph]
    <2>1. /\ r \in DOMAIN requests /\ r \in RequestIds /\ requests[r] \in Requests
          /\ RequestOK(r) /\ HandlerOK(u) /\ handler[u].at = "deploy"
        BY <1>0, <1>2, HandledRow DEF Deploy, At, Sound
    <2>2. /\ deployments' = Append(deployments, result)
          /\ Goto(u, "record", r) /\ UNCHANGED <<mode, graph, variables, requests, targets>>
          /\ Resolvable(requests[r].config)
        BY <1>2 DEF Deploy, DeployedConfig
    <2>3. result \in Versions /\ deployments \in Seq(Versions)
        BY <2>1, <2>2 DEF Versions, Requests, Sound, TypeOK, Resolvable, ValuesFor
    <2>4. /\ deployments' \in Seq(Versions)
          /\ DOMAIN deployments' = DOMAIN deployments \cup {Len(deployments) + 1}
          /\ \A d \in DOMAIN deployments : deployments'[d] = deployments[d]
          /\ deployments'[Len(deployments) + 1] = result
        BY <2>2, <2>3
    <2>5. \A q \in DOMAIN requests : RowStep(q) /\ StaysDeployed(q)
        BY <2>2 DEF RowStep, StaysDeployed
    <2>6. /\ [at |-> "record", request |-> r] \in HandlerStates
          /\ handler'[u] = [at |-> "record", request |-> r]
        BY <1>0, <2>1, <2>2, Going DEF Executing
    <2>7. HandlerOK(u)'
        BY <2>1, <2>2, <2>4, <2>6 DEF HandlerOK, Executing, Promoting, Strategy, Status
    <2>8. /\ handler' \in [Handlers -> HandlerStates]
          /\ \A g \in Handlers : HandlerOK(g)'
          /\ OneExecutor'
        BY <1>0, <2>1, <2>2, <2>4, <2>5, <2>6, <2>7, OthersKept DEF Goto, Executing
    <2>9. ASSUME NEW d \in DOMAIN deployments' PROVE DeploymentOK(d)'
        <3>1. CASE d \in DOMAIN deployments
            BY <2>2, <2>4, <3>1
               DEF Sound, ResultsOK, DeploymentOK, DeploysReviewed, Strategy, Status, ApprovedByOther
        <3>2. CASE d = Len(deployments) + 1
            <4>1. DeploysReviewed(result, requests[r])
                BY <2>2, <2>1 DEF DeploysReviewed, Resolvable, ValuesFor, Sound, TypeOK
            <4>2. deployments'[d] = result /\ requests' = requests
                BY <2>2, <2>4, <3>2
            <4>3. Strategy(r) = "DIRECT" /\ Status(r) = "DEPLOYED" /\ ApprovedByOther(requests[r])
                BY <2>1 DEF HandlerOK, RequestOK, Executing
            <4> QED
                BY <2>1, <4>1, <4>2, <4>3 DEF DeploymentOK, DeploysReviewed, Strategy, Status, ApprovedByOther
        <3> QED
            BY <2>4, <3>1, <3>2
    <2>10. \A t \in DOMAIN targets' : TargetOK(t)'
        BY <2>2 DEF Sound, ResultsOK, TargetOK, Strategy, ApprovedByOther
    <2>11. TypeOK' /\ \A q \in DOMAIN requests' : RequestOK(q)'
        BY <2>2, <2>4, <2>8 DEF Sound, TypeOK, RequestOK, Strategy, Status, ApprovedByOther
    <2> QED
        BY <2>8, <2>9, <2>10, <2>11 DEF Sound, ResultsOK
<1>3. CASE DeployRefused(u) \/ RecordFails(u)
    <2>1. /\ Goto(u, "revert", r) /\ UNCHANGED <<mode, dbVars>>
          /\ handler[u].at \in Executing
        BY <1>3 DEF DeployRefused, RecordFails, At, Executing
    <2>2. HandlerOK(u) /\ r \in RequestIds
        BY <1>0, <2>1, HandledRow DEF Sound, Executing
    <2>3. /\ [at |-> "revert", request |-> r] \in HandlerStates
          /\ handler'[u] = [at |-> "revert", request |-> r]
        BY <1>0, <2>1, <2>2, Going DEF Executing
    <2>4. HandlerOK(u)'
        BY <2>1, <2>2, <2>3 DEF HandlerOK, Executing, Promoting, Strategy, Status, dbVars
    <2> QED
        BY <1>0, <2>1, <2>3, <2>4, HandlerMoves DEF Goto
<1>4. CASE RecordDeployed(u)
    BY <1>0, <1>4, BlankOK, Finishing, HandlerMoves DEF RecordDeployed, Executing
<1>5. CASE Revert(u)
    <2>1. /\ r \in DOMAIN requests /\ requests[r] \in Requests /\ RequestOK(r)
          /\ handler[u].at = "revert" /\ HandlerOK(u)
        BY <1>0, <1>5, HandledRow DEF Revert, At, Sound
    <2>2. Finish(u) /\ UNCHANGED <<mode, graph, variables, deployments, targets>>
        BY <1>5 DEF Revert
    <2> DEFINE row == [requests[r] EXCEPT !.status = "APPROVED"]
    <2>3. Strategy(r) = "DIRECT" /\ Status(r) = "DEPLOYED" /\ requests' = [requests EXCEPT ![r] = row]
        BY <1>5, <2>1 DEF Revert, HandlerOK, Executing, SetStatus, RevertedStatus
    <2>4. /\ row \in Requests /\ row.status = "APPROVED" /\ row.reviewer = requests[r].reviewer
          /\ row.strategy = requests[r].strategy /\ row.requester = requests[r].requester
          /\ row.config = requests[r].config /\ row.pull = requests[r].pull
        BY <2>1 DEF Requests, Statuses
    <2>5. RowOK(row)
        BY <2>1, <2>3, <2>4 DEF RowOK, RequestOK, ApprovedByOther, Strategy
    <2>6. requests'[r] = row /\ DOMAIN requests' = DOMAIN requests
        BY <2>1, <2>3, <2>4, UpdateRow DEF Sound
    <2>7. RowStep(r)
        BY <2>1, <2>4, <2>6 DEF RowStep
    <2>8. handler[u].at \in Executing
        BY <2>1 DEF Executing
    <2> QED
        BY <1>0, <2>1, <2>2, <2>3, <2>5, <2>7, <2>8, BlankOK, Finishing, RowMoves DEF Executing
<1> QED
    BY <1>1, <1>2, <1>3, <1>4, <1>5

\* Promotions: the claim of an approval or of a merge is not looked at again,
\* but the handler still is the one that made it.
LEMMA PromotionSound ==
    ASSUME Sound, NEW h \in Handlers,
           \/ h \in Users /\ (OpenPull(h) \/ AwaitMerge(h))
           \/ CheckName(h) \/ CommitPromotion(h)
    PROVE  Sound'
<1> DEFINE r == handler[h].request
<1>0. /\ r \in DOMAIN requests /\ r \in RequestIds /\ requests[r] \in Requests
      /\ RequestOK(r) /\ HandlerOK(h) /\ handler[h].at \in Promoting /\ Strategy(r) = "PROMOTION"
    BY HandledRow DEF OpenPull, AwaitMerge, CheckName, CommitPromotion, At, Promoting, Sound, HandlerOK
<1>1. CASE OpenPull(h)
    <2> DEFINE row == [requests[r] EXCEPT !.pull = "open"]
    <2>1. /\ requests' = [requests EXCEPT ![r] = row] /\ Goto(h, "await", r)
          /\ UNCHANGED <<mode, graph, variables, deployments, targets>> /\ mode.gitOps
        BY <1>0, <1>1 DEF OpenPull, At, HandlerOK
    <2>2. /\ row \in Requests /\ row.status = requests[r].status /\ row.reviewer = requests[r].reviewer
          /\ row.strategy = requests[r].strategy /\ row.requester = requests[r].requester
          /\ row.config = requests[r].config
        BY <1>0 DEF Requests
    <2>3. RowOK(row)
        BY <1>0, <2>1, <2>2 DEF RowOK, Strategy, Sound, TypeOK, Status
    <2>4. requests'[r] = row /\ DOMAIN requests' = DOMAIN requests
        BY <1>0, <2>1, <2>2, UpdateRow DEF Sound
    <2>5. RowStep(r) /\ StaysDeployed(r)
        BY <1>0, <2>2, <2>4 DEF RowStep, StaysDeployed
    <2>6. /\ [at |-> "await", request |-> r] \in HandlerStates
          /\ handler'[h] = [at |-> "await", request |-> r]
        BY <1>0, <2>1, Going DEF Promoting
    <2>7. HandlerOK(h)'
        <3>1. /\ r \in DOMAIN requests' /\ requests'[r].strategy = "PROMOTION" /\ mode' = mode
            BY <1>0, <2>1, <2>2, <2>4 DEF Strategy
        <3> QED
            BY <2>1, <2>6, <3>1 DEF HandlerOK, Executing, Promoting, Strategy
    <2> QED
        BY <1>0, <2>1, <2>3, <2>5, <2>6, <2>7, RowMoves DEF Goto, Executing
<1>2. CASE AwaitMerge(h)
    <2> DEFINE row == [requests[r] EXCEPT !.status = "AWAITING_PR_MERGE"]
    <2>1. /\ requests' = [requests EXCEPT ![r] = row] /\ Finish(h)
          /\ UNCHANGED <<mode, graph, variables, deployments, targets>>
        BY <1>2 DEF AwaitMerge, SetStatus
    <2>2. /\ row \in Requests /\ row.status = "AWAITING_PR_MERGE" /\ row.reviewer = requests[r].reviewer
          /\ row.strategy = requests[r].strategy /\ row.requester = requests[r].requester
          /\ row.config = requests[r].config /\ row.pull = requests[r].pull
        BY <1>0 DEF Requests, Statuses
    <2>3. RowOK(row)
        BY <1>0, <2>2 DEF RowOK, RequestOK, Strategy
    <2>4. requests'[r] = row /\ DOMAIN requests' = DOMAIN requests
        BY <1>0, <2>1, <2>2, UpdateRow DEF Sound
    <2>5. RowStep(r) /\ StaysDeployed(r)
        BY <1>0, <2>2, <2>4 DEF RowStep, StaysDeployed, Strategy
    <2> QED
        BY <1>0, <2>1, <2>3, <2>5, BlankOK, Finishing, RowMoves DEF Executing
<1>3. CASE CheckName(h)
    <2>1. UNCHANGED <<mode, dbVars>> /\ handler[h].at = "check"
        BY <1>3 DEF CheckName, At
    <2>2. CASE Goto(h, "commit", r)
        <3>1. /\ [at |-> "commit", request |-> r] \in HandlerStates
              /\ handler'[h] = [at |-> "commit", request |-> r]
            BY <1>0, <2>2, Going DEF Promoting
        <3>2. HandlerOK(h)'
            BY <1>0, <2>1, <3>1 DEF HandlerOK, Executing, Promoting, Strategy, dbVars
        <3> QED
            BY <2>1, <2>2, <3>1, <3>2, HandlerMoves DEF Goto, Executing
    <2>3. CASE Finish(h)
        BY <2>1, <2>3, BlankOK, Finishing, HandlerMoves DEF Executing
    <2> QED
        BY <1>3, <2>2, <2>3 DEF CheckName
<1>4. CASE CommitPromotion(h)
    <2> DEFINE row == [requests[r] EXCEPT !.status = "DEPLOYED", !.reviewer = Executor(h)]
               result == [request |-> r, config |-> graph]
    <2>1. /\ requests' = [requests EXCEPT ![r] = row] /\ Finish(h)
          /\ targets' = Append(targets, result)
          /\ UNCHANGED <<mode, graph, variables, deployments>> /\ handler[h].at = "commit"
        BY <1>4 DEF CommitPromotion, SetReview, At
    <2>2. Executor(h) \in Users \cup {Nobody}
        BY <1>0 DEF Executor, Handlers, Requests
    <2>3. /\ row \in Requests /\ row.status = "DEPLOYED" /\ row.reviewer = Executor(h)
          /\ row.strategy = "PROMOTION" /\ row.requester = requests[r].requester
          /\ row.config = requests[r].config /\ row.pull = requests[r].pull
        BY <1>0, <2>2 DEF Requests, Statuses, Strategy
    <2>4. mode.approval /\ ~mode.gitOps => Executor(h) \in Users \ {requests[r].requester}
        BY <1>0, <2>1, RequestsAssumption DEF HandlerOK, Executor, GitHost
    <2>5. requests'[r] = row /\ DOMAIN requests' = DOMAIN requests
          /\ requests' \in Seq(Requests) /\ Len(requests') = Len(requests)
          /\ \A q \in DOMAIN requests \ {r} : requests'[q] = requests[q]
        BY <1>0, <2>1, <2>3, UpdateRow DEF Sound
    <2>6. \A q \in DOMAIN requests : RowStep(q) /\ StaysDeployed(q)
        BY <1>0, <2>3, <2>4, <2>5 DEF RowStep, StaysDeployed, Strategy
    <2>7. /\ handler' \in [Handlers -> HandlerStates]
          /\ \A g \in Handlers : HandlerOK(g)'
          /\ OneExecutor'
        BY <2>1, <2>6, BlankOK, Finishing, OthersKept DEF Executing
    <2>8. \A q \in DOMAIN requests' : RequestOK(q)'
        <3> SUFFICES ASSUME NEW q \in DOMAIN requests PROVE RequestOK(q)'
            BY <2>5
        <3>1. CASE q = r
            <4>1. requests'[q].pull # "none" => mode.gitOps
                BY <1>0, <2>3, <2>5, <3>1 DEF RequestOK
            <4>2. requests'[q].strategy = "PROMOTION" /\ mode' = mode
                BY <2>1, <2>3, <2>5, <3>1
            <4> QED
                BY <4>1, <4>2 DEF RequestOK, Strategy
        <3>2. CASE q # r
            <4>1. RequestOK(q) /\ requests'[q] = requests[q] /\ mode' = mode
                BY <2>1, <2>5, <3>2 DEF Sound
            <4> QED
                BY <4>1 DEF RequestOK, Strategy, Status, ApprovedByOther
        <3> QED
            BY <3>1, <3>2
    <2>9. result \in Promotions /\ targets \in Seq(Promotions) /\ graph \in Configs
        BY <1>0 DEF Promotions, Sound, TypeOK
    <2>10. TypeOK'
        <3>1. \A q \in DOMAIN requests' : Status(q)' = "APPROVED" => requests'[q].reviewer \in Users
            BY <2>3, <2>5 DEF Sound, TypeOK, Status
        <3>2. targets' \in Seq(Promotions)
            BY <2>1, <2>9
        <3> QED
            BY <2>1, <2>5, <2>7, <3>1, <3>2 DEF Sound, TypeOK
    <2>11. \A d \in DOMAIN deployments' : DeploymentOK(d)'
        BY <2>1, <2>6 DEF Sound, ResultsOK, DeploymentOK, DeploysReviewed, RowStep, Strategy, Status, ApprovedByOther
    <2>12. ASSUME NEW t \in DOMAIN targets' PROVE TargetOK(t)'
        <3>1. CASE t \in DOMAIN targets
            <4>1. targets'[t] = targets[t] /\ TargetOK(t)
                BY <2>1, <2>9, <3>1 DEF Sound, ResultsOK
            <4> QED
                BY <2>1, <2>6, <4>1 DEF TargetOK, RowStep, Strategy, ApprovedByOther
        <3>2. CASE t = Len(targets) + 1
            <4>1. targets'[t] = result
                BY <2>1, <2>9, <3>2
            <4> QED
                BY <1>0, <2>1, <2>3, <2>4, <2>5, <4>1 DEF TargetOK, Strategy, ApprovedByOther
        <3> QED
            BY <2>1, <2>9, <3>1, <3>2
    <2> QED
        BY <2>7, <2>8, <2>10, <2>11, <2>12 DEF Sound, ResultsOK
<1> QED
    BY <1>1, <1>2, <1>3, <1>4

\* The git host: a pull request is merged, and the merge is reported.
LEMMA MergeSound ==
    ASSUME Sound, NEW r \in DOMAIN requests, MergePull(r) \/ PullMerged(r)
    PROVE  Sound'
<1>0. /\ requests[r] \in Requests /\ r \in RequestIds /\ RequestOK(r) /\ GitHost \in Handlers
      /\ handler \in [Handlers -> HandlerStates] /\ HandlerOK(GitHost)
    BY RowType DEF Sound, TypeOK, Handlers
<1>1. CASE MergePull(r)
    <2> DEFINE row == [requests[r] EXCEPT !.pull = "merged"]
    <2>1. /\ requests' = [requests EXCEPT ![r] = row] /\ requests[r].pull = "open"
          /\ UNCHANGED <<mode, graph, variables, deployments, targets, handler>>
        BY <1>1 DEF MergePull
    <2>2. /\ row \in Requests /\ row.status = requests[r].status /\ row.reviewer = requests[r].reviewer
          /\ row.strategy = requests[r].strategy /\ row.requester = requests[r].requester
          /\ row.config = requests[r].config
        BY <1>0 DEF Requests
    <2>3. RowOK(row)
        BY <1>0, <2>1, <2>2 DEF RowOK, RequestOK, Strategy, Sound, TypeOK, Status, ApprovedByOther
    <2>4. requests'[r] = row /\ DOMAIN requests' = DOMAIN requests
          /\ \A q \in DOMAIN requests \ {r} : requests'[q] = requests[q]
        BY <1>0, <2>1, <2>2, UpdateRow DEF Sound
    <2>5. RowStep(r) /\ StaysDeployed(r)
        BY <2>2, <2>4 DEF RowStep, StaysDeployed
    <2>6. handler' = [handler EXCEPT ![GitHost] = handler[GitHost]] /\ handler[GitHost] \in HandlerStates
        BY <1>0, <2>1
    <2>7. \A q \in DOMAIN requests :
             /\ requests'[q].strategy = requests[q].strategy /\ requests'[q].status = requests[q].status
             /\ requests'[q].requester = requests[q].requester
        BY <2>2, <2>4
    <2>8. HandlerOK(GitHost)'
        BY <1>0, <2>1, <2>4, <2>7 DEF HandlerOK, Strategy, Status, Executing, Promoting
    <2> QED
        BY <1>0, <2>1, <2>3, <2>5, <2>6, <2>8, RowMoves
<1>2. CASE PullMerged(r)
    <2> DEFINE row == [requests[r] EXCEPT !.status = "DEPLOYING"]
               s   == [at |-> "check", request |-> r]
    <2>1. /\ requests' = [requests EXCEPT ![r] = row] /\ requests[r].pull = "merged"
          /\ UNCHANGED <<mode, graph, variables, deployments, targets>>
          /\ handler' = [handler EXCEPT ![GitHost] = s]
        BY <1>2 DEF PullMerged, SetStatus, Goto
    <2>2. /\ row \in Requests /\ row.status = "DEPLOYING" /\ row.reviewer = requests[r].reviewer
          /\ row.strategy = requests[r].strategy /\ row.requester = requests[r].requester
          /\ row.config = requests[r].config /\ row.pull = requests[r].pull
        BY <1>0 DEF Requests, Statuses
    <2>3. requests[r].strategy = "PROMOTION" /\ mode.gitOps
        BY <1>0, <2>1 DEF RequestOK, Strategy
    <2>4. RowOK(row)
        BY <2>2, <2>3 DEF RowOK
    <2>5. requests'[r] = row /\ DOMAIN requests' = DOMAIN requests
        BY <1>0, <2>1, <2>2, UpdateRow DEF Sound
    <2>6. RowStep(r) /\ StaysDeployed(r)
        BY <2>2, <2>3, <2>5 DEF RowStep, StaysDeployed
    <2>7. s \in HandlerStates /\ handler'[GitHost] = s
        BY <1>0, <2>1 DEF HandlerStates, RequestIds
    <2>8. HandlerOK(GitHost)'
        <3>1. r \in DOMAIN requests' /\ requests'[r].strategy = "PROMOTION" /\ mode'.gitOps
            BY <2>1, <2>2, <2>3, <2>5
        <3> QED
            BY <2>7, <3>1 DEF HandlerOK, Executing, Promoting, Strategy
    <2> QED
        BY <1>0, <2>1, <2>4, <2>6, <2>7, <2>8, RowMoves DEF Executing
<1> QED
    BY <1>1, <1>2

\* Faults, edits of the graph and of variables, and steps of others.
LEMMA FaultsSound ==
    ASSUME Sound,
           (\E h \in Handlers : CallFails(h)) \/ ServerStops \/ Edit \/ EditVariables
           \/ UNCHANGED vars
    PROVE  Sound'
<1>1. ASSUME NEW h \in Handlers, CallFails(h) PROVE Sound'
    BY <1>1, BlankOK, Finishing, HandlerMoves DEF CallFails, Executing
<1>2. CASE ServerStops
    <2>1. UNCHANGED <<mode, dbVars>> /\ handler' = [h \in Handlers |-> Blank]
        BY <1>2 DEF ServerStops
    <2>2. \A h \in Handlers : handler'[h] = Blank /\ HandlerOK(h)'
        BY <2>1, BlankOK
    <2>3. handler' \in [Handlers -> HandlerStates]
        BY <2>1, BlankOK
    <2>4. OneExecutor'
        BY <2>2 DEF OneExecutor, Blank, Executing
    <2>5. \A r \in DOMAIN requests : RowStep(r)
        BY <2>1 DEF dbVars, RowStep
    <2>6. ResultsOK'
        BY <2>1, <2>5, ResultsKept DEF dbVars
    <2>7. TypeOK' /\ \A r \in DOMAIN requests' : RequestOK(r)'
        BY <2>1, <2>3 DEF dbVars, Sound, TypeOK, RequestOK, Strategy, Status, ApprovedByOther
    <2> QED
        BY <2>2, <2>4, <2>6, <2>7 DEF Sound
<1>3. CASE Edit \/ EditVariables \/ UNCHANGED vars
    <2>1. /\ graph' \in Configs /\ variables' \in Values \cup {Unset}
          /\ UNCHANGED <<mode, requests, deployments, targets, handler>>
        BY <1>3 DEF Edit, EditVariables, vars, dbVars, Sound, TypeOK
    <2>2. \A r \in DOMAIN requests : RowStep(r)
        BY <2>1 DEF RowStep
    <2>3. ResultsOK'
        BY <2>1, <2>2, ResultsKept
    <2>4. TypeOK' /\ OneExecutor' /\ \A r \in DOMAIN requests' : RequestOK(r)'
        BY <2>1 DEF Sound, TypeOK, OneExecutor, RequestOK, Strategy, Status, ApprovedByOther
    <2>5. \A h \in Handlers : HandlerOK(h)'
        BY <2>1 DEF Sound, HandlerOK, Strategy, Status
    <2> QED
        BY <2>3, <2>4, <2>5 DEF Sound
<1> QED
    BY <1>1, <1>2, <1>3

LEMMA StepSound == Sound /\ [Next]_vars => Sound'
<1> SUFFICES ASSUME Sound, [Next]_vars PROVE Sound'
    OBVIOUS
<1>1. ASSUME NEW u \in Users, UserStep(u) PROVE Sound'
    <2>1. u \in Handlers
        BY DEF Handlers
    <2> QED
        BY <1>1, <2>1, SubmitSound, ReviewSound, ExecuteSound, PromotionSound DEF UserStep
<1>2. ASSUME NEW r \in DOMAIN requests, MergePull(r) \/ PullMerged(r) PROVE Sound'
    BY <1>2, MergeSound
<1>3. ASSUME NEW h \in Handlers, CheckName(h) \/ CommitPromotion(h) \/ CallFails(h) PROVE Sound'
    BY <1>3, PromotionSound, FaultsSound
<1> QED
    BY <1>1, <1>2, <1>3, SubmitSound, FaultsSound DEF Next

LEMMA SpecSound == Spec => []Sound
BY InitSound, StepSound, PTL DEF Spec

-----------------------------------------------------------------------------
\* Whatever was deployed for a request was approved by somebody else than who
\* asked for it, and is the YAML that was reviewed, with some value for each
\* variable it refers to (the values, the log level and the snapshot are of the
\* moment, and nobody reviewed them); whatever was promoted was approved by
\* somebody else, unless promotions are reviewed on the git host.
THEOREM TwoPersonRuleHolds == Spec => []TwoPersonRule
<1>1. Sound => TwoPersonRule
    BY DEF Sound, ResultsOK, DeploymentOK, TargetOK, TwoPersonRule
<1> QED
    BY <1>1, SpecSound, PTL

\* A version is deployed by exactly one executor, and for a request that is
\* claimed at that moment.
THEOREM DeployedWhileClaimedHolds == Spec => DeployedWhileClaimed
<1> DEFINE Claimed(r) == {h \in Handlers : ~Idle(h) /\ At(h, "deploy") /\ handler[h].request = r}
           Longer == Len(deployments') > Len(deployments)
           last == deployments'[Len(deployments')].request
<1>1. ASSUME Sound, NEW u \in Users, Deploy(u)
      PROVE  Status(last) = "DEPLOYED" /\ Cardinality(Claimed(last)) = 1
    <2>1. u \in Handlers /\ HandlerOK(u) /\ handler[u].at = "deploy"
        BY <1>1 DEF Deploy, At, Handlers, Sound
    <2>2. last = handler[u].request
        BY <1>1 DEF Deploy, Sound, TypeOK
    <2>3. Claimed(last) = {u}
        BY <1>1, <2>1, <2>2 DEF Sound, OneExecutor, Executing, At, Idle, Blank
    <2>4. Cardinality({u}) = 1
        BY FS_Singleton
    <2> QED
        BY <2>1, <2>2, <2>3, <2>4 DEF HandlerOK, Executing
<1>2. ASSUME Sound, [Next]_vars, Longer
      PROVE  \E u \in Users : Deploy(u)
    <2>1. UNCHANGED deployments => ~Longer
        BY DEF Sound, TypeOK
    <2> QED
        BY <1>2, <2>1 DEF Next, UserStep, vars, dbVars, Edit, EditVariables, ImportFromGit, SubmitDeploy, Initiate,
            BeginReview, BeginExecute, ClaimApproval, ClaimRejection, ClaimCancellation,
            DeployRefused, RecordDeployed, RecordFails, Revert, OpenPull, AwaitMerge, MergePull,
            PullMerged, CheckName, CommitPromotion, CallFails, ServerStops
<1>3. Sound /\ [Next]_vars =>
        (Longer => Status(last) = "DEPLOYED" /\ Cardinality(Claimed(last)) = 1)
    BY <1>1, <1>2
<1>4. Sound /\ [Next]_vars =>
        [ Len(deployments') > Len(deployments) =>
            LET r == deployments'[Len(deployments')].request
            IN  Status(r) = "DEPLOYED" /\ Cardinality({h \in Handlers :
                    ~Idle(h) /\ At(h, "deploy") /\ handler[h].request = r}) = 1 ]_vars
    BY <1>3
<1> QED
    BY <1>4, SpecSound, PTL DEF Spec, DeployedWhileClaimed

-----------------------------------------------------------------------------
(***************************************************************************)
(* That a claim is worked on until it is settled.  A step keeps it when it *)
(* claims nothing and no executor moves; the others are the executor's.    *)
(***************************************************************************)
Claimed(r) == requests[r].strategy = "DIRECT" /\ requests[r].status = "DEPLOYED"

NoNewClaim == \A r \in DOMAIN requests' : Claimed(r)' => r \in DOMAIN requests /\ Claimed(r)

ExecutorsStay == \A g \in Handlers : handler[g].at \in Executing => handler'[g] = handler[g]

LEMMA OthersSettled ==
    ASSUME Sound, ClaimsAreSettled, mode' = mode, deployments' = deployments,
           NoNewClaim, ExecutorsStay
    PROVE  ClaimsAreSettled'
<1> SUFFICES ASSUME mode.reliable, NEW r \in DOMAIN requests', Claimed(r)'
             PROVE  \/ \E h \in Handlers : handler'[h].request = r /\ handler'[h].at \in Executing
                    \/ \E d \in DOMAIN deployments : deployments[d].request = r
    BY DEF ClaimsAreSettled, Claimed, Strategy, Status, Executing
<1>1. \/ \E h \in Handlers : handler[h].request = r /\ handler[h].at \in Executing
      \/ \E d \in DOMAIN deployments : deployments[d].request = r
    BY DEF ClaimsAreSettled, NoNewClaim, Claimed, Strategy, Status, Executing
<1> QED
    BY <1>1 DEF ExecutorsStay

\* A handler that is not an executor moves.
LEMMA ExecutorsStaying ==
    ASSUME Sound, NEW h \in Handlers, handler[h].at \notin Executing, NEW s,
           handler' = handler \/ handler' = [handler EXCEPT ![h] = s]
    PROVE  ExecutorsStay
BY DEF Sound, TypeOK, ExecutorsStay

\* A row that is updated is not claimed by it; or a row is new and pending.
LEMMA NotClaiming ==
    ASSUME Sound,
           \/ requests' = requests
           \/ \E r \in DOMAIN requests, row \in Requests :
                 /\ requests' = [requests EXCEPT ![r] = row]
                 /\ row.strategy = requests[r].strategy
                 /\ row.status # "DEPLOYED" \/ row.status = requests[r].status \/ row.strategy # "DIRECT"
           \/ \E row \in Requests :
                 RoomForRequest /\ requests' = Append(requests, row) /\ row.status # "DEPLOYED"
    PROVE  NoNewClaim
<1>1. CASE requests' = requests
    BY <1>1 DEF NoNewClaim, Claimed
<1>2. ASSUME NEW r \in DOMAIN requests, NEW row \in Requests,
             requests' = [requests EXCEPT ![r] = row], row.strategy = requests[r].strategy,
             row.status # "DEPLOYED" \/ row.status = requests[r].status \/ row.strategy # "DIRECT"
      PROVE  NoNewClaim
    BY <1>2, UpdateRow DEF Sound, NoNewClaim, Claimed
<1>3. ASSUME NEW row \in Requests, RoomForRequest, requests' = Append(requests, row),
             row.status # "DEPLOYED"
      PROVE  NoNewClaim
    BY <1>3, InsertRow DEF Sound, NoNewClaim, Claimed
<1> QED
    BY <1>1, <1>2, <1>3

LEMMA ReviewSettles ==
    ASSUME Sound, ClaimsAreSettled, NEW u \in Users,
           \/ SubmitDeploy(u) \/ Initiate(u) \/ BeginReview(u)
           \/ ClaimApproval(u) \/ ClaimRejection(u) \/ ClaimCancellation(u)
           \/ OpenPull(u) \/ AwaitMerge(u)
    PROVE  ClaimsAreSettled'
<1> DEFINE r == handler[u].request
<1>0. u \in Handlers /\ mode' = mode /\ deployments' = deployments
    BY DEF Handlers, SubmitDeploy, Initiate, BeginReview, ClaimApproval, ClaimRejection,
           ClaimCancellation, OpenPull, AwaitMerge, dbVars
<1>1. handler[u].at \notin Executing
    BY BlankOK DEF SubmitDeploy, Initiate, BeginReview, ClaimApproval, ClaimRejection,
           ClaimCancellation, OpenPull, AwaitMerge, At, Idle, Executing
<1>2. handler' = handler \/ \E s : handler' = [handler EXCEPT ![u] = s]
    BY DEF SubmitDeploy, Initiate, BeginReview, ClaimApproval, ClaimRejection,
           ClaimCancellation, OpenPull, AwaitMerge, Goto, Finish
<1>3. ExecutorsStay
    BY <1>0, <1>1, <1>2, ExecutorsStaying
<1>4. NoNewClaim
    <2>1. CASE SubmitDeploy(u) \/ Initiate(u)
        <3>1. \E strategy \in {"DIRECT", "PROMOTION"} : NewRequest(strategy, u, graph)
            BY <2>1 DEF SubmitDeploy, Initiate
        <3>2. graph \in Configs /\ RoomForRequest
            BY <2>1 DEF SubmitDeploy, Initiate, Sound, TypeOK
        <3> QED
            BY <3>1, <3>2, NotClaiming DEF NewRequest, Requests, Statuses
    <2>2. CASE BeginReview(u)
        BY <2>2, NotClaiming DEF BeginReview, dbVars
    <2>3. ASSUME handler[u].at # "idle" PROVE r \in DOMAIN requests /\ requests[r] \in Requests
        BY <1>0, <2>3, HandledRow
    <2>4. CASE ClaimApproval(u) \/ ClaimRejection(u) \/ ClaimCancellation(u)
        <3>1. r \in DOMAIN requests /\ requests[r] \in Requests
            BY <2>3, <2>4 DEF ClaimApproval, ClaimRejection, ClaimCancellation, At
        <3>2. \/ requests' = requests
              \/ \E status \in {"APPROVED", "REJECTED", "CANCELLED"} :
                    \/ requests' = [requests EXCEPT ![r] = [requests[r] EXCEPT !.status = status]]
                    \/ requests' = [requests EXCEPT ![r] =
                                       [requests[r] EXCEPT !.status = status, !.reviewer = u]]
            BY <2>4 DEF ClaimApproval, ClaimRejection, ClaimCancellation, SetReview, SetStatus
        <3>3. ASSUME NEW status \in {"APPROVED", "REJECTED", "CANCELLED"}
              PROVE  /\ [requests[r] EXCEPT !.status = status] \in Requests
                     /\ [requests[r] EXCEPT !.status = status, !.reviewer = u] \in Requests
                     /\ [requests[r] EXCEPT !.status = status].strategy = requests[r].strategy
                     /\ [requests[r] EXCEPT !.status = status, !.reviewer = u].strategy
                          = requests[r].strategy
                     /\ [requests[r] EXCEPT !.status = status].status # "DEPLOYED"
                     /\ [requests[r] EXCEPT !.status = status, !.reviewer = u].status # "DEPLOYED"
            BY <3>1 DEF Requests, Statuses
        <3> QED
            BY <3>1, <3>2, <3>3, NotClaiming
    <2>5. CASE OpenPull(u) \/ AwaitMerge(u)
        <3>1. r \in DOMAIN requests /\ requests[r] \in Requests
            BY <2>3, <2>5 DEF OpenPull, AwaitMerge, At
        <3>2. \/ requests' = [requests EXCEPT ![r] = [requests[r] EXCEPT !.pull = "open"]]
              \/ requests' = [requests EXCEPT ![r] = [requests[r] EXCEPT !.status = "AWAITING_PR_MERGE"]]
            BY <2>5 DEF OpenPull, AwaitMerge, SetStatus
        <3>3. /\ [requests[r] EXCEPT !.pull = "open"] \in Requests
              /\ [requests[r] EXCEPT !.status = "AWAITING_PR_MERGE"] \in Requests
              /\ [requests[r] EXCEPT !.pull = "open"].strategy = requests[r].strategy
              /\ [requests[r] EXCEPT !.status = "AWAITING_PR_MERGE"].strategy = requests[r].strategy
              /\ [requests[r] EXCEPT !.pull = "open"].status = requests[r].status
              /\ [requests[r] EXCEPT !.status = "AWAITING_PR_MERGE"].status # "DEPLOYED"
            BY <3>1 DEF Requests, Statuses
        <3> QED
            BY <3>1, <3>2, <3>3, NotClaiming
    <2> QED
        BY <2>1, <2>2, <2>4, <2>5
<1> QED
    BY <1>0, <1>3, <1>4, OthersSettled

\* An executor's own steps: it goes on with the request, has deployed it, or
\* gives the claim back.
LEMMA ExecutionSettles ==
    ASSUME Sound, ClaimsAreSettled, NEW u \in Users,
           \/ BeginExecute(u) \/ Deploy(u) \/ DeployRefused(u)
           \/ RecordDeployed(u) \/ RecordFails(u) \/ Revert(u)
    PROVE  ClaimsAreSettled'
<1> DEFINE Working(h, r) == handler[h].request = r /\ handler[h].at \in Executing
           Done(r) == \E d \in DOMAIN deployments : deployments[d].request = r
<1>0. u \in Handlers /\ handler \in [Handlers -> HandlerStates] /\ mode' = mode
    BY DEF Handlers, Sound, TypeOK, BeginExecute, Deploy, DeployRefused, RecordDeployed,
           RecordFails, Revert, dbVars
<1> SUFFICES ASSUME mode.reliable, NEW r \in DOMAIN requests', Claimed(r)'
             PROVE  (\E h \in Handlers : Working(h, r)') \/ Done(r)'
    BY <1>0 DEF ClaimsAreSettled, Claimed, Strategy, Status, Executing
<1>1. \A q \in DOMAIN requests : Claimed(q) => Done(q) \/ \E h \in Handlers : Working(h, q)
    BY DEF ClaimsAreSettled, Claimed, Strategy, Status, Executing
<1>2. CASE BeginExecute(u)
    <2>1. PICK q \in DOMAIN requests : /\ requests' = [requests EXCEPT ![q].status = "DEPLOYED"]
                                       /\ Goto(u, "deploy", q)
        BY <1>2 DEF BeginExecute, ClaimExecution, SetStatus
    <2>2. handler[u].at = "idle" /\ deployments' = deployments
        BY <1>2, BlankOK DEF BeginExecute, Idle
    <2>3. CASE r = q
        <3>1. Working(u, r)'
            BY <1>0, <2>1, <2>3 DEF Goto, Executing
        <3> QED
            BY <1>0, <3>1
    <2>4. CASE r # q
        <3>1. r \in DOMAIN requests /\ Claimed(r)
            BY <2>1, <2>4 DEF Claimed, Sound, TypeOK
        <3>2. \A h \in Handlers : Working(h, r) => Working(h, r)'
            BY <1>0, <2>1, <2>2 DEF Goto, Executing
        <3> QED
            BY <1>1, <2>2, <3>1, <3>2
    <2> QED
        BY <2>3, <2>4
<1>3. CASE Deploy(u) \/ DeployRefused(u) \/ RecordFails(u)
    <2>1. /\ requests' = requests
          /\ handler[u].at \in Executing
          /\ Goto(u, "record", handler[u].request) \/ Goto(u, "revert", handler[u].request)
        BY <1>3 DEF Deploy, DeployRefused, RecordFails, At, Executing, dbVars
    <2>2. \A h \in Handlers : Working(h, r) => Working(h, r)'
        BY <1>0, <2>1 DEF Goto, Executing
    <2>3. Done(r) => Done(r)'
        <3>1. CASE Deploy(u)
            <4>1. \E version : deployments' = Append(deployments, version)
                BY <3>1 DEF Deploy
            <4>2. \A d \in DOMAIN deployments : d \in DOMAIN deployments' /\ deployments'[d] = deployments[d]
                BY <4>1 DEF Sound, TypeOK
            <4> QED
                BY <4>2
        <3>2. CASE DeployRefused(u) \/ RecordFails(u)
            BY <3>2 DEF DeployRefused, RecordFails, dbVars
        <3> QED
            BY <1>3, <3>1, <3>2
    <2> QED
        BY <1>1, <2>1, <2>2, <2>3 DEF Claimed
<1>4. CASE RecordDeployed(u)
    <2>1. requests' = requests /\ deployments' = deployments /\ Finish(u) /\ handler[u].at = "record"
        BY <1>4 DEF RecordDeployed, At, dbVars
    <2>2. Done(handler[u].request)
        BY <1>0, <2>1 DEF Sound, HandlerOK
    <2>3. \A h \in Handlers : Working(h, r) => Done(r) \/ Working(h, r)'
        BY <1>0, <2>1, <2>2 DEF Finish
    <2> QED
        BY <1>1, <2>1, <2>3 DEF Claimed
<1>5. CASE Revert(u)
    <2> DEFINE q == handler[u].request
    <2>1. deployments' = deployments /\ Finish(u) /\ handler[u].at = "revert"
        BY <1>5 DEF Revert, At
    <2>2. q \in DOMAIN requests /\ Status(q) = "DEPLOYED"
        BY <1>0, <2>1 DEF Sound, HandlerOK, Executing
    <2>3. requests' = [requests EXCEPT ![q].status = "APPROVED"]
        BY <1>5, <2>2 DEF Revert, SetStatus, RevertedStatus
    <2>4. requests[q] \in Requests
        BY <2>2, RowType DEF Sound
    <2>5. r # q /\ r \in DOMAIN requests /\ Claimed(r)
        BY <2>2, <2>3, <2>4 DEF Claimed, Sound, TypeOK, Requests
    <2>6. \A h \in Handlers : Working(h, r) => Working(h, r)'
        BY <1>0, <2>1, <2>5 DEF Finish
    <2> QED
        BY <1>1, <2>1, <2>5, <2>6
<1> QED
    BY <1>2, <1>3, <1>4, <1>5

\* Everybody else: the git host, promotions, edits and faults.
LEMMA OtherStepsSettle ==
    ASSUME Sound, ClaimsAreSettled,
           \/ Edit \/ EditVariables \/ ImportFromGit \/ ServerStops \/ UNCHANGED vars
           \/ \E r \in DOMAIN requests : MergePull(r) \/ PullMerged(r)
           \/ \E h \in Handlers : CheckName(h) \/ CommitPromotion(h) \/ CallFails(h)
    PROVE  ClaimsAreSettled'
<1>0. GitHost \in Handlers
    BY DEF Handlers
<1>1. CASE Edit \/ EditVariables \/ UNCHANGED vars
    <2>1. NoNewClaim /\ ExecutorsStay /\ UNCHANGED <<mode, deployments>>
        BY <1>1, NotClaiming DEF Edit, EditVariables, vars, dbVars, ExecutorsStay
    <2> QED
        BY <2>1, OthersSettled
<1>2. CASE ImportFromGit
    <2>1. PICK config \in Configs : NewRequest("DIRECT", Nobody, config)
        BY <1>2 DEF ImportFromGit
    <2>2. NoNewClaim
        BY <1>2, <2>1, NotClaiming DEF ImportFromGit, NewRequest, Requests, Statuses
    <2>3. ExecutorsStay /\ UNCHANGED <<mode, deployments>>
        BY <1>2 DEF ImportFromGit, ExecutorsStay
    <2> QED
        BY <2>2, <2>3, OthersSettled
<1>3. CASE ServerStops
    BY <1>3 DEF ServerStops, ClaimsAreSettled
<1>4. ASSUME NEW r \in DOMAIN requests, MergePull(r) PROVE ClaimsAreSettled'
    <2> DEFINE row == [requests[r] EXCEPT !.pull = "merged"]
    <2>1. /\ requests' = [requests EXCEPT ![r] = row]
          /\ ExecutorsStay /\ UNCHANGED <<mode, deployments>>
        BY <1>4 DEF MergePull, ExecutorsStay
    <2>2. row \in Requests /\ row.strategy = requests[r].strategy /\ row.status = requests[r].status
        BY RowType DEF Sound, Requests
    <2>3. NoNewClaim
        BY <2>1, <2>2, NotClaiming
    <2> QED
        BY <2>1, <2>3, OthersSettled
<1>5. ASSUME NEW r \in DOMAIN requests, PullMerged(r) PROVE ClaimsAreSettled'
    <2> DEFINE row == [requests[r] EXCEPT !.status = "DEPLOYING"]
    <2>1. /\ requests' = [requests EXCEPT ![r] = row] /\ UNCHANGED <<mode, deployments>>
          /\ handler[GitHost].at \notin Executing
          /\ \E s : handler' = [handler EXCEPT ![GitHost] = s]
        BY <1>5, BlankOK DEF PullMerged, SetStatus, Goto, Idle, Executing
    <2>2. row \in Requests /\ row.strategy = requests[r].strategy /\ row.status # "DEPLOYED"
        BY RowType DEF Sound, Requests, Statuses
    <2>3. NoNewClaim /\ ExecutorsStay
        BY <1>0, <2>1, <2>2, NotClaiming, ExecutorsStaying
    <2> QED
        BY <2>1, <2>3, OthersSettled
<1>6. ASSUME NEW h \in Handlers, CheckName(h) PROVE ClaimsAreSettled'
    <2>1. /\ UNCHANGED <<mode, deployments, requests>> /\ handler[h].at \notin Executing
          /\ \E s : handler' = [handler EXCEPT ![h] = s]
        BY <1>6 DEF CheckName, At, Executing, dbVars, Goto, Finish
    <2>2. NoNewClaim /\ ExecutorsStay
        BY <2>1, NotClaiming, ExecutorsStaying
    <2> QED
        BY <2>1, <2>2, OthersSettled
<1>7. ASSUME NEW h \in Handlers, CommitPromotion(h) PROVE ClaimsAreSettled'
    <2> DEFINE r == handler[h].request
               row == [requests[r] EXCEPT !.status = "DEPLOYED", !.reviewer = Executor(h)]
    <2>1. /\ requests' = [requests EXCEPT ![r] = row] /\ UNCHANGED <<mode, deployments>>
          /\ handler[h].at = "commit" /\ Finish(h)
        BY <1>7 DEF CommitPromotion, SetReview, At
    <2>2. r \in DOMAIN requests /\ requests[r] \in Requests /\ Strategy(r) = "PROMOTION"
        BY <2>1, HandledRow DEF Sound, HandlerOK, Promoting
    <2>3. row \in Requests /\ row.strategy = requests[r].strategy /\ row.strategy # "DIRECT"
        BY <2>2 DEF Requests, Statuses, Strategy, Executor, Handlers
    <2>4. NoNewClaim
        BY <2>1, <2>2, <2>3, NotClaiming
    <2>5. ExecutorsStay
        BY <2>1, ExecutorsStaying DEF Finish, Executing
    <2> QED
        BY <2>1, <2>4, <2>5, OthersSettled
<1>8. ASSUME NEW h \in Handlers, CallFails(h) PROVE ClaimsAreSettled'
    <2>1. /\ UNCHANGED <<mode, deployments, requests>> /\ Finish(h)
          /\ mode.reliable => handler[h].at \notin Executing
        BY <1>8 DEF CallFails, At, Executing, dbVars
    <2>2. CASE mode.reliable
        <3>1. NoNewClaim /\ ExecutorsStay
            BY <2>1, <2>2, NotClaiming, ExecutorsStaying DEF Finish
        <3> QED
            BY <2>1, <3>1, OthersSettled
    <2>3. CASE ~mode.reliable
        BY <2>1, <2>3 DEF ClaimsAreSettled
    <2> QED
        BY <2>2, <2>3
<1> QED
    BY <1>1, <1>2, <1>3, <1>4, <1>5, <1>6, <1>7, <1>8

\* If the server does not stop and claims can be given back, a request that is
\* marked as deployed was deployed, or somebody works on it.
THEOREM ClaimsAreSettledHolds == Spec => []ClaimsAreSettled
<1>1. Init => ClaimsAreSettled
    BY DEF Init, ClaimsAreSettled
<1>2. Sound /\ ClaimsAreSettled /\ [Next]_vars => ClaimsAreSettled'
    BY ReviewSettles, ExecutionSettles, OtherStepsSettle DEF Next, UserStep
<1> QED
    BY <1>1, <1>2, SpecSound, PTL DEF Spec

===================================================================================
