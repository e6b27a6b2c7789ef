-------------------------------- MODULE Taps ---------------------------------
(***************************************************************************)
(* Live taps of the events of a component: the authorisation rows of the   *)
(* server (src/server/services/active-taps.ts, the handlers of             *)
(* src/server/routers/pipeline-observability.ts), the pushes that carry    *)
(* tap_start and tap_stop, and the agent's `vector tap` processes          *)
(* (agent/internal/tapper/tapper.go).                                      *)
(*                                                                         *)
(* A tap ends in four ways: a user stops it, its row expires and a sweep   *)
(* stops it, its process exits, or the agent's own timeout ends it.  The   *)
(* timeout is as long as the life of the row and starts after it.          *)
(***************************************************************************)
EXTENDS PushChannel

CONSTANT
    Taps   \* request ids, each used once

ASSUME TapsAssumption == IsFiniteSet(Taps)

VARIABLES
    row,        \* the ActiveTap row of each request
    stale,      \* what the sweep of each process found and has yet to delete
    active,     \* Manager.active of the agent
    run,        \* the goroutine of each tap
    stopping,   \* the tap the agent's main loop waits for
    pushers,    \* the processes that pushed something about each tap
    overtaken   \* taps whose stop was handled while their start was on its way

tapVars == <<row, stale, active, run, stopping, pushers, overtaken>>
vars == <<channelVars, tapVars>>

None == "none"

Message == [type: {"tap_start", "tap_stop"}, tap: Taps]

TypeOK ==
    /\ ChannelTypeOK(Message)
    /\ row \in [Taps -> {None, "live", "expired", "gone"}]
    /\ stale \in [Instances -> SUBSET Taps]
    /\ active \subseteq Taps
    /\ run \in [Taps -> {None, "running", "cancelled", "closed"}]
    /\ stopping \in Taps \cup {None}
    /\ pushers \in [Taps -> SUBSET Instances]
    /\ overtaken \subseteq Taps

Init ==
    /\ ChannelInit
    /\ row = [t \in Taps |-> None]
    /\ stale = [i \in Instances |-> {}]
    /\ active = {}
    /\ run = [t \in Taps |-> None]
    /\ stopping = None
    /\ pushers = [t \in Taps |-> {}]
    /\ overtaken = {}

-----------------------------------------------------------------------------
Start(t) == [type |-> "tap_start", tap |-> t]
Stop(t) == [type |-> "tap_stop", tap |-> t]

PushedBy(i, ts) ==
    pushers' = [t \in Taps |-> IF t \in ts THEN pushers[t] \cup {i} ELSE pushers[t]]

(***************************************************************************)
(* The server.                                                             *)
(***************************************************************************)
StartTap(i, t) ==
    /\ row[t] = None
    /\ row' = [row EXCEPT ![t] = "live"]
    /\ PushedBy(i, {t})
    /\ Relay(i, <<Start(t)>>) \/ NotRelayed
    /\ UNCHANGED <<stale, active, run, stopping, overtaken>>

Expire(t) ==
    /\ row[t] = "live"
    /\ row' = [row EXCEPT ![t] = "expired"]
    /\ UNCHANGED <<channelVars, stale, active, run, stopping, pushers, overtaken>>

\* stopTapHandler: of two requests, the one that deletes the row pushes.
StopTap(i, t) ==
    /\ row[t] \in {"live", "expired"}
    /\ row' = [row EXCEPT ![t] = "gone"]
    /\ PushedBy(i, {t})
    /\ Relay(i, <<Stop(t)>>) \/ NotRelayed
    /\ UNCHANGED <<stale, active, run, stopping, overtaken>>

\* expireStaleTaps finds the rows, then deletes what it found.
FindStale(i) ==
    /\ stale[i] = {}
    /\ stale' = [stale EXCEPT ![i] = {t \in Taps : row[t] = "expired"}]
    /\ stale'[i] # {}
    /\ UNCHANGED <<channelVars, row, active, run, stopping, pushers, overtaken>>

\* Mutant of StopsOf: the sweep deletes the rows and tells nobody.
StopsOfNone(ts) == {<<>>}

\* The stops of a set of taps, in any order.
StopsOf(ts) ==
    {m \in [1 .. Cardinality(ts) -> {Stop(t) : t \in ts}] :
        \A t \in ts : \E k \in DOMAIN m : m[k] = Stop(t)}

\* cleanupStaleTaps: every tap found is stopped, deleted meanwhile or not.
DeleteStale(i) ==
    /\ stale[i] # {}
    /\ row' = [t \in Taps |-> IF t \in stale[i] THEN "gone" ELSE row[t]]
    /\ stale' = [stale EXCEPT ![i] = {}]
    /\ PushedBy(i, stale[i])
    /\ (\E stops \in StopsOf(stale[i]) : Relay(i, stops)) \/ NotRelayed
    /\ UNCHANGED <<active, run, stopping, overtaken>>

-----------------------------------------------------------------------------
(***************************************************************************)
(* The agent: its main loop handles one message at a time, and waits in    *)
(* Manager.Stop for the goroutine of the tap.                              *)
(***************************************************************************)
Within(sequence, message) == \E k \in DOMAIN sequence : sequence[k] = message

\* The message is still to come: of the processes that have yet to hear of it
\* only the one that serves the agent's stream will pass it on.
OnItsWay(message) ==
    \/ Within(pushCh, message) \/ Within(wire, message)
    \/ stream # NoStream /\ Within(bus[stream.at], message)

Handle(message) ==
    /\ stopping = None
    /\ pushCh # <<>> /\ Head(pushCh) = message
    /\ pushCh' = Tail(pushCh)
    /\ UNCHANGED <<connections, stream, left, opened, wire, bus, lost>>

\* A start is refused, and only logged, when the pipeline does not run or
\* too many taps do; either may be the case at any time.
HandleStart(t) ==
    /\ Handle(Start(t))
    /\ \/ /\ t \notin active
          /\ active' = active \cup {t}
          /\ run' = [run EXCEPT ![t] = "running"]
       \/ UNCHANGED <<active, run>>
    /\ UNCHANGED <<row, stale, stopping, pushers, overtaken>>

HandleStop(t) ==
    /\ Handle(Stop(t))
    /\ IF t \in active
       THEN /\ stopping' = t
            /\ run' = [run EXCEPT ![t] = IF @ = "running" THEN "cancelled" ELSE @]
            /\ UNCHANGED overtaken
       ELSE /\ UNCHANGED <<stopping, run>>
            /\ overtaken' = IF OnItsWay(Start(t)) THEN overtaken \cup {t} ELSE overtaken
    /\ UNCHANGED <<row, stale, active, pushers>>

Stopped(t) ==
    /\ stopping = t /\ run[t] \in {"closed", None}
    /\ stopping' = None
    /\ active' = active \ {t}
    /\ UNCHANGED <<channelVars, row, stale, run, pushers, overtaken>>

\* The process exits or could not be started, or was cancelled; the server
\* has been told, if it would listen.
Ends(t) ==
    /\ run[t] \in {"running", "cancelled"}
    /\ run' = [run EXCEPT ![t] = "closed"]
    /\ UNCHANGED <<channelVars, row, stale, active, stopping, pushers, overtaken>>

\* Mutant of TimesOut: the context has no deadline.
TimesOutNever(t) == FALSE /\ UNCHANGED vars

TimesOut(t) ==
    /\ run[t] = "running" /\ row[t] # "live"
    /\ run' = [run EXCEPT ![t] = "cancelled"]
    /\ UNCHANGED <<channelVars, row, stale, active, stopping, pushers, overtaken>>

Unlist(t) ==
    /\ run[t] = "closed"
    /\ run' = [run EXCEPT ![t] = None]
    /\ active' = active \ {t}
    /\ UNCHANGED <<channelVars, row, stale, stopping, pushers, overtaken>>

-----------------------------------------------------------------------------
Server(i) ==
    \/ \E t \in Taps : StartTap(i, t) \/ StopTap(i, t)
    \/ FindStale(i) \/ DeleteStale(i)

MainLoop == \E t \in Taps : HandleStart(t) \/ HandleStop(t) \/ Stopped(t)

Next ==
    \/ ChannelNext /\ UNCHANGED tapVars
    \/ \E i \in Instances : Server(i)
    \/ MainLoop
    \/ \E t \in Taps : Expire(t) \/ TimesOut(t) \/ Ends(t) \/ Unlist(t)

Spec == Init /\ [][Next]_vars

(***************************************************************************)
(* Time passes, sweeps go on, the main loop runs, and a process that was   *)
(* cancelled ends; one that was not may run for ever.                      *)
(***************************************************************************)
Fairness ==
    /\ WF_vars(MainLoop)
    /\ \A i \in Instances : WF_vars(FindStale(i)) /\ WF_vars(DeleteStale(i))
    /\ \A t \in Taps :
          /\ WF_vars(Expire(t)) /\ WF_vars(TimesOut(t)) /\ WF_vars(Unlist(t))
          /\ WF_vars(run[t] = "cancelled" /\ Ends(t))

FairSpec == Spec /\ Fairness

-----------------------------------------------------------------------------
\* Types; and the processes the agent runs are in its table, where a stop
\* finds them.  A tap that runs on without a row was told to stop and is about
\* to hear of it, unless a push was lost or the stop came before the start.
StopsAreHeard ==
    /\ TypeOK
    /\ \A t \in Taps : run[t] \in {"running", "cancelled"} => t \in active
    /\ \A t \in Taps :
          run[t] = "running" /\ row[t] = "gone"
            => lost \/ t \in overtaken \/ OnItsWay(Stop(t))

\* A stop overtakes its start only when two server processes pushed them or
\* the agent changed its stream in between.
OneRouteKeepsOrder ==
    \A t \in overtaken : Cardinality(pushers[t]) > 1 \/ opened > 1

\* Whatever is lost or overtaken, every tap ends, with its row and its place
\* in the agent's table, and the agent's main loop is not held up for ever.
TapsEnd ==
    /\ \A t \in Taps : <>[](row[t] \in {None, "gone"} /\ t \notin active)
    /\ []<>(stopping = None)

=============================================================================
