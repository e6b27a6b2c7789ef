--------------------------- MODULE LeaderElection ---------------------------
(***************************************************************************)
(* Leader election between server instances through one Redis key, and the *)
(* singleton services an instance starts when it first leads               *)
(* (src/server/services/leader-election.ts, src/instrumentation.node.ts).  *)
(*                                                                         *)
(* Time passes in intervals of renewIntervalMs; TTL is the life of the key *)
(* in intervals.  A timer callback sends a command and goes on when the    *)
(* reply arrives; meanwhile other callbacks of the instance may run.       *)
(* Commands of one connection are executed and answered in order.          *)
(*                                                                         *)
(* What may go wrong is chosen at the start, from FaultCases: "cut" (a     *)
(* command or its reply is lost and reported as an error), "stall" (timers *)
(* and replies are late), "crash", "stop" (the stop method is called) and  *)
(* "forget" (Redis loses the key).                                         *)
(***************************************************************************)
EXTENDS Naturals, Sequences, FiniteSets

CONSTANTS
    Instances,
    TTL,           \* ttlSeconds / renewIntervalMs
    MaxFailures,   \* MAX_CONSECUTIVE_FAILURES
    FaultCases,    \* the combinations of faults to look at
    MaxCalls,      \* bound on the unanswered commands of an instance
    MaxCrashes     \* bound on the crashes

ASSUME LeaderElectionAssumption ==
    /\ IsFiniteSet(Instances)
    /\ "nobody" \notin Instances /\ "departed" \notin Instances
    /\ TTL \in Nat \ {0} /\ MaxFailures \in Nat \ {0}
    /\ FaultCases \subseteq SUBSET {"cut", "stall", "crash", "stop", "forget"}
    /\ MaxCalls \in Nat \ {0} /\ MaxCrashes \in Nat

VARIABLES
    \* Redis
    owner,      \* the value of the key; "departed": the id of a process that is gone
    ttl,        \* intervals until the key expires, 0 when there is none
    \* per instance
    mode,       \* down, starting, running, stopping or stopped
    leader,     \* _isLeader
    failures,   \* consecutiveFailures
    calls,      \* unanswered commands, oldest first
    services,   \* startSingletonServices was called
    \* time and faults
    ticked,     \* instances whose timer has fired in this interval
    faults,     \* what may go wrong in this behaviour
    crashes

redisVars    == <<owner, ttl>>
instanceVars == <<mode, leader, failures, calls, services>>
vars         == <<redisVars, instanceVars, ticked, faults, crashes>>

Nobody == "nobody"
Departed == "departed"   \* a restarted process has a new random instanceId

Calls == [command: {"set", "renew", "release"}, reply: {"awaited", "yes", "no"}]

TypeOK ==
    /\ owner \in Instances \cup {Nobody, Departed}
    /\ ttl \in 0 .. TTL
    /\ owner = Nobody <=> ttl = 0
    /\ mode \in [Instances -> {"down", "starting", "running", "stopping", "stopped"}]
    /\ leader \in [Instances -> BOOLEAN]
    /\ failures \in [Instances -> 0 .. MaxFailures - 1]
    /\ calls \in [Instances -> Seq(Calls)]
    /\ services \in [Instances -> BOOLEAN]
    /\ ticked \in SUBSET Instances
    /\ faults \in FaultCases
    /\ crashes \in 0 .. MaxCrashes

Init ==
    /\ owner = Nobody
    /\ ttl = 0
    /\ mode = [i \in Instances |-> "down"]
    /\ leader = [i \in Instances |-> FALSE]
    /\ failures = [i \in Instances |-> 0]
    /\ calls = [i \in Instances |-> <<>>]
    /\ services = [i \in Instances |-> FALSE]
    /\ ticked = {}
    /\ faults \in FaultCases
    /\ crashes = 0

-----------------------------------------------------------------------------
Command(command) == [command |-> command, reply |-> "awaited"]

Send(i, command) == calls' = [calls EXCEPT ![i] = Append(@, Command(command))]

\* start(): the first attempt to acquire the key comes before the timer.
Start(i) ==
    /\ mode[i] = "down"
    /\ mode' = [mode EXCEPT ![i] = "starting"]
    /\ Send(i, "set")
    /\ ticked' = ticked \cup {i}
    /\ UNCHANGED <<redisVars, leader, failures, services, crashes, faults>>

\* The timer: a leader renews, any other instance tries to acquire.
Tick(i) ==
    /\ mode[i] = "running" /\ i \notin ticked
    /\ Len(calls[i]) < MaxCalls
    /\ Send(i, IF leader[i] THEN "renew" ELSE "set")
    /\ ticked' = ticked \cup {i}
    /\ UNCHANGED <<redisVars, mode, leader, failures, services, crashes, faults>>

\* stop(): a leader releases the key; anyone else has nothing to wait for.
Stop(i) ==
    /\ "stop" \in faults
    /\ mode[i] = "running"
    /\ IF leader[i]
       THEN Send(i, "release") /\ mode' = [mode EXCEPT ![i] = "stopping"]
       ELSE UNCHANGED calls /\ mode' = [mode EXCEPT ![i] = "stopped"]
    /\ UNCHANGED <<redisVars, leader, failures, services, ticked, crashes, faults>>

-----------------------------------------------------------------------------
\* The oldest command of i that Redis has not executed.
Awaited(i) == {k \in DOMAIN calls[i] : calls[i][k].reply = "awaited"}

Answer(i, k, reply) == calls' = [calls EXCEPT ![i][k].reply = reply]

\* SET key id EX ttl NX
SetIfAbsent(i, k) ==
    IF owner = Nobody
    THEN owner' = i /\ ttl' = TTL /\ Answer(i, k, "yes")
    ELSE UNCHANGED redisVars /\ Answer(i, k, "no")

\* Mutant of Renew: EXPIRE whoever owns the key.
RenewAny(i, k) ==
    IF owner # Nobody
    THEN ttl' = TTL /\ UNCHANGED owner /\ Answer(i, k, "yes")
    ELSE UNCHANGED redisVars /\ Answer(i, k, "no")

\* RENEW_SCRIPT
Renew(i, k) ==
    IF owner = i
    THEN ttl' = TTL /\ UNCHANGED owner /\ Answer(i, k, "yes")
    ELSE UNCHANGED redisVars /\ Answer(i, k, "no")

\* Mutant of Release: DEL whoever owns the key.
ReleaseAny(i, k) ==
    /\ owner' = Nobody /\ ttl' = 0
    /\ Answer(i, k, "yes")

\* RELEASE_SCRIPT
Release(i, k) ==
    IF owner = i
    THEN owner' = Nobody /\ ttl' = 0 /\ Answer(i, k, "yes")
    ELSE UNCHANGED redisVars /\ Answer(i, k, "no")

Execute(i) ==
    /\ \E k \in Awaited(i) :
          /\ \A j \in Awaited(i) : k <= j
          /\ CASE calls[i][k].command = "set"     -> SetIfAbsent(i, k)
               [] calls[i][k].command = "renew"   -> Renew(i, k)
               [] calls[i][k].command = "release" -> Release(i, k)
    /\ UNCHANGED <<mode, leader, failures, services, ticked, crashes, faults>>

\* The command does not reach Redis, or its reply does not come back: the
\* exception is caught and counts as a refusal.
CallFails(i) ==
    /\ "cut" \in faults
    /\ calls[i] # <<>> /\ calls[i][1].reply # "no"
    /\ Answer(i, 1, "no")
    /\ UNCHANGED <<redisVars, mode, leader, failures, services, ticked, crashes, faults>>

-----------------------------------------------------------------------------
Replied(i, command, replies) ==
    calls[i] # <<>> /\ calls[i][1].command = command /\ calls[i][1].reply \in replies

Pop(i) == calls' = [calls EXCEPT ![i] = Tail(@)]

Acquired(i) ==
    /\ Replied(i, "set", {"yes"})
    /\ leader' = [leader EXCEPT ![i] = TRUE]
    /\ failures' = [failures EXCEPT ![i] = 0]
    /\ mode' = [mode EXCEPT ![i] = IF @ = "starting" THEN "running" ELSE @]

\* Mutant of NotAcquired: start() returns before it sets the timer.
NotAcquiredAtBoot(i) ==
    /\ Replied(i, "set", {"no"})
    /\ mode' = [mode EXCEPT ![i] = IF @ = "starting" THEN "stopped" ELSE @]
    /\ UNCHANGED <<leader, failures>>

NotAcquired(i) ==
    /\ Replied(i, "set", {"no"})
    /\ mode' = [mode EXCEPT ![i] = IF @ = "starting" THEN "running" ELSE @]
    /\ UNCHANGED <<leader, failures>>

Renewed(i) ==
    /\ Replied(i, "renew", {"yes"})
    /\ failures' = [failures EXCEPT ![i] = 0]
    /\ UNCHANGED <<mode, leader>>

\* Mutant of StepsDown: > instead of >=.
StepsDownLate(i) == failures[i] + 1 > MaxFailures

\* The failures of i, with one more, are too many.
StepsDown(i) == failures[i] + 1 >= MaxFailures

NotRenewed(i) ==
    /\ Replied(i, "renew", {"no"})
    /\ IF StepsDown(i)
       THEN /\ leader' = [leader EXCEPT ![i] = FALSE]
            /\ failures' = [failures EXCEPT ![i] = 0]
       ELSE /\ failures' = [failures EXCEPT ![i] = @ + 1]
            /\ UNCHANGED leader
    /\ UNCHANGED mode

Released(i) ==
    /\ Replied(i, "release", {"yes", "no"})
    /\ leader' = [leader EXCEPT ![i] = FALSE]
    /\ mode' = [mode EXCEPT ![i] = "stopped"]
    /\ UNCHANGED failures

Receive(i) ==
    /\ Acquired(i) \/ NotAcquired(i) \/ Renewed(i) \/ NotRenewed(i) \/ Released(i)
    /\ Pop(i)
    /\ UNCHANGED <<redisVars, services, ticked, crashes, faults>>

\* At boot or from the failover timer.  Nothing stops the services later.
StartServices(i) ==
    /\ mode[i] \in {"running", "stopping", "stopped"}
    /\ leader[i] /\ ~services[i]
    /\ services' = [services EXCEPT ![i] = TRUE]
    /\ UNCHANGED <<redisVars, mode, leader, failures, calls, ticked, crashes, faults>>

Crash(i) ==
    /\ "crash" \in faults /\ crashes < MaxCrashes
    /\ mode[i] # "down"
    /\ mode' = [mode EXCEPT ![i] = "down"]
    /\ leader' = [leader EXCEPT ![i] = FALSE]
    /\ failures' = [failures EXCEPT ![i] = 0]
    /\ calls' = [calls EXCEPT ![i] = <<>>]
    /\ services' = [services EXCEPT ![i] = FALSE]
    /\ owner' = IF owner = i THEN Departed ELSE owner
    /\ ticked' = ticked \ {i}
    /\ crashes' = crashes + 1
    /\ UNCHANGED <<ttl, faults>>

RedisForgets ==
    /\ "forget" \in faults /\ owner # Nobody
    /\ owner' = Nobody /\ ttl' = 0
    /\ UNCHANGED <<instanceVars, ticked, crashes, faults>>

\* In this interval every renewal and failover timer has fired, and every
\* reply has been handled.
IntervalOver ==
    \A i \in Instances :
        /\ mode[i] = "running" => i \in ticked /\ (leader[i] => services[i])
        /\ calls[i] = <<>>

NextInterval ==
    /\ IntervalOver \/ "stall" \in faults
    /\ ttl > 0 \/ ticked # {}
    /\ ticked' = {}
    /\ ttl' = IF ttl = 0 THEN 0 ELSE ttl - 1
    /\ owner' = IF ttl' = 0 THEN Nobody ELSE owner
    /\ UNCHANGED <<instanceVars, crashes, faults>>

Next ==
    \/ \E i \in Instances :
          \/ Start(i) \/ Tick(i) \/ Stop(i)
          \/ Execute(i) \/ CallFails(i) \/ Receive(i)
          \/ StartServices(i) \/ Crash(i)
    \/ RedisForgets
    \/ NextInterval

Spec == Init /\ [][Next]_vars

(***************************************************************************)
(* Timers fire, replies are handled, a process that ended is started again *)
(* by its supervisor, and the connection to Redis does not fail every time *)
(* it is used.                                                             *)
(***************************************************************************)
Fairness ==
    /\ WF_vars(NextInterval)
    /\ \A i \in Instances :
          /\ WF_vars(Start(i)) /\ WF_vars(Tick(i)) /\ WF_vars(Receive(i))
          /\ WF_vars(StartServices(i))
          /\ SF_vars(Execute(i))
          /\ SF_vars(Replied(i, "set", {"yes"}) /\ Receive(i))

FairSpec == Spec /\ Fairness

-----------------------------------------------------------------------------
Leaders == {i \in Instances : leader[i]}

\* Types; and when all timers of an interval have fired and been answered, at most one
\* instance believes it leads: an instance that cannot renew gives up in the
\* very interval in which the key expires, never after it.
OneLeaderPerInterval ==
    /\ TypeOK
    /\ faults \subseteq {"cut", "crash"} /\ IntervalOver => Cardinality(Leaders) <= 1

\* No instance takes the key from another one or prolongs it for it: the key
\* changes only when it expires, or when its owner releases it or is gone,
\* however late the commands of others arrive.
KeyIsRespected ==
    [][ "forget" \notin faults =>
        \A i \in Instances : owner = i =>
          /\ owner' # i => ttl = 1 \/ mode[i] \in {"stopping", "stopped"} \/ mode'[i] = "down"
          /\ ttl' > ttl => Awaited(i) # {} ]_vars

Lease == INSTANCE LeaderLease WITH
    holder <- owner, remaining <- ttl, Life <- TTL,
    leads <- Leaders,
    closing <- {i \in Instances : mode[i] \in {"stopping", "stopped"}},
    punctual <- faults \subseteq {"cut", "crash"},
    durable <- "forget" \notin faults

\* Seen by the services, the election is a lease: the key is taken when it is
\* free, prolonged by its holder and given back by a holder that stops; and
\* while nothing is late, an instance begins to lead only as the holder, and no
\* interval ends with a leader that is not.
ImplementsLease == Lease!LeaseSpec

Serving(i) == leader[i] /\ services[i]

Unattended == \A i \in Instances : ~Serving(i)

\* Whoever crashes, whatever is lost and even if Redis forgets the key, some
\* instance leads again and runs the singleton services.
ServicesResume ==
    faults \subseteq {"cut", "crash", "forget"} /\ Unattended ~> ~Unattended

=============================================================================
