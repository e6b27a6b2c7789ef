----------------------------- MODULE ServiceProofs -----------------------------
(***************************************************************************)
(* The background services: who runs them, and the retries one of them     *)
(* makes.                                                                  *)
(*                                                                         *)
(* The key of the leader is respected and one instance leads per interval, *)
(* for any number of instances, any life of the key and any number of      *)
(* unanswered commands.  The attempts to deliver an alert form one chain   *)
(* and no delivery is forgotten, for any number of alerts, webhooks,       *)
(* overlapping polls and callers and any schedule.                         *)
(***************************************************************************)
EXTENDS LeaderElection, DeliveryRetry, FiniteSetTheorems, SequenceTheorems, TLAPS

(***************************************************************************)
(* A command acts on the key when Redis executes it, perhaps long after it *)
(* was sent.  What makes a late release harmless is that its sender is     *)
(* still on its way out: an instance that stops sends nothing else, and    *)
(* one that crashed has lost its connection.                               *)
(***************************************************************************)
ReleasesWhenStopping ==
    \A i \in Instances :
        \A k \in DOMAIN calls[i] :
            calls[i][k].command = "release" => mode[i] \in {"stopping", "stopped"}

ModesOfInstances == {"down", "starting", "running", "stopping", "stopped"}

KeyOK == ttl \in Nat /\ (ttl = 0 => owner = Nobody)

ElectionOK ==
    /\ KeyOK
    /\ mode \in [Instances -> ModesOfInstances]
    /\ calls \in [Instances -> Seq(Calls)]
    /\ ReleasesWhenStopping

\* Commands are sent one by one, and a release only by Stop.
LEMMA SendOK ==
    ASSUME NEW i \in Instances, NEW command \in {"set", "renew", "release"},
           ElectionOK, Send(i, command)
    PROVE  /\ calls' \in [Instances -> Seq(Calls)]
           /\ \A j \in Instances : \A k \in DOMAIN calls'[j] :
                 \/ k \in DOMAIN calls[j] /\ calls'[j][k] = calls[j][k]
                 \/ j = i /\ calls'[j][k].command = command
<1>1. Command(command) \in Calls /\ Command(command).command = command
    BY DEF Command, Calls
<1>2. calls' = [calls EXCEPT ![i] = Append(@, Command(command))] /\ calls[i] \in Seq(Calls)
    BY DEF Send, ElectionOK
<1>3. Append(calls[i], Command(command)) \in Seq(Calls)
    BY <1>1, <1>2
<1>4. calls' \in [Instances -> Seq(Calls)]
    BY <1>2, <1>3 DEF ElectionOK
<1>5. ASSUME NEW k \in DOMAIN calls'[i]
      PROVE  \/ k \in DOMAIN calls[i] /\ calls'[i][k] = calls[i][k]
             \/ calls'[i][k].command = command
    BY <1>1, <1>2, <1>5 DEF ElectionOK
<1>6. \A j \in Instances \ {i} : calls'[j] = calls[j]
    BY <1>2 DEF ElectionOK
<1> QED
    BY <1>4, <1>5, <1>6

\* Redis answers a command without changing it.
LEMMA AnswerOK ==
    ASSUME NEW i \in Instances, NEW k \in DOMAIN calls[i], NEW reply \in {"yes", "no"},
           ElectionOK, Answer(i, k, reply), mode' = mode
    PROVE  calls' \in [Instances -> Seq(Calls)] /\ ReleasesWhenStopping'
<1>1. calls[i] \in Seq(Calls) /\ calls[i][k] \in Calls
    BY DEF ElectionOK
<1> DEFINE answered == [calls[i][k] EXCEPT !.reply = reply]
<1>2. answered \in Calls /\ answered.command = calls[i][k].command
    BY <1>1 DEF Calls
<1>3. [calls[i] EXCEPT ![k] = answered] \in Seq(Calls)
    BY <1>1, <1>2
<1>4. calls' = [calls EXCEPT ![i] = [calls[i] EXCEPT ![k] = answered]]
    BY DEF Answer
<1>5. calls' \in [Instances -> Seq(Calls)]
    BY <1>3, <1>4 DEF ElectionOK
<1>6. ASSUME NEW j \in Instances, NEW l \in DOMAIN calls'[j]
      PROVE  l \in DOMAIN calls[j] /\ calls'[j][l].command = calls[j][l].command
    BY <1>1, <1>2, <1>4, <1>6 DEF ElectionOK
<1> QED
    BY <1>5, <1>6 DEF ElectionOK, ReleasesWhenStopping

\* The reply to the oldest command is handled.
LEMMA PopOK ==
    ASSUME NEW i \in Instances, ElectionOK, calls[i] # <<>>, Pop(i)
    PROVE  /\ calls' \in [Instances -> Seq(Calls)]
           /\ \A j \in Instances : \A k \in DOMAIN calls'[j] :
                 \E l \in DOMAIN calls[j] : calls'[j][k] = calls[j][l]
<1>1. calls[i] \in Seq(Calls) /\ calls' = [calls EXCEPT ![i] = Tail(@)]
    BY DEF ElectionOK, Pop
<1>2. Tail(calls[i]) \in Seq(Calls)
    BY <1>1
<1>3. \A k \in DOMAIN Tail(calls[i]) :
         k + 1 \in DOMAIN calls[i] /\ Tail(calls[i])[k] = calls[i][k + 1]
    BY <1>1
<1>4. \A j \in Instances \ {i} : calls'[j] = calls[j]
    BY <1>1 DEF ElectionOK
<1>5. calls'[i] = Tail(calls[i])
    BY <1>1 DEF ElectionOK
<1>6. calls' \in [Instances -> Seq(Calls)]
    BY <1>1, <1>2 DEF ElectionOK
<1>7. ASSUME NEW j \in Instances, NEW k \in DOMAIN calls'[j]
      PROVE  \E l \in DOMAIN calls[j] : calls'[j][k] = calls[j][l]
    <2>1. CASE j = i
        BY <1>3, <1>5, <1>7, <2>1
    <2>2. CASE j # i
        BY <1>4, <1>7, <2>2
    <2> QED
        BY <2>1, <2>2
<1> QED
    BY <1>6, <1>7

\* Redis executes the command it was sent.
LEMMA ExecuteCases ==
    ASSUME ElectionOK, NEW i \in Instances, Execute(i)
    PROVE  \E k \in DOMAIN calls[i] :
              /\ k \in Awaited(i)
              /\ \/ SetIfAbsent(i, k) \/ Renew(i, k)
                 \/ calls[i][k].command = "release" /\ Release(i, k)
<1>1. PICK k \in Awaited(i) :
         CASE calls[i][k].command = "set"     -> SetIfAbsent(i, k)
           [] calls[i][k].command = "renew"   -> Renew(i, k)
           [] calls[i][k].command = "release" -> Release(i, k)
    BY DEF Execute
<1>2. k \in DOMAIN calls[i] /\ calls[i] \in Seq(Calls)
    BY DEF Awaited, ElectionOK
<1>3. calls[i][k] \in Calls
    BY <1>2
<1>4. calls[i][k].command \in {"set", "renew", "release"}
    BY <1>3 DEF Calls
<1> QED
    BY <1>1, <1>2, <1>4

LEMMA InitElection == Init => ElectionOK
<1> SUFFICES ASSUME Init PROVE ElectionOK
    OBVIOUS
<1>1. KeyOK /\ mode \in [Instances -> ModesOfInstances]
    BY DEF Init, KeyOK, ModesOfInstances
<1>2. calls \in [Instances -> Seq(Calls)]
    BY DEF Init
<1>3. \A i \in Instances : DOMAIN calls[i] = {}
    BY DEF Init
<1> QED
    BY <1>1, <1>2, <1>3 DEF ElectionOK, ReleasesWhenStopping

\* The process of an instance: its timer, its boot, its end.
LEMMA ProcessElection ==
    ASSUME NEW i \in Instances, ElectionOK, Start(i) \/ Tick(i) \/ Stop(i) \/ Crash(i)
    PROVE  ElectionOK'
<1>1. ASSUME NEW command \in {"set", "renew", "release"}, Send(i, command), KeyOK',
             NEW m \in ModesOfInstances, mode' = [mode EXCEPT ![i] = m],
             mode[i] \notin {"stopping", "stopped"},
             command = "release" => m = "stopping"
      PROVE  ElectionOK'
    <2>1. mode' \in [Instances -> ModesOfInstances] /\ mode'[i] = m
          /\ \A j \in Instances \ {i} : mode'[j] = mode[j]
        BY <1>1 DEF ElectionOK
    <2>2. ASSUME NEW j \in Instances, NEW k \in DOMAIN calls'[j],
                 calls'[j][k].command = "release"
          PROVE  mode'[j] \in {"stopping", "stopped"}
        <3>1. CASE k \in DOMAIN calls[j] /\ calls'[j][k] = calls[j][k]
            BY <1>1, <2>1, <2>2, <3>1 DEF ElectionOK, ReleasesWhenStopping
        <3>2. CASE j = i /\ calls'[j][k].command = command
            BY <1>1, <2>1, <2>2, <3>2
        <3> QED
            BY <1>1, <3>1, <3>2, SendOK
    <2> QED
        BY <1>1, <2>1, <2>2, SendOK DEF ElectionOK, ReleasesWhenStopping
<1>0. UNCHANGED redisVars => KeyOK'
    BY DEF redisVars, ElectionOK, KeyOK
<1>2. CASE Start(i)
    BY <1>0, <1>1, <1>2 DEF Start, ElectionOK, ModesOfInstances
<1>3. CASE Tick(i)
    <2>1. PICK command \in {"set", "renew"} : Send(i, command)
        BY <1>3 DEF Tick
    <2>2. mode' = mode /\ KeyOK' /\ mode[i] = "running"
        BY <1>0, <1>3 DEF Tick
    <2>3. mode' = [mode EXCEPT ![i] = "running"]
        BY <2>2 DEF ElectionOK
    <2> QED
        BY <1>1, <2>1, <2>2, <2>3 DEF ModesOfInstances
<1>4. CASE Stop(i)
    <2>1. KeyOK' /\ mode[i] = "running"
        BY <1>0, <1>4 DEF Stop
    <2>2. CASE Send(i, "release") /\ mode' = [mode EXCEPT ![i] = "stopping"]
        BY <1>1, <2>1, <2>2 DEF ModesOfInstances
    <2>3. CASE UNCHANGED calls /\ mode' = [mode EXCEPT ![i] = "stopped"]
        <3>1. mode' \in [Instances -> ModesOfInstances]
            BY <2>3 DEF ElectionOK, ModesOfInstances
        <3>2. \A j \in Instances :
                 mode[j] \in {"stopping", "stopped"} => mode'[j] \in {"stopping", "stopped"}
            BY <2>3 DEF ElectionOK
        <3> QED
            BY <2>1, <2>3, <3>1, <3>2 DEF ElectionOK, ReleasesWhenStopping
    <2> QED
        BY <1>4, <2>2, <2>3 DEF Stop
<1>5. CASE Crash(i)
    <2>1. /\ mode' = [mode EXCEPT ![i] = "down"]
          /\ calls' = [calls EXCEPT ![i] = <<>>]
          /\ KeyOK'
        BY <1>5, LeaderElectionAssumption DEF Crash, ElectionOK, KeyOK, Nobody
    <2>2. calls' \in [Instances -> Seq(Calls)] /\ calls'[i] = <<>>
          /\ \A j \in Instances \ {i} : calls'[j] = calls[j] /\ mode'[j] = mode[j]
        BY <2>1 DEF ElectionOK
    <2>3. mode' \in [Instances -> ModesOfInstances]
        BY <2>1 DEF ElectionOK, ModesOfInstances
    <2>4. DOMAIN calls'[i] = {}
        BY <2>2
    <2> QED
        BY <2>1, <2>2, <2>3, <2>4 DEF ElectionOK, ReleasesWhenStopping
<1> QED
    BY <1>2, <1>3, <1>4, <1>5

\* What Redis does with a command, or the network.
LEMMA RedisElection ==
    ASSUME NEW i \in Instances, ElectionOK, Execute(i) \/ CallFails(i)
    PROVE  ElectionOK'
<1>1. TTL \in Nat \ {0}
    BY LeaderElectionAssumption
<1>2. CASE Execute(i)
    <2>1. PICK k \in DOMAIN calls[i] : SetIfAbsent(i, k) \/ Renew(i, k) \/ Release(i, k)
        BY <1>2, ExecuteCases
    <2>3. mode' = mode
        BY <1>2 DEF Execute
    <2>4. PICK reply \in {"yes", "no"} : Answer(i, k, reply)
        BY <2>1 DEF SetIfAbsent, Renew, Release
    <2>5. KeyOK'
        <3>1. \/ ttl' = TTL
              \/ ttl' = 0 /\ owner' = Nobody
              \/ ttl' = ttl /\ owner' = owner
            BY <2>1 DEF SetIfAbsent, Renew, Release, redisVars
        <3> QED
            BY <1>1, <3>1 DEF ElectionOK, KeyOK
    <2> QED
        BY <2>3, <2>4, <2>5, AnswerOK DEF ElectionOK
<1>3. CASE CallFails(i)
    <2>1. 1 \in DOMAIN calls[i] /\ Answer(i, 1, "no") /\ mode' = mode /\ KeyOK'
        BY <1>3 DEF CallFails, ElectionOK, KeyOK, redisVars
    <2> QED
        BY <2>1, AnswerOK DEF ElectionOK
<1> QED
    BY <1>2, <1>3

\* A reply moves only an instance that starts or stops.
LEMMA ReceiveElection ==
    ASSUME NEW i \in Instances, ElectionOK, Receive(i)
    PROVE  ElectionOK'
<1>1. calls[i] # <<>> /\ Pop(i) /\ KeyOK'
    BY DEF ElectionOK, KeyOK, Receive, Acquired, NotAcquired, Renewed, NotRenewed, Released, Replied, redisVars
<1>2. \/ mode' = mode
      \/ mode' = [mode EXCEPT ![i] = IF @ = "starting" THEN "running" ELSE @]
      \/ mode' = [mode EXCEPT ![i] = "stopped"]
    BY DEF Receive, Acquired, NotAcquired, Renewed, NotRenewed, Released
<1>3. /\ mode' \in [Instances -> ModesOfInstances]
      /\ \A j \in Instances :
            mode[j] \in {"stopping", "stopped"} => mode'[j] \in {"stopping", "stopped"}
    BY <1>2 DEF ElectionOK, ModesOfInstances
<1> QED
    BY <1>1, <1>3, PopOK DEF ElectionOK, ReleasesWhenStopping

\* The inductive step.
LEMMA StepElection == ElectionOK /\ [Next]_vars => ElectionOK'
<1> SUFFICES ASSUME ElectionOK, [Next]_vars PROVE ElectionOK'
    OBVIOUS
<1>1. ASSUME NEW i \in Instances, StartServices(i) PROVE ElectionOK'
    BY <1>1 DEF StartServices, redisVars, ElectionOK, KeyOK, ReleasesWhenStopping
<1>2. CASE RedisForgets
    BY <1>2 DEF RedisForgets, instanceVars, ElectionOK, KeyOK, ReleasesWhenStopping
<1>3. CASE NextInterval
    BY <1>3 DEF NextInterval, instanceVars, ElectionOK, KeyOK, ReleasesWhenStopping
<1>4. CASE UNCHANGED vars
    BY <1>4 DEF vars, redisVars, instanceVars, ElectionOK, KeyOK, ReleasesWhenStopping
<1> QED
    BY <1>1, <1>2, <1>3, <1>4, ProcessElection, RedisElection, ReceiveElection DEF Next

\* What a step may do to the key of an owner.
LEMMA StepRespectsKey ==
    ASSUME ElectionOK, [Next]_vars, "forget" \notin faults,
           NEW i \in Instances, owner = i
    PROVE  /\ owner' # i => ttl = 1 \/ mode[i] \in {"stopping", "stopped"} \/ mode'[i] = "down"
           /\ ttl' > ttl => Awaited(i) # {}
<1>1. owner # Nobody /\ ttl \in Nat \ {0}
    BY LeaderElectionAssumption DEF ElectionOK, KeyOK, Nobody
<1>2. CASE UNCHANGED redisVars
    BY <1>1, <1>2 DEF redisVars
<1>3. ASSUME NEW j \in Instances, Execute(j)
      PROVE  /\ owner' # i => mode[i] \in {"stopping", "stopped"}
             /\ ttl' > ttl => Awaited(i) # {}
    <2>1. PICK k \in DOMAIN calls[j] :
             /\ k \in Awaited(j)
             /\ \/ SetIfAbsent(j, k) \/ Renew(j, k)
                \/ calls[j][k].command = "release" /\ Release(j, k)
        BY <1>3, ExecuteCases
    <2>2. CASE SetIfAbsent(j, k)
        BY <1>1, <2>2 DEF SetIfAbsent, redisVars
    <2>3. CASE Renew(j, k)
        BY <1>1, <2>1, <2>3 DEF Renew, redisVars
    <2>4. CASE calls[j][k].command = "release" /\ Release(j, k)
        <3>1. mode[j] \in {"stopping", "stopped"}
            BY <2>4 DEF ElectionOK, ReleasesWhenStopping
        <3> QED
            BY <1>1, <2>4, <3>1 DEF Release, redisVars
    <2> QED
        BY <2>1, <2>2, <2>3, <2>4
<1>4. ASSUME NEW j \in Instances, Crash(j)
      PROVE  (owner' # i => mode'[i] = "down") /\ ttl' = ttl
    BY <1>4 DEF Crash, ElectionOK
<1>5. CASE NextInterval
    <2>1. ttl' = ttl - 1 /\ (ttl' # 0 => owner' = owner)
        BY <1>1, <1>5 DEF NextInterval
    <2> QED
        BY <1>1, <2>1
<1>6. ASSUME NEW j \in Instances,
             Start(j) \/ Tick(j) \/ Stop(j) \/ CallFails(j) \/ Receive(j) \/ StartServices(j)
      PROVE  UNCHANGED redisVars
    BY <1>6 DEF Start, Tick, Stop, CallFails, Receive, StartServices
<1>7. ~RedisForgets
    BY DEF RedisForgets
<1>8. CASE UNCHANGED vars
    BY <1>2, <1>8 DEF vars
<1> QED
    BY <1>1, <1>2, <1>3, <1>4, <1>5, <1>6, <1>7, <1>8 DEF Next

\* Nobody takes the leader's key away or prolongs it for it, whatever is
\* delayed, lost or crashes (the scripts of leader-election.ts).
THEOREM KeyIsRespectedHolds == Spec => KeyIsRespected
<1> DEFINE Respected ==
        "forget" \notin faults =>
          \A i \in Instances : owner = i =>
            /\ owner' # i => ttl = 1 \/ mode[i] \in {"stopping", "stopped"} \/ mode'[i] = "down"
            /\ ttl' > ttl => Awaited(i) # {}
<1>1. ElectionOK /\ [Next]_vars => [Respected]_vars
    BY StepRespectsKey
<1> QED
    BY <1>1, InitElection, StepElection, PTL DEF Spec, KeyIsRespected

-----------------------------------------------------------------------------
(***************************************************************************)
(* One leader per interval.  With nothing but cuts and crashes, an         *)
(* instance sends one command per interval and has its reply in the same   *)
(* interval.  A leader that has had its turn therefore owns a key which is *)
(* as old as its failures in a row; one whose key has gone has not had its *)
(* turn yet, and the turn is its last.                                     *)
(***************************************************************************)
Quiet == faults \subseteq {"cut", "crash"}

Turn(i) == i \notin ticked \/ calls[i] # <<>>

CallFits(i) ==
    calls[i] # <<>> =>
        /\ i \in ticked /\ mode[i] # "down"
        /\ Len(calls[i]) = 1
        /\ calls[i][1].command = IF leader[i] THEN "renew" ELSE "set"
        /\ calls[i][1].reply = "yes" => owner = i /\ ttl = TTL

LeadFits(i) ==
    leader[i] =>
        \/ owner = i /\ ttl + failures[i] + (IF Turn(i) THEN 1 ELSE 0) >= TTL
        \/ owner # i /\ Turn(i) /\ failures[i] + 1 >= MaxFailures

Fits(i) ==
    /\ mode[i] \in {"down", "starting", "running"}
    /\ leader[i] => mode[i] = "running"
    /\ CallFits(i) /\ LeadFits(i)

ElectionFits == Quiet => \A i \in Instances : Fits(i)

ElectionInv == TypeOK /\ ElectionOK /\ ElectionFits

LEMMA TypeStep == TypeOK /\ ElectionOK /\ [Next]_vars => TypeOK'
<1> SUFFICES ASSUME TypeOK, ElectionOK, [Next]_vars PROVE TypeOK'
    OBVIOUS
<1>1. mode' \in [Instances -> ModesOfInstances] /\ calls' \in [Instances -> Seq(Calls)]
    BY StepElection DEF ElectionOK
<1>2. MaxFailures \in Nat \ {0} /\ TTL \in Nat \ {0} /\ Nobody \notin Instances /\ Departed # Nobody
    BY LeaderElectionAssumption DEF Nobody, Departed
<1>3. \/ UNCHANGED redisVars
      \/ owner' \in Instances /\ ttl' = TTL
      \/ owner' = Nobody /\ ttl' = 0
      \/ owner' = Departed /\ owner # Nobody /\ ttl' = ttl
      \/ owner' = owner /\ ttl' = TTL /\ owner # Nobody
      \/ owner' = owner /\ ttl' = ttl - 1 /\ ttl' # 0 /\ ttl # 0
    <2>1. ASSUME NEW i \in Instances, Execute(i)
          PROVE  \/ UNCHANGED redisVars
                 \/ owner' \in Instances /\ ttl' = TTL
                 \/ owner' = Nobody /\ ttl' = 0
                 \/ owner' = owner /\ ttl' = TTL /\ owner # Nobody
        BY <1>2, <2>1, ExecuteCases DEF SetIfAbsent, Renew, Release, redisVars
    <2>2. ASSUME NEW i \in Instances, Crash(i)
          PROVE  UNCHANGED redisVars \/ (owner' = Departed /\ owner # Nobody /\ ttl' = ttl)
        BY <1>2, <2>2 DEF Crash, redisVars
    <2>3. NextInterval => \/ UNCHANGED redisVars
                          \/ owner' = Nobody /\ ttl' = 0
                          \/ owner' = owner /\ ttl' = ttl - 1 /\ ttl' # 0 /\ ttl # 0
        BY DEF NextInterval, redisVars, TypeOK
    <2> QED
        BY <2>1, <2>2, <2>3 DEF Next, Start, Tick, Stop, CallFails, Receive, StartServices,
                                RedisForgets, vars
<1>4. /\ owner' \in Instances \cup {Nobody, Departed}
      /\ ttl' \in 0 .. TTL
      /\ owner' = Nobody <=> ttl' = 0
    BY <1>2, <1>3 DEF TypeOK, redisVars
<1>5. \/ UNCHANGED failures
      \/ \E i \in Instances, n \in 0 .. MaxFailures - 1 : failures' = [failures EXCEPT ![i] = n]
    <2>1. ASSUME NEW i \in Instances, Receive(i)
          PROVE  \/ UNCHANGED failures
                 \/ \E n \in 0 .. MaxFailures - 1 : failures' = [failures EXCEPT ![i] = n]
        <3>1. 0 \in 0 .. MaxFailures - 1 /\ failures[i] \in 0 .. MaxFailures - 1
            BY <1>2 DEF TypeOK
        <3>2. NotRenewed(i) =>
                 \E n \in 0 .. MaxFailures - 1 : failures' = [failures EXCEPT ![i] = n]
            <4>1. CASE StepsDown(i)
                BY <3>1, <4>1 DEF NotRenewed
            <4>2. CASE ~StepsDown(i)
                <5>1. failures[i] + 1 \in 0 .. MaxFailures - 1
                    BY <1>2, <3>1, <4>2 DEF StepsDown
                <5> QED
                    BY <4>2, <5>1 DEF NotRenewed
            <4> QED
                BY <4>1, <4>2
        <3> QED
            BY <2>1, <3>1, <3>2 DEF Receive, Acquired, NotAcquired, Renewed, Released
    <2>2. 0 \in 0 .. MaxFailures - 1
        BY <1>2
    <2> QED
        BY <2>1, <2>2 DEF Next, Start, Tick, Stop, Execute, CallFails, StartServices, Crash,
                          RedisForgets, NextInterval, vars, instanceVars
<1>6. \/ UNCHANGED leader
      \/ \E i \in Instances, b \in BOOLEAN : leader' = [leader EXCEPT ![i] = b]
    BY DEF Next, Start, Tick, Stop, Execute, CallFails, StartServices, Crash, Receive, Acquired,
           NotAcquired, Renewed, NotRenewed, Released, RedisForgets, NextInterval, vars, instanceVars
<1>7. \/ UNCHANGED services
      \/ \E i \in Instances, b \in BOOLEAN : services' = [services EXCEPT ![i] = b]
    BY DEF Next, Start, Tick, Stop, Execute, CallFails, StartServices, Crash, Receive,
           RedisForgets, NextInterval, vars, instanceVars
<1>8. ticked' \in SUBSET Instances /\ faults' \in FaultCases
    BY DEF TypeOK, Next, Start, Tick, Stop, Execute, CallFails, StartServices, Crash, Receive,
           RedisForgets, NextInterval, vars, instanceVars
<1>9. crashes' \in 0 .. MaxCrashes
    <2>1. UNCHANGED crashes \/ (crashes < MaxCrashes /\ crashes' = crashes + 1)
        BY DEF Next, Start, Tick, Stop, Execute, CallFails, StartServices, Crash, Receive,
               RedisForgets, NextInterval, vars
    <2> QED
        BY <2>1, LeaderElectionAssumption DEF TypeOK
<1>10. failures' \in [Instances -> 0 .. MaxFailures - 1]
    BY <1>5 DEF TypeOK
<1>11. leader' \in [Instances -> BOOLEAN] /\ services' \in [Instances -> BOOLEAN]
    BY <1>6, <1>7 DEF TypeOK
<1> QED
    BY <1>1, <1>4, <1>8, <1>9, <1>10, <1>11 DEF TypeOK, ModesOfInstances

\* The only command of an instance, when it is sent, answered and handled.
LEMMA SendOne ==
    ASSUME NEW i \in Instances, NEW command, ElectionOK, calls[i] = <<>>, Send(i, command)
    PROVE  /\ Len(calls'[i]) = 1
           /\ calls'[i][1].command = command /\ calls'[i][1].reply = "awaited"
           /\ \A j \in Instances \ {i} : calls'[j] = calls[j]
<1>1. calls'[i] = <<Command(command)>>
    BY DEF Send, ElectionOK
<1>2. Command(command).command = command /\ Command(command).reply = "awaited"
    BY DEF Command
<1>3. \A j \in Instances \ {i} : calls'[j] = calls[j]
    BY DEF Send, ElectionOK
<1> QED
    BY <1>1, <1>2, <1>3

LEMMA AnswerOne ==
    ASSUME NEW i \in Instances, NEW reply, ElectionOK, Len(calls[i]) = 1, Answer(i, 1, reply)
    PROVE  /\ Len(calls'[i]) = 1
           /\ calls'[i][1].command = calls[i][1].command /\ calls'[i][1].reply = reply
           /\ \A j \in Instances \ {i} : calls'[j] = calls[j]
<1>1. calls[i] \in Seq(Calls)
    BY DEF ElectionOK
<1>2. calls[i][1] \in Calls
    BY <1>1
<1> DEFINE answered == [calls[i][1] EXCEPT !.reply = reply]
<1>3. answered.command = calls[i][1].command /\ answered.reply = reply
    BY <1>2 DEF Calls
<1>4. calls' = [calls EXCEPT ![i] = [calls[i] EXCEPT ![1] = answered]]
    BY DEF Answer
<1>5. calls'[i] = [calls[i] EXCEPT ![1] = answered]
      /\ \A j \in Instances \ {i} : calls'[j] = calls[j]
    BY <1>4 DEF ElectionOK
<1>6. Len(calls'[i]) = 1 /\ calls'[i][1] = answered
    BY <1>1, <1>5
<1> QED
    BY <1>3, <1>5, <1>6

LEMMA PopOne ==
    ASSUME NEW i \in Instances, ElectionOK, Len(calls[i]) = 1, Pop(i)
    PROVE  calls'[i] = <<>> /\ \A j \in Instances \ {i} : calls'[j] = calls[j]
<1>1. calls[i] \in Seq(Calls)
    BY DEF ElectionOK
<1>2. calls[i] # <<>>
    OBVIOUS
<1>3. Tail(calls[i]) \in Seq(Calls) /\ Len(Tail(calls[i])) = 0
    BY <1>1, <1>2, HeadTailProperties
<1>4. Tail(calls[i]) = <<>>
    BY <1>3, EmptySeq
<1> QED
    BY <1>4 DEF Pop, ElectionOK

LEMMA FailuresBelow ==
    ASSUME TypeOK, NEW i \in Instances
    PROVE  /\ TTL \in Nat \ {0} /\ MaxFailures \in Nat \ {0} /\ ttl \in 0 .. TTL
           /\ failures[i] \in Nat /\ failures[i] < MaxFailures
BY LeaderElectionAssumption DEF TypeOK

\* What an instance does changes nothing for another one, unless it takes
\* the key, and it can take only a key that the other one does not own.
LEMMA OthersFit ==
    ASSUME NEW j \in Instances, Fits(j),
           mode'[j] = mode[j], leader'[j] = leader[j], failures'[j] = failures[j],
           calls'[j] = calls[j], j \in ticked' <=> j \in ticked,
           \/ owner' = owner /\ ttl' = ttl
           \/ owner # j /\ owner' # j
    PROVE  Fits(j)'
<1>1. Turn(j)' <=> Turn(j)
    BY DEF Turn
<1>2. CallFits(j)'
    BY DEF Fits, CallFits
<1>3. LeadFits(j)'
    BY <1>1 DEF Fits, LeadFits
<1> QED
    BY <1>2, <1>3 DEF Fits

\* The process of an instance.
LEMMA ProcessFits ==
    ASSUME TypeOK, ElectionOK, NEW i \in Instances, Fits(i),
           Start(i) \/ Tick(i) \/ StartServices(i) \/ Crash(i)
    PROVE  Fits(i)'
<1> USE FailuresBelow
<1>1. CASE Start(i)
    <2>1. calls[i] = <<>> /\ ~leader[i]
        BY <1>1 DEF Start, Fits, CallFits
    <2>2. /\ mode'[i] = "starting" /\ ~leader'[i] /\ i \in ticked'
          /\ UNCHANGED <<owner, ttl>>
        BY <1>1, <2>1 DEF Start, TypeOK, redisVars
    <2>3. CallFits(i)'
        BY <1>1, <2>1, <2>2, SendOne DEF Start, CallFits
    <2> QED
        BY <2>2, <2>3 DEF Fits, LeadFits
<1>2. CASE Tick(i)
    <2>1. calls[i] = <<>> /\ mode[i] = "running" /\ i \notin ticked
        BY <1>2 DEF Tick, Fits, CallFits
    <2>2. /\ i \in ticked' /\ UNCHANGED <<owner, ttl, mode, leader, failures>>
          /\ Send(i, IF leader[i] THEN "renew" ELSE "set")
        BY <1>2 DEF Tick, redisVars
    <2>3. /\ Len(calls'[i]) = 1
          /\ calls'[i][1].command = (IF leader[i] THEN "renew" ELSE "set")
          /\ calls'[i][1].reply = "awaited"
        BY <2>1, <2>2, SendOne
    <2>4. calls'[i] # <<>>
        BY <2>3
    <2>5. Turn(i) /\ Turn(i)'
        BY <2>1, <2>4 DEF Turn
    <2> QED
        BY <2>1, <2>2, <2>3, <2>5 DEF Fits, CallFits, LeadFits
<1>3. CASE StartServices(i)
    BY <1>3, OthersFit DEF StartServices, redisVars
<1>4. CASE Crash(i)
    <2>1. mode'[i] = "down" /\ ~leader'[i] /\ calls'[i] = <<>>
        BY <1>4 DEF Crash, TypeOK
    <2> QED
        BY <2>1 DEF Fits, CallFits, LeadFits
<1> QED
    BY <1>1, <1>2, <1>3, <1>4

\* The command of an instance that Redis executes or the network loses.
LEMMA RedisFits ==
    ASSUME TypeOK, ElectionOK, NEW i \in Instances, Fits(i), Execute(i) \/ CallFails(i)
    PROVE  Fits(i)'
<1> USE FailuresBelow
<1>1. calls[i] \in Seq(Calls)
    BY DEF ElectionOK
<1>2. calls[i] # <<>>
    <2>1. ASSUME calls[i] = <<>> PROVE FALSE
        <3>1. DOMAIN calls[i] = {}
            BY <2>1
        <3> QED
            BY <2>1, <3>1 DEF Execute, CallFails, Awaited
    <2> QED
        BY <2>1
<1>3. /\ i \in ticked /\ mode[i] # "down" /\ Len(calls[i]) = 1 /\ DOMAIN calls[i] = {1}
      /\ calls[i][1].command = IF leader[i] THEN "renew" ELSE "set"
    BY <1>1, <1>2 DEF Fits, CallFits
<1>4. UNCHANGED <<mode, leader, failures, ticked>>
    BY DEF Execute, CallFails
<1>5. ASSUME NEW reply, Answer(i, 1, reply),
             reply = "yes" => owner' = i /\ ttl' = TTL,
             leader[i] => \/ owner' = owner /\ ttl' = ttl
                          \/ owner' = owner /\ ttl' = TTL
      PROVE  Fits(i)'
    <2>1. /\ Len(calls'[i]) = 1
          /\ calls'[i][1].command = calls[i][1].command /\ calls'[i][1].reply = reply
        BY <1>3, <1>5, AnswerOne
    <2>2. calls'[i] # <<>>
        BY <2>1
    <2>3. Turn(i) /\ Turn(i)'
        BY <1>2, <2>2 DEF Turn
    <2>4. CallFits(i)'
        BY <1>3, <1>4, <1>5, <2>1 DEF CallFits
    <2>5. LeadFits(i)'
        BY <1>4, <1>5, <2>3 DEF Fits, LeadFits
    <2> QED
        BY <1>4, <2>4, <2>5 DEF Fits
<1>6. CASE CallFails(i)
    <2>1. Answer(i, 1, "no") /\ owner' = owner /\ ttl' = ttl
        BY <1>6 DEF CallFails, redisVars
    <2> QED
        BY <1>5, <2>1
<1>7. CASE Execute(i)
    <2>1. CASE calls[i][1].command = "set" /\ SetIfAbsent(i, 1)
        BY <1>3, <1>5, <2>1 DEF SetIfAbsent
    <2>2. CASE calls[i][1].command = "renew" /\ Renew(i, 1)
        BY <1>5, <2>2 DEF Renew, redisVars
    <2>3. \/ calls[i][1].command = "set" /\ SetIfAbsent(i, 1)
          \/ calls[i][1].command = "renew" /\ Renew(i, 1)
        <3>1. calls[i][1].command \in {"set", "renew"}
            BY <1>3
        <3> QED
            BY <1>3, <1>7, <3>1 DEF Execute, Awaited
    <2> QED
        BY <2>1, <2>2, <2>3
<1> QED
    BY <1>6, <1>7

\* The reply: a leader's turn is over, with the key renewed or one failure more.
LEMMA ReceiveFits ==
    ASSUME TypeOK, ElectionOK, NEW i \in Instances, Fits(i), Receive(i)
    PROVE  Fits(i)'
<1> USE FailuresBelow
<1>1. calls[i] # <<>> /\ Pop(i) /\ UNCHANGED <<owner, ttl, ticked>>
    BY DEF Receive, Acquired, NotAcquired, Renewed, NotRenewed, Released, Replied, redisVars
<1>2. /\ i \in ticked /\ mode[i] # "down" /\ Len(calls[i]) = 1
      /\ calls[i][1].command = IF leader[i] THEN "renew" ELSE "set"
      /\ calls[i][1].reply = "yes" => owner = i /\ ttl = TTL
    BY <1>1 DEF Fits, CallFits
<1>3. calls'[i] = <<>> /\ ~Turn(i)' /\ Turn(i) /\ CallFits(i)'
    BY <1>1, <1>2, PopOne DEF Turn, CallFits
<1>4. CASE Acquired(i)
    <2>1. mode'[i] = "running" /\ failures'[i] = 0 /\ owner = i /\ ttl = TTL
        BY <1>2, <1>4 DEF Acquired, Replied, Fits, TypeOK
    <2> QED
        BY <1>1, <1>3, <2>1 DEF Fits, LeadFits
<1>5. CASE NotAcquired(i)
    <2>1. ~leader'[i] /\ mode'[i] = "running"
        BY <1>2, <1>5 DEF NotAcquired, Replied, Fits, TypeOK
    <2> QED
        BY <1>3, <2>1 DEF Fits, LeadFits
<1>6. CASE Renewed(i)
    <2>1. failures'[i] = 0 /\ UNCHANGED <<mode, leader>> /\ owner = i /\ ttl = TTL
        BY <1>2, <1>6 DEF Renewed, Replied, TypeOK
    <2> QED
        BY <1>1, <1>3, <2>1 DEF Fits, LeadFits
<1>7. CASE NotRenewed(i)
    <2>1. mode' = mode /\ leader[i]
        BY <1>2, <1>7 DEF NotRenewed, Replied
    <2>2. CASE StepsDown(i)
        <3>1. ~leader'[i]
            BY <1>7, <2>2 DEF NotRenewed, TypeOK
        <3> QED
            BY <1>3, <2>1, <3>1 DEF Fits, LeadFits
    <2>3. CASE ~StepsDown(i)
        <3>1. leader' = leader /\ failures'[i] = failures[i] + 1 /\ failures[i] + 1 < MaxFailures
            BY <1>7, <2>3 DEF NotRenewed, StepsDown, TypeOK
        <3>2. owner = i /\ ttl + failures[i] + 1 >= TTL
            BY <1>3, <2>1, <3>1 DEF Fits, LeadFits
        <3> QED
            BY <1>1, <1>3, <2>1, <3>1, <3>2 DEF Fits, LeadFits
    <2> QED
        BY <2>2, <2>3
<1>8. ~Released(i)
    BY <1>2 DEF Released, Replied
<1> QED
    BY <1>4, <1>5, <1>6, <1>7, <1>8 DEF Receive

\* Intervals end when nobody's turn is left: a leader owns the key then.
LEMMA IntervalFits ==
    ASSUME TypeOK, ElectionOK, MaxFailures <= TTL, NextInterval, IntervalOver,
           NEW i \in Instances, Fits(i)
    PROVE  Fits(i)'
<1> USE FailuresBelow
<1>1. UNCHANGED <<mode, leader, failures, calls>> /\ calls[i] = <<>> /\ i \notin ticked'
    BY DEF NextInterval, IntervalOver, instanceVars
<1>2. Turn(i)' /\ CallFits(i)'
    BY <1>1 DEF Turn, CallFits
<1>3. CASE ~leader[i]
    BY <1>1, <1>2, <1>3 DEF Fits, LeadFits
<1>4. CASE leader[i]
    <2>1. ~Turn(i)
        BY <1>4 DEF Turn, IntervalOver, Fits
    <2>2. owner = i /\ ttl + failures[i] >= TTL
        BY <1>4, <2>1 DEF Fits, LeadFits
    <2>3. ttl # 0 /\ ttl' = ttl - 1 /\ (ttl' = 0 => owner' = Nobody) /\ (ttl' # 0 => owner' = owner)
        BY <2>2 DEF NextInterval
    <2>4. CASE ttl' # 0
        BY <1>1, <1>2, <1>4, <2>2, <2>3, <2>4 DEF Fits, LeadFits
    <2>5. CASE ttl' = 0
        <3>1. owner' # i /\ failures'[i] + 1 >= MaxFailures
            BY <1>1, <2>2, <2>3, <2>5, LeaderElectionAssumption DEF Nobody
        <3> QED
            BY <1>1, <1>2, <1>4, <3>1 DEF Fits, LeadFits
    <2> QED
        BY <2>4, <2>5
<1> QED
    BY <1>3, <1>4

\* A step of one instance, seen by another one.
LEMMA StepOfOther ==
    ASSUME TypeOK, ElectionOK, Quiet, NEW i \in Instances, NEW j \in Instances \ {i},
           Fits(i), Fits(j),
           \/ Start(i) \/ Tick(i) \/ Stop(i)
           \/ Execute(i) \/ CallFails(i) \/ Receive(i)
           \/ StartServices(i) \/ Crash(i)
    PROVE  Fits(j)'
<1>1. /\ mode'[j] = mode[j] /\ leader'[j] = leader[j] /\ failures'[j] = failures[j]
      /\ j \in ticked' <=> j \in ticked
    BY DEF Start, Tick, Stop, Execute, CallFails, Receive, Acquired, NotAcquired, Renewed,
           NotRenewed, Released, StartServices, Crash, TypeOK
<1>2. calls'[j] = calls[j]
    <2>1. \/ UNCHANGED calls
          \/ \E s : calls' = [calls EXCEPT ![i] = s]
          \/ \E k, reply : Answer(i, k, reply)
        BY ExecuteCases DEF Start, Tick, Stop, CallFails, Receive, StartServices, Crash, Send, Pop,
                            SetIfAbsent, Renew, Release
    <2>2. ASSUME NEW k, NEW reply, Answer(i, k, reply) PROVE calls'[j] = calls[j]
        BY <2>2 DEF Answer, TypeOK
    <2> QED
        BY <2>1, <2>2 DEF TypeOK
<1>3. \/ owner' = owner /\ ttl' = ttl
      \/ owner # j /\ owner' # j
    <2>1. i # j /\ Nobody # j /\ Departed # j
        BY LeaderElectionAssumption DEF Nobody, Departed
    <2>2. CASE Execute(i)
        BY <2>1, <2>2, ExecuteCases DEF SetIfAbsent, Renew, Release, redisVars
    <2>3. CASE Crash(i)
        BY <2>1, <2>3 DEF Crash
    <2> QED
        BY <2>2, <2>3 DEF Start, Tick, Stop, CallFails, Receive, StartServices, redisVars
<1> QED
    BY <1>1, <1>2, <1>3, OthersFit

LEMMA FitsStep ==
    ASSUME MaxFailures <= TTL
    PROVE  ElectionInv /\ [Next]_vars => ElectionInv'
<1> SUFFICES ASSUME ElectionInv, [Next]_vars, Quiet, NEW j \in Instances PROVE Fits(j)'
    <2>1. ElectionInv /\ [Next]_vars => TypeOK' /\ ElectionOK'
        BY TypeStep, StepElection DEF ElectionInv
    <2>2. [Next]_vars => faults' = faults
        BY DEF vars, instanceVars, Next, Start, Tick, Stop, Execute, CallFails, Receive,
               StartServices, Crash, RedisForgets, NextInterval
    <2> QED
        BY <2>1, <2>2 DEF ElectionInv, ElectionFits, Quiet
<1> USE DEF ElectionInv
<1>1. \A i \in Instances : Fits(i)
    BY DEF ElectionFits
<1>2. CASE UNCHANGED vars
    BY <1>1, <1>2, OthersFit DEF vars, redisVars, instanceVars
<1>3. CASE NextInterval
    <2>1. IntervalOver
        BY <1>3 DEF NextInterval, Quiet
    <2> QED
        BY <1>1, <1>3, <2>1, IntervalFits
<1>4. ~RedisForgets
    BY DEF RedisForgets, Quiet
<1>5. ASSUME NEW i \in Instances,
             \/ Start(i) \/ Tick(i) \/ Stop(i)
             \/ Execute(i) \/ CallFails(i) \/ Receive(i)
             \/ StartServices(i) \/ Crash(i)
      PROVE  Fits(j)'
    <2>1. CASE i # j
        BY <1>1, <1>5, <2>1, StepOfOther
    <2>2. CASE i = j
        <3>1. ~Stop(i)
            BY DEF Stop, Quiet
        <3> QED
            BY <1>1, <1>5, <2>2, <3>1, ProcessFits, RedisFits, ReceiveFits
    <2> QED
        BY <2>1, <2>2
<1> QED
    BY <1>2, <1>3, <1>4, <1>5 DEF Next

LEMMA InitType == Init => TypeOK
<1> SUFFICES ASSUME Init PROVE TypeOK
    OBVIOUS
<1>1. calls \in [Instances -> Seq(Calls)]
    BY InitElection DEF ElectionOK
<1> QED
    BY <1>1, LeaderElectionAssumption DEF Init, TypeOK

LEMMA InitFits == Init => ElectionFits
BY DEF Init, ElectionFits, Fits, CallFits, LeadFits

\* Whoever leads when its turn is over owns the key.
LEMMA LeadersOwn ==
    ASSUME ElectionInv, Quiet, IntervalOver, NEW i \in Leaders
    PROVE  owner = i
<1>1. i \in Instances /\ leader[i] /\ Fits(i)
    BY DEF Leaders, ElectionInv, ElectionFits
<1>2. ~Turn(i)
    BY <1>1 DEF Turn, IntervalOver, Fits
<1> QED
    BY <1>1, <1>2 DEF Fits, LeadFits

\* If an instance gives up no later than its key expires, at most one
\* instance believes it leads at the end of every interval, for any number
\* of instances that crash and any commands and replies that are lost.
THEOREM OneLeaderPerIntervalHolds ==
    ASSUME MaxFailures <= TTL
    PROVE  Spec => []OneLeaderPerInterval
<1>1. Init => ElectionInv
    BY InitType, InitElection, InitFits DEF ElectionInv
<1>2. ElectionInv /\ [Next]_vars => ElectionInv'
    BY FitsStep
<1>3. ElectionInv => OneLeaderPerInterval
    <2> SUFFICES ASSUME ElectionInv, Quiet, IntervalOver PROVE Cardinality(Leaders) <= 1
        BY DEF OneLeaderPerInterval, ElectionInv, Quiet
    <2>1. \A i \in Leaders : owner = i
        BY LeadersOwn
    <2>2. Leaders = {} \/ Leaders = {owner}
        BY <2>1
    <2>3. Cardinality({}) = 0 /\ Cardinality({owner}) = 1
        BY FS_EmptySet, FS_Singleton
    <2> QED
        BY <2>2, <2>3
<1> QED
    BY <1>1, <1>2, <1>3, PTL DEF Spec

-----------------------------------------------------------------------------
(***************************************************************************)
(* The lease.  An instance that stops keeps its place among the closing    *)
(* ones until it ends, and only such an instance gives the lease back; a   *)
(* reply that makes an instance lead is as old as the key it was given.    *)
(***************************************************************************)
Closing == {i \in Instances : mode[i] \in {"stopping", "stopped"}}

Untouched == UNCHANGED <<owner, ttl, Leaders, Closing>>

\* Steps of a process that the lease does not see, and those that it sees.
LEMMA ProcessLeases ==
    ASSUME ElectionInv, NEW i \in Instances,
           \/ Start(i) \/ Tick(i) \/ Stop(i) \/ CallFails(i) \/ StartServices(i) \/ Crash(i)
    PROVE  Untouched \/ Lease!Close(i) \/ Lease!Die(i)
<1> USE DEF ElectionInv
<1>1. CASE Start(i)
    <2>1. mode[i] = "down" /\ mode' = [mode EXCEPT ![i] = "starting"]
          /\ UNCHANGED <<owner, ttl, leader>>
        BY <1>1 DEF Start, redisVars
    <2> QED
        BY <2>1 DEF Untouched, Leaders, Closing, TypeOK
<1>2. CASE Tick(i) \/ CallFails(i) \/ StartServices(i)
    BY <1>2 DEF Tick, CallFails, StartServices, redisVars, Untouched, Leaders, Closing
<1>3. CASE Stop(i)
    <2>1. PICK m \in {"stopping", "stopped"} : mode' = [mode EXCEPT ![i] = m]
        BY <1>3 DEF Stop
    <2>2. Closing' = Closing \cup {i}
        BY <2>1 DEF Closing, TypeOK
    <2>3. UNCHANGED <<owner, ttl, Leaders>>
        BY <1>3 DEF Stop, redisVars, Leaders
    <2> QED
        BY <2>2, <2>3 DEF Lease!Close, Closing
<1>4. CASE Crash(i)
    <2>1. Closing' = Closing \ {i} /\ Leaders' = Leaders \ {i}
        BY <1>4 DEF Crash, Closing, Leaders, TypeOK
    <2> QED
        BY <1>4, <2>1 DEF Crash, Lease!Die, Closing
<1> QED
    BY <1>1, <1>2, <1>3, <1>4

\* A command that Redis executes.
LEMMA ExecuteLeases ==
    ASSUME ElectionInv, NEW i \in Instances, Execute(i)
    PROVE  Untouched \/ Lease!Take(i) \/ Lease!Prolong(i) \/ Lease!GiveBack(i)
<1>1. UNCHANGED <<Leaders, Closing>>
    BY DEF Execute, Leaders, Closing
<1>2. PICK k \in DOMAIN calls[i] :
         \/ SetIfAbsent(i, k) \/ Renew(i, k)
         \/ calls[i][k].command = "release" /\ Release(i, k)
    BY ExecuteCases DEF ElectionInv
<1>3. CASE SetIfAbsent(i, k)
    BY <1>1, <1>3 DEF SetIfAbsent, redisVars, Untouched, Lease!Take, Closing
<1>4. CASE Renew(i, k)
    BY <1>1, <1>4 DEF Renew, redisVars, Untouched, Lease!Prolong, Closing
<1>5. CASE calls[i][k].command = "release" /\ Release(i, k)
    <2>1. i \in Closing
        BY <1>5 DEF Closing, ElectionInv, ElectionOK, ReleasesWhenStopping
    <2> QED
        BY <1>1, <1>5, <2>1 DEF Release, redisVars, Untouched, Lease!GiveBack, Closing
<1> QED
    BY <1>2, <1>3, <1>4, <1>5

\* A reply.  With nothing late, one that says yes came in this interval.
LEMMA ReceiveLeases ==
    ASSUME ElectionInv, NEW i \in Instances, Receive(i)
    PROVE  Untouched \/ Lease!Lead(i) \/ Lease!StepDown(i)
<1> USE DEF ElectionInv
<1>1. UNCHANGED <<owner, ttl>>
    BY DEF Receive, redisVars
<1>2. CASE Acquired(i)
    <2>1. Leaders' = Leaders \cup {i} /\ Closing' = Closing
        BY <1>2 DEF Acquired, Leaders, Closing, TypeOK
    <2>2. Quiet => owner = i
        BY <1>2 DEF Acquired, Replied, ElectionFits, Fits, CallFits
    <2> QED
        BY <1>1, <2>1, <2>2 DEF Lease!Lead, Closing, Quiet
<1>3. CASE NotAcquired(i) \/ Renewed(i)
    <2>1. Leaders' = Leaders /\ Closing' = Closing
        BY <1>3 DEF NotAcquired, Renewed, Leaders, Closing, TypeOK
    <2> QED
        BY <1>1, <2>1 DEF Untouched
<1>4. CASE NotRenewed(i)
    <2>1. Leaders' \in {Leaders, Leaders \ {i}} /\ Closing' = Closing
        BY <1>4 DEF NotRenewed, Leaders, Closing, TypeOK
    <2> QED
        BY <1>1, <2>1 DEF Untouched, Lease!StepDown, Closing
<1>5. CASE Released(i)
    <2>1. calls[i] \in Seq(Calls) /\ calls[i] # <<>> /\ calls[i][1].command = "release"
        BY <1>5 DEF Released, Replied, TypeOK
    <2>2. 1 \in DOMAIN calls[i]
        BY <2>1
    <2>3. i \in Closing
        BY <2>1, <2>2 DEF Closing, ElectionOK, ReleasesWhenStopping
    <2>4. Leaders' = Leaders \ {i} /\ Closing' = Closing
        BY <1>5, <2>3 DEF Released, Leaders, Closing, TypeOK
    <2> QED
        BY <1>1, <2>4 DEF Lease!StepDown, Closing
<1> QED
    BY <1>2, <1>3, <1>4, <1>5 DEF Receive

LEMMA IntervalLeases ==
    ASSUME ElectionInv, NextInterval
    PROVE  Untouched \/ Lease!Pass
<1> USE FailuresBelow DEF ElectionInv
<1>1. UNCHANGED <<Leaders, Closing>>
    BY DEF NextInterval, instanceVars, Leaders, Closing
<1>2. ttl \in Nat /\ (owner = Nobody <=> ttl = 0)
    BY DEF TypeOK, ElectionOK, KeyOK
<1>3. CASE ttl = 0
    BY <1>1, <1>2, <1>3 DEF NextInterval, Untouched
<1>4. CASE ttl # 0
    <2>1. ttl' = ttl - 1 /\ owner' = IF ttl = 1 THEN Nobody ELSE owner
        BY <1>2, <1>4 DEF NextInterval
    <2>2. Quiet => Leaders \subseteq {owner}
        <3>1. Quiet => IntervalOver
            BY DEF NextInterval, Quiet
        <3> QED
            BY <3>1, LeadersOwn
    <2> QED
        BY <1>1, <1>2, <1>4, <2>1, <2>2 DEF Lease!Pass, Closing, Quiet
<1> QED
    BY <1>3, <1>4

\* Every step is one of the lease, or one it does not see.
LEMMA LeaseStep ==
    ElectionInv /\ [Next]_vars => [Lease!LeaseNext]_(Lease!leaseVars)
<1> SUFFICES ASSUME ElectionInv, [Next]_vars
             PROVE  Lease!LeaseNext \/ UNCHANGED Lease!leaseVars
    OBVIOUS
<1>1. faults' = faults
    BY DEF vars, Next, Start, Tick, Stop, Execute, CallFails, Receive, StartServices, Crash,
           RedisForgets, NextInterval
<1>2. Untouched => UNCHANGED Lease!leaseVars
    BY <1>1 DEF Untouched, Lease!leaseVars, Closing
<1>3. ASSUME NEW i \in Instances,
             \/ Lease!Take(i) \/ Lease!Prolong(i) \/ Lease!GiveBack(i)
             \/ Lease!Lead(i) \/ Lease!StepDown(i) \/ Lease!Close(i) \/ Lease!Die(i)
      PROVE  Lease!LeaseNext
    BY <1>1, <1>3 DEF Lease!LeaseNext
<1>4. CASE RedisForgets
    BY <1>1, <1>4 DEF RedisForgets, instanceVars, Leaders, Lease!LeaseNext, Lease!Forget
<1>5. CASE NextInterval
    BY <1>1, <1>2, <1>5, IntervalLeases DEF Lease!LeaseNext
<1>6. CASE UNCHANGED vars
    BY <1>2, <1>6 DEF vars, redisVars, instanceVars, Untouched, Leaders, Closing
<1> QED
    BY <1>2, <1>3, <1>4, <1>5, <1>6, ProcessLeases, ExecuteLeases, ReceiveLeases DEF Next

\* The election is a lease for any number of instances, commands and crashes:
\* the key passes from hand to hand only by expiry, a release or the end of
\* its owner, and with nothing late nobody leads beyond an interval whose key
\* it does not own, if an instance gives up no later than its key expires.
THEOREM ElectionRefinesLease ==
    ASSUME MaxFailures <= TTL
    PROVE  Spec => ImplementsLease
<1>1. Init => ElectionInv /\ Lease!LeaseInit
    <2> SUFFICES ASSUME Init PROVE ElectionInv /\ Lease!LeaseInit
        OBVIOUS
    <2>1. Leaders = {} /\ Closing = {}
        BY DEF Init, Leaders, Closing
    <2>2. Lease!LeaseInit
        BY <2>1 DEF Init, Lease!LeaseInit, Closing
    <2> QED
        BY <2>2, InitType, InitElection, InitFits DEF ElectionInv
<1>2. ElectionInv /\ [Next]_vars => ElectionInv'
    BY FitsStep
<1>3. ElectionInv /\ [Next]_vars => [Lease!LeaseNext]_(Lease!leaseVars)
    BY LeaseStep
<1> QED
    BY <1>1, <1>2, <1>3, PTL DEF Spec, ImplementsLease, Lease!LeaseSpec

-----------------------------------------------------------------------------
(***************************************************************************)
(* Retries.  What a worker holds of a row was read before: the row is      *)
(* still there, with the number that was read; a row that is being sent is *)
(* pending, and one worker's own.                                          *)
(***************************************************************************)
AlertPhases == {"alerts", "claimed", "sending"}

Waiting(w) == IF work[w].phase \in AlertPhases THEN work[w].batch ELSE {}

Held(w) == IF work[w].phase \in {"claimed", "sending"} THEN {work[w].item} ELSE {}

Refers(item) == item.row \in Rows /\ attempts[item.row].number = item.number

Sending(w, r) == work[w].phase = "sending" /\ work[w].item.row = r

ItemsRefer ==
    /\ \A w \in Workers : \A item \in Waiting(w) \cup Held(w) : Refers(item)
    /\ \A w \in Workers : \A r \in Rows :
          Sending(w, r) =>
              attempts[r].status = "pending" /\ \A v \in Workers : Sending(v, r) => v = w
    /\ \A c \in Callers : work[c].phase \in {"idle", "sending", "calling"} /\ Waiting(c) = {}

RowsFit ==
    \A r \in Rows :
        /\ attempts[r].alert \in sent
        /\ attempts[r].retry # "never" => attempts[r].status = "failed"

(***************************************************************************)
(* Without overlaps and users, all that is due, batched, claimed or being  *)
(* sent of an alert is its last row, in one hand: the next attempt is      *)
(* appended to the chain and to nothing else.                              *)
(***************************************************************************)
Regular == trouble \subseteq {"demote", "target", "db", "crash"}

Latest(r) == \A s \in Rows : s > r => attempts[s].alert # attempts[r].alert

Retriable(r) ==
    Latest(r) /\ attempts[r].status = "failed" /\ attempts[r].number <= MaxRetries

Chained(r) ==
    /\ attempts[r].number <= MaxRetries + 1
    /\ attempts[r].number = Cardinality({s \in 1 .. r : attempts[s].alert = attempts[r].alert})

OnePoll == \A p, q \in Polls : work[p] # Idle /\ work[q] # Idle => p = q

LastInHand ==
    /\ \A r \in Rows : attempts[r].retry # "never" => Retriable(r)
    /\ \A w \in Workers : \A item \in Waiting(w) : Retriable(item.row)
    /\ \A w \in Workers : \A item \in Held(w) : Latest(item.row)
    /\ \A p \in Polls :
          work[p].phase = "claimed" =>
              /\ Retriable(work[p].item.row)
              /\ attempts[work[p].item.row].retry = "never"
              /\ work[p].item \notin work[p].batch

Chain == OnePoll /\ LastInHand /\ \A r \in Rows : Chained(r)

OneChain == Regular => Chain

DeliveryInv ==
    DeliveryTypeOK /\ ItemsRefer /\ RowsFit /\ OneChain /\ NoDeliveryForgotten

-----------------------------------------------------------------------------
(***************************************************************************)
(* Rows, items and tasks.                                                  *)
(***************************************************************************)
LEMMA PollsAndCallers ==
    /\ \A p \in Polls : p \in Workers /\ p \notin Callers
    /\ \A c \in Callers : c \in Workers /\ c \notin Polls
    /\ \A w \in Workers : w \in Polls \/ w \in Callers
BY DeliveryRetryAssumption DEF Workers

LEMMA TaskShape ==
    ASSUME NEW task \in Work
    PROVE  /\ task.phase \in {"idle", "alerts", "claimed", "sending", "query", "hooks", "calling"}
           /\ task.phase = "idle" <=> task = Idle
           /\ task.phase \in AlertPhases => task.batch \in SUBSET AttemptItem
           /\ task.phase \in {"claimed", "sending"} => task.item \in AttemptItem
           /\ task.phase \in {"hooks", "calling"} => task.batch \in SUBSET HookItem
           /\ task.phase = "calling" => task.item \in HookItem
BY DEF Work, Idle, AlertPhases

LEMMA WorkShape ==
    ASSUME DeliveryTypeOK, NEW w \in Workers
    PROVE  /\ work[w] \in Work
           /\ Waiting(w) \in SUBSET AttemptItem
           /\ Held(w) \in SUBSET AttemptItem
<1>1. work[w] \in Work
    BY DEF DeliveryTypeOK
<1> QED
    BY <1>1, TaskShape DEF Waiting, Held

LEMMA RowShape ==
    ASSUME DeliveryTypeOK, NEW r \in Rows
    PROVE  /\ r \in Nat \ {0} /\ r <= Len(attempts)
           /\ attempts[r] \in Row
           /\ attempts[r].alert \in Alerts /\ attempts[r].number \in Nat \ {0}
           /\ attempts[r].status \in {"pending", "failed", "success"}
           /\ attempts[r].retry \in {"never", "later", "due"}
<1>1. attempts[r] \in Row /\ r \in Nat \ {0} /\ r <= Len(attempts)
    BY DEF DeliveryTypeOK, Rows
<1> QED
    BY <1>1 DEF Row

LEMMA DoSets ==
    ASSUME DeliveryTypeOK, NEW w \in Workers, NEW task, Do(w, task)
    PROVE  /\ work'[w] = task /\ \A v \in Workers \ {w} : work'[v] = work[v]
           /\ task \in Work => work' \in [Workers -> Work]
BY DEF Do, DeliveryTypeOK

LEMMA RowSets ==
    ASSUME DeliveryTypeOK, NEW r \in Rows, NEW row \in Row, attempts' = [attempts EXCEPT ![r] = row]
    PROVE  /\ attempts' \in Seq(Row) /\ Rows' = Rows
           /\ attempts'[r] = row /\ \A s \in Rows \ {r} : attempts'[s] = attempts[s]
BY DEF DeliveryTypeOK, Rows

LEMMA RowsMapped ==
    ASSUME DeliveryTypeOK, attempts' = [r \in Rows |-> attempts'[r]],
           \A r \in Rows : attempts'[r] \in Row
    PROVE  attempts' \in Seq(Row) /\ Rows' = Rows
BY DEF DeliveryTypeOK, Rows

\* trackDelivery's row comes last, and the worker sends it.
Sent(n, number, rest) ==
    [phase |-> "sending", batch |-> rest, item |-> [row |-> n, number |-> number]]

\* The row n is added, and nothing else of the tables changes.
Created(w, a, number, rest, n) ==
    /\ attempts' \in Seq(Row) /\ work' \in [Workers -> Work]
    /\ n \in Nat \ {0} /\ n = Len(attempts) + 1
    /\ n \notin Rows /\ Rows' = Rows \cup {n} /\ \A r \in Rows : r < n
    /\ attempts'[n].alert = a /\ attempts'[n].number = number
    /\ attempts'[n].status = "pending" /\ attempts'[n].retry = "never"
    /\ \A r \in Rows : attempts'[r] = attempts[r]
    /\ work'[w].phase = "sending" /\ work'[w].item.row = n
    /\ Waiting(w)' = rest /\ Held(w)' = {[row |-> n, number |-> number]}
    /\ \A v \in Workers \ {w} : work'[v] = work[v]

LEMMA CreateSets ==
    ASSUME DeliveryTypeOK, NEW w \in Workers, NEW a \in Alerts, NEW number \in Nat \ {0},
           NEW rest \in SUBSET AttemptItem, CreateAttempt(w, a, number, rest)
    PROVE  \E n : Created(w, a, number, rest, n)
<1> DEFINE row == PendingRow(a, number)
<1>0. PICK n : n = Len(attempts) + 1
    OBVIOUS
<1>1. row \in Row /\ row.alert = a /\ row.number = number
      /\ row.status = "pending" /\ row.retry = "never"
    BY DEF PendingRow, Row
<1>2. attempts' = Append(attempts, row) /\ Do(w, Sent(n, number, rest))
    BY <1>0 DEF CreateAttempt, Sent
<1> HIDE DEF row
<1>3. /\ attempts' \in Seq(Row) /\ n \in Nat \ {0} /\ n \notin Rows
      /\ Rows' = Rows \cup {n} /\ \A r \in Rows : r < n
      /\ attempts'[n] = row /\ \A r \in Rows : attempts'[r] = attempts[r]
    BY <1>0, <1>1, <1>2 DEF DeliveryTypeOK, Rows
<1>4. Sent(n, number, rest) \in Work
    BY <1>3 DEF Sent, Work, AttemptItem
<1>5. work' \in [Workers -> Work] /\ work'[w] = Sent(n, number, rest)
      /\ \A v \in Workers \ {w} : work'[v] = work[v]
    BY <1>2, <1>4, DoSets
<1>6. work'[w].phase = "sending" /\ work'[w].item.row = n
      /\ Waiting(w)' = rest /\ Held(w)' = {[row |-> n, number |-> number]}
    BY <1>5 DEF Sent, Waiting, Held, AlertPhases
<1> QED
    BY <1>0, <1>1, <1>3, <1>5, <1>6 DEF Created

LEMMA RestShape ==
    ASSUME NEW w \in Workers, NEW batch \in SUBSET AttemptItem
    PROVE  /\ Rest(w, batch) \in Work
           /\ Rest(w, batch).phase \in {"idle", "alerts", "query"}
           /\ Rest(w, batch).phase = "alerts" => w \in Polls /\ Rest(w, batch).batch = batch
           /\ w \in Callers => Rest(w, batch) = Idle
BY PollsAndCallers DEF Rest, Work, Idle

LEMMA RestHooksShape ==
    ASSUME NEW w \in Workers, NEW batch \in SUBSET HookItem
    PROVE  /\ RestHooks(w, batch) \in Work
           /\ RestHooks(w, batch).phase \in {"idle", "hooks"}
           /\ w \in Callers => RestHooks(w, batch) = Idle
BY PollsAndCallers DEF RestHooks, Work, Idle

LEMMA BackoffShape ==
    ASSUME NEW n \in Nat
    PROVE  /\ Backoff(n) \in {"never", "later", "due"}
           /\ Backoff(n) # "never" <=> n <= MaxRetries
BY DeliveryRetryAssumption DEF Backoff

LEMMA DeliveryTypeInit == DeliveryInit => DeliveryTypeOK
<1> SUFFICES ASSUME DeliveryInit PROVE DeliveryTypeOK
    OBVIOUS
<1>1. attempts \in Seq(Row)
    BY DEF DeliveryInit
<1>2. hooks \in [Hooks -> HookRow]
    BY DEF DeliveryInit, HookRow
<1>3. work \in [Workers -> Work]
    BY DEF DeliveryInit, Work
<1> QED
    BY <1>1, <1>2, <1>3, DeliveryRetryAssumption DEF DeliveryInit, DeliveryTypeOK

-----------------------------------------------------------------------------
(***************************************************************************)
(* What the actions write.  Only the alerts' side of a step is described   *)
(* in detail; HooksMove stands for all that leaves that side alone.        *)
(***************************************************************************)
SucceededRow(r) == [attempts[r] EXCEPT !.status = "success"]
FailedRow(r) == [attempts[r] EXCEPT !.status = "failed", !.retry = Backoff(attempts[r].number)]
ClaimedRow(r) == [attempts[r] EXCEPT !.retry = "never"]
DueRow(r) == [attempts[r] EXCEPT !.retry = "due"]

LEMMA RowChanges ==
    ASSUME DeliveryTypeOK, NEW r \in Rows
    PROVE  /\ \A row \in {SucceededRow(r), FailedRow(r), ClaimedRow(r), DueRow(r)} :
                 row \in Row /\ row.alert = attempts[r].alert /\ row.number = attempts[r].number
           /\ SucceededRow(r).status = "success" /\ SucceededRow(r).retry = attempts[r].retry
           /\ FailedRow(r).status = "failed"
           /\ FailedRow(r).retry # "never" <=> attempts[r].number <= MaxRetries
           /\ ClaimedRow(r).status = attempts[r].status /\ ClaimedRow(r).retry = "never"
           /\ DueRow(r).status = attempts[r].status /\ DueRow(r).retry = "due"
<1> DEFINE row == attempts[r]
<1>1. row \in Row /\ row.number \in Nat
    BY RowShape
<1>2. Backoff(row.number) \in {"never", "later", "due"}
      /\ (Backoff(row.number) # "never" <=> row.number <= MaxRetries)
    BY <1>1, BackoffShape
<1> QED
    BY <1>1, <1>2 DEF SucceededRow, FailedRow, ClaimedRow, DueRow, Row

\* A worker sends the attempt it holds: the row is as it was created.
LEMMA SendingShape ==
    ASSUME DeliveryTypeOK, ItemsRefer, NEW w \in Workers, work[w].phase = "sending"
    PROVE  LET r == work[w].item.row IN
           /\ r \in Rows /\ work[w].item.number = attempts[r].number
           /\ attempts[r].status = "pending" /\ Sending(w, r)
           /\ work[w].item \in AttemptItem /\ Held(w) = {work[w].item}
           /\ work[w].batch \in SUBSET AttemptItem /\ Waiting(w) = work[w].batch
<1>1. Held(w) = {work[w].item} /\ Waiting(w) = work[w].batch
    BY DEF Held, Waiting, AlertPhases
<1>2. Refers(work[w].item)
    BY <1>1 DEF ItemsRefer
<1>3. Sending(w, work[w].item.row)
    BY DEF Sending
<1> QED
    BY <1>1, <1>2, <1>3, WorkShape DEF Refers, ItemsRefer

LEMMA ClaimedShape ==
    ASSUME DeliveryTypeOK, ItemsRefer, NEW p \in Polls, work[p].phase = "claimed"
    PROVE  LET r == work[p].item.row IN
           /\ r \in Rows /\ work[p].item.number = attempts[r].number
           /\ work[p].item \in AttemptItem /\ Held(p) = {work[p].item}
           /\ work[p].batch \in SUBSET AttemptItem /\ Waiting(p) = work[p].batch
<1>1. Held(p) = {work[p].item} /\ Waiting(p) = work[p].batch
    BY DEF Held, Waiting, AlertPhases
<1>2. Refers(work[p].item)
    BY <1>1, PollsAndCallers DEF ItemsRefer
<1> QED
    BY <1>1, <1>2, WorkShape, PollsAndCallers DEF Refers

LEMMA FinishCases ==
    ASSUME DeliveryTypeOK, ItemsRefer, NEW w \in Workers, FinishAttempt(w)
    PROVE  LET r == work[w].item.row IN
           /\ work[w].phase = "sending" /\ r \in Rows
           /\ Do(w, Rest(w, work[w].batch))
           /\ \/ attempts' = [attempts EXCEPT ![r] = SucceededRow(r)]
              \/ attempts' = [attempts EXCEPT ![r] = FailedRow(r)]
              \/ "db" \in trouble /\ attempts' = attempts
<1> DEFINE r == work[w].item.row
<1>1. /\ work[w].phase = "sending" /\ Do(w, Rest(w, work[w].batch))
      /\ Outcome(r, work[w].item.number)
    BY DEF FinishAttempt
<1>2. r \in Rows /\ work[w].item.number = attempts[r].number
    BY <1>1, SendingShape
<1>3. \/ attempts' = [attempts EXCEPT ![r] = SucceededRow(r)]
      \/ attempts' = [attempts EXCEPT ![r] = FailedRow(r)]
      \/ "db" \in trouble /\ attempts' = attempts
    BY <1>1, <1>2 DEF Outcome, SucceededRow, FailedRow, Fault, DeliveryTypeOK, Rows
<1> QED
    BY <1>1, <1>2, <1>3

ClaimedTask(item, rest) == [phase |-> "claimed", batch |-> rest, item |-> item]

LEMMA ClaimCases ==
    ASSUME DeliveryTypeOK, ItemsRefer, NEW p \in Polls, Claim(p)
    PROVE  /\ work[p].phase = "alerts" /\ Waiting(p) = work[p].batch
           /\ \E item \in work[p].batch :
                 /\ item \in AttemptItem /\ Refers(item)
                 /\ work[p].batch \ {item} \in SUBSET AttemptItem
                 /\ \/ /\ attempts' = [attempts EXCEPT ![item.row] = ClaimedRow(item.row)]
                       /\ Do(p, ClaimedTask(item, work[p].batch \ {item}))
                    \/ /\ "db" \in trouble
                       /\ attempts' \in {attempts, [attempts EXCEPT ![item.row] = ClaimedRow(item.row)]}
                       /\ Do(p, Rest(p, work[p].batch \ {item}))
<1>1. work[p].phase = "alerts" /\ Waiting(p) = work[p].batch
    BY DEF Claim, Waiting, AlertPhases
<1>2. PICK item \in work[p].batch :
         LET rest == work[p].batch \ {item} IN
          \/ Claimed(item.row) /\ Do(p, [phase |-> "claimed", batch |-> rest, item |-> item])
          \/ Fault("db") /\ (Claimed(item.row) \/ UNCHANGED attempts) /\ Do(p, Rest(p, rest))
    BY DEF Claim
<1>3. item \in AttemptItem /\ Refers(item) /\ work[p].batch \in SUBSET AttemptItem
    BY <1>1, WorkShape, PollsAndCallers DEF ItemsRefer
<1>4. Claimed(item.row) => attempts' = [attempts EXCEPT ![item.row] = ClaimedRow(item.row)]
    BY <1>3 DEF Claimed, ClaimedRow, Refers, Rows, DeliveryTypeOK
<1> QED
    BY <1>1, <1>2, <1>3, <1>4 DEF ClaimedTask, Fault

LEMMA RetryCases ==
    ASSUME DeliveryTypeOK, ItemsRefer, NEW p \in Polls, Retry(p)
    PROVE  LET item == work[p].item IN
           /\ work[p].phase = "claimed"
           /\ \/ CreateAttempt(p, attempts[item.row].alert, item.number + 1, work[p].batch)
              \/ /\ ~channel \/ "db" \in trouble
                 /\ attempts' = attempts /\ Do(p, Rest(p, work[p].batch))
BY DEF Retry, Fault

LEMMA StartCases ==
    ASSUME DeliveryTypeOK, NEW p \in Polls, StartPoll(p)
    PROVE  /\ work[p] = Idle /\ attempts' = attempts
           /\ "overlap" \in trouble \/ \A q \in Polls : work[q] = Idle
           /\ \E batch \in SUBSET AttemptItem :
                 /\ Do(p, [phase |-> "alerts", batch |-> batch])
                 /\ \A item \in batch :
                       /\ item.row \in Rows /\ Due(item.row)
                       /\ item.number = attempts[item.row].number
<1> DEFINE batch == {[row |-> r, number |-> attempts[r].number] : r \in {s \in Rows : Due(s)}}
<1>1. \A r \in Rows : [row |-> r, number |-> attempts[r].number] \in AttemptItem
    BY RowShape DEF AttemptItem
<1>2. batch \in SUBSET AttemptItem
    BY <1>1
<1>3. \A item \in batch : /\ item.row \in Rows /\ Due(item.row)
                          /\ item.number = attempts[item.row].number
    OBVIOUS
<1>4. /\ work[p] = Idle /\ attempts' = attempts
      /\ "overlap" \in trouble \/ \A q \in Polls : work[q] = Idle
      /\ Do(p, [phase |-> "alerts", batch |-> batch])
    BY DEF StartPoll, tables, Extra, Fault
<1> HIDE DEF batch
<1> QED
    BY <1>2, <1>3, <1>4

\* The side of the webhooks, and whatever touches neither rows nor tasks.
HooksMove ==
    \/ \E w \in Workers : FinishHook(w)
    \/ \E c \in Callers, h \in Hooks : FireHook(c, h)
    \/ \E p \in Polls : QueryHooks(p) \/ ClaimHook(p)
    \/ BecomesDue /\ UNCHANGED attempts
    \/ Demote \/ Lead \/ TargetChanges
    \/ UNCHANGED deliveryVars

AttemptBecomesDue(r) ==
    /\ attempts[r].retry = "later"
    /\ attempts' = [attempts EXCEPT ![r] = DueRow(r)]
    /\ UNCHANGED <<hooks, world, work, trouble, extras>>

LEMMA StepCases ==
    ASSUME DeliveryTypeOK, [DeliveryNext]_deliveryVars
    PROVE  \/ \E c \in Callers, a \in Alerts : SendAlert(c, a)
           \/ \E c \in Callers, r \in Rows : RetryDelivery(c, r)
           \/ \E w \in Workers : FinishAttempt(w)
           \/ \E p \in Polls : StartPoll(p) \/ Claim(p) \/ Retry(p)
           \/ \E r \in Rows : AttemptBecomesDue(r)
           \/ RetryAllForChannel
           \/ DeliveryCrash
           \/ HooksMove
<1>1. CASE BecomesDue
    <2>1. CASE UNCHANGED attempts
        BY <1>1, <2>1 DEF HooksMove
    <2>2. CASE attempts' # attempts
        <3>1. PICK r \in Rows : /\ attempts[r].retry = "later"
                                /\ attempts' = [attempts EXCEPT ![r].retry = "due"]
                                /\ UNCHANGED hooks
            BY <1>1, <2>2 DEF BecomesDue
        <3>2. attempts' = [attempts EXCEPT ![r] = DueRow(r)]
            BY <3>1 DEF DueRow, Rows, DeliveryTypeOK
        <3> QED
            BY <1>1, <3>1, <3>2 DEF AttemptBecomesDue, BecomesDue
    <2> QED
        BY <2>1, <2>2
<1>2. CASE UNCHANGED deliveryVars
    BY <1>2 DEF HooksMove
<1>3. CASE DeliveryNext /\ ~BecomesDue
    BY <1>3, PollsAndCallers DEF DeliveryNext, Step, PollStep, HooksMove
<1> QED
    BY <1>1, <1>2, <1>3

-----------------------------------------------------------------------------
(***************************************************************************)
(* Types.                                                                  *)
(***************************************************************************)
HookPhases == {"idle", "query", "hooks", "calling"}

LEMMA HookShape ==
    ASSUME DeliveryTypeOK, NEW h \in Hooks
    PROVE  /\ hooks[h] \in HookRow /\ hooks[h].number \in Nat
           /\ [hook |-> h, number |-> hooks[h].number, enabled |-> enabled] \in HookItem
<1>1. hooks[h] \in HookRow /\ enabled \in BOOLEAN
    BY DEF DeliveryTypeOK
<1> QED
    BY <1>1 DEF HookRow, HookItem

LEMMA FinishHookType ==
    ASSUME DeliveryTypeOK, NEW w \in Workers, FinishHook(w)
    PROVE  /\ hooks' \in [Hooks -> HookRow]
           /\ \E batch \in SUBSET HookItem : Do(w, RestHooks(w, batch))
           /\ work[w].phase = "calling"
           /\ UNCHANGED <<attempts, world, trouble, extras>>
<1>1. work[w].phase = "calling" /\ Do(w, RestHooks(w, work[w].batch))
      /\ UNCHANGED <<attempts, world, trouble, extras>>
    BY DEF FinishHook
<1>2. work[w].batch \in SUBSET HookItem /\ work[w].item \in HookItem
    BY <1>1, WorkShape, TaskShape
<1> DEFINE h == work[w].item.hook
           n == work[w].item.number + 1
<1>3. h \in Hooks /\ n \in Nat /\ hooks[h] \in HookRow
    BY <1>2, HookShape DEF HookItem
<1>4. \A status \in {"success", "dead_letter"} :
         [hooks EXCEPT ![h].status = status, ![h].number = n] \in [Hooks -> HookRow]
    BY <1>3 DEF HookRow, DeliveryTypeOK
<1>5. [hooks EXCEPT ![h] = [status |-> "failed", number |-> n, retry |-> Backoff(n)]]
        \in [Hooks -> HookRow]
    BY <1>3, BackoffShape DEF HookRow, DeliveryTypeOK
<1>6. hooks' \in [Hooks -> HookRow]
    BY <1>4, <1>5 DEF FinishHook, DeliveryTypeOK
<1> QED
    BY <1>1, <1>2, <1>6

LEMMA FireHookType ==
    ASSUME DeliveryTypeOK, NEW c \in Callers, NEW h \in Hooks, FireHook(c, h)
    PROVE  /\ hooks' \in [Hooks -> HookRow]
           /\ \E task \in Work : task.phase = "calling" /\ Do(c, task)
           /\ work[c] = Idle
           /\ UNCHANGED <<attempts, world, trouble, extras>>
<1> DEFINE task == [phase |-> "calling", batch |-> {},
                    item |-> [hook |-> h, number |-> 0, enabled |-> TRUE]]
<1>1. task \in Work
    BY DEF Work, HookItem
<1>2. hooks' \in [Hooks -> HookRow]
    BY DEF FireHook, HookRow, DeliveryTypeOK
<1> QED
    BY <1>1, <1>2 DEF FireHook

LEMMA QueryHooksType ==
    ASSUME DeliveryTypeOK, NEW p \in Polls, QueryHooks(p)
    PROVE  /\ hooks' \in [Hooks -> HookRow]
           /\ \E batch \in SUBSET HookItem : Do(p, RestHooks(p, batch))
           /\ work[p].phase = "query"
           /\ UNCHANGED <<tables, world, trouble, extras>>
<1>1. HookBatch \in SUBSET HookItem
    BY HookShape DEF HookBatch
<1>2. RestHooks(p, {}) = Idle
    BY DEF RestHooks
<1>3. Do(p, RestHooks(p, HookBatch)) \/ Do(p, RestHooks(p, {}))
    BY <1>2 DEF QueryHooks
<1>4. hooks' = hooks
    BY DEF QueryHooks, tables
<1> QED
    BY <1>1, <1>3, <1>4 DEF QueryHooks, DeliveryTypeOK

LEMMA ClaimHookType ==
    ASSUME DeliveryTypeOK, NEW p \in Polls, ClaimHook(p)
    PROVE  /\ hooks' \in [Hooks -> HookRow]
           /\ \/ \E batch \in SUBSET HookItem : Do(p, RestHooks(p, batch))
              \/ \E task \in Work : task.phase = "calling" /\ Do(p, task)
           /\ work[p].phase = "hooks"
           /\ UNCHANGED <<attempts, world, trouble, extras>>
<1>1. work[p].phase = "hooks" /\ UNCHANGED <<attempts, world, trouble, extras>>
    BY DEF ClaimHook
<1>2. PICK item \in work[p].batch :
         LET rest == work[p].batch \ {item}
             claimed == [hooks EXCEPT ![item.hook].retry = "never"]
         IN  \/ /\ hooks' = claimed
                /\ Do(p, [phase |-> "calling", batch |-> rest, item |-> item])
             \/ /\ hooks' = [claimed EXCEPT ![item.hook].status = "dead_letter"]
                /\ Do(p, RestHooks(p, rest))
             \/ hooks' \in {hooks, claimed} /\ Do(p, RestHooks(p, rest))
    BY DEF ClaimHook
<1>3. work[p].batch \in SUBSET HookItem
    BY <1>1, WorkShape, TaskShape, PollsAndCallers
<1>4. item \in HookItem /\ item.hook \in Hooks /\ hooks[item.hook] \in HookRow
    BY <1>3, HookShape DEF HookItem
<1> DEFINE rest == work[p].batch \ {item}
           claimed == [hooks EXCEPT ![item.hook].retry = "never"]
<1>5. claimed \in [Hooks -> HookRow]
    BY <1>4 DEF HookRow, DeliveryTypeOK
<1>6. [claimed EXCEPT ![item.hook].status = "dead_letter"] \in [Hooks -> HookRow]
    BY <1>4, <1>5 DEF HookRow
<1>7. [phase |-> "calling", batch |-> rest, item |-> item] \in Work
    BY <1>3, <1>4 DEF Work
<1>8. hooks' \in [Hooks -> HookRow]
    BY <1>2, <1>5, <1>6 DEF DeliveryTypeOK
<1> QED
    BY <1>1, <1>2, <1>3, <1>7, <1>8

\* On the alerts' side nothing changes.
LEMMA HooksTasks ==
    ASSUME DeliveryTypeOK, HooksMove
    PROVE  /\ attempts' = attempts /\ sent' = sent /\ trouble' = trouble
           /\ channel' => channel
           /\ hooks' \in [Hooks -> HookRow] /\ work' \in [Workers -> Work]
           /\ {channel', enabled', leading'} \subseteq BOOLEAN /\ extras' \in 0 .. MaxExtras
           /\ \A w \in Workers :
                 \/ work'[w] = work[w]
                 \/ /\ work[w].phase \in HookPhases
                    /\ work'[w].phase \in {"idle", "hooks", "calling"}
                    /\ w \in Callers => work'[w].phase \in {"idle", "calling"}
                    /\ w \in Polls => work[w] # Idle
<1> USE PollsAndCallers
<1>1. ASSUME NEW w \in Workers, NEW batch \in SUBSET HookItem, Do(w, RestHooks(w, batch)),
             work[w].phase \in HookPhases \ {"idle"}
      PROVE  /\ work' \in [Workers -> Work]
             /\ \A v \in Workers \ {w} : work'[v] = work[v]
             /\ work'[w].phase \in {"idle", "hooks"}
             /\ w \in Callers => work'[w].phase = "idle"
             /\ work[w] # Idle
    BY <1>1, DoSets, RestHooksShape DEF Idle
<1>2. CASE \E w \in Workers : FinishHook(w)
    BY <1>1, <1>2, FinishHookType DEF HookPhases, world, DeliveryTypeOK
<1>3. CASE \E c \in Callers, h \in Hooks : FireHook(c, h)
    <2>1. PICK c \in Callers, task \in Work :
             /\ hooks' \in [Hooks -> HookRow] /\ task.phase = "calling" /\ Do(c, task)
             /\ work[c] = Idle /\ UNCHANGED <<attempts, world, trouble, extras>>
        BY <1>3, FireHookType
    <2> QED
        BY <2>1, DoSets DEF HookPhases, world, DeliveryTypeOK, Idle
<1>4. CASE \E p \in Polls : QueryHooks(p) \/ ClaimHook(p)
    <2>1. PICK p \in Polls :
             /\ hooks' \in [Hooks -> HookRow]
             /\ \/ \E batch \in SUBSET HookItem : Do(p, RestHooks(p, batch))
                \/ \E task \in Work : task.phase = "calling" /\ Do(p, task)
             /\ work[p].phase \in {"query", "hooks"}
             /\ UNCHANGED <<attempts, world, trouble, extras>>
        BY <1>4, QueryHooksType, ClaimHookType DEF tables
    <2>2. CASE \E batch \in SUBSET HookItem : Do(p, RestHooks(p, batch))
        BY <1>1, <2>1, <2>2 DEF HookPhases, world, DeliveryTypeOK
    <2>3. CASE \E task \in Work : task.phase = "calling" /\ Do(p, task)
        BY <2>1, <2>3, DoSets DEF HookPhases, world, DeliveryTypeOK, Idle
    <2> QED
        BY <2>1, <2>2, <2>3
<1>5. CASE BecomesDue /\ UNCHANGED attempts
    <2>1. \A h \in Hooks : [hooks EXCEPT ![h].retry = "due"] \in [Hooks -> HookRow]
        BY HookShape DEF HookRow, DeliveryTypeOK
    <2> QED
        BY <1>5, <2>1 DEF BecomesDue, world, DeliveryTypeOK
<1>6. CASE Demote \/ Lead \/ TargetChanges
    <2>1. extras' \in 0 .. MaxExtras
        BY <1>6, DeliveryRetryAssumption DEF Demote, Lead, TargetChanges, Extra, DeliveryTypeOK
    <2>2. UNCHANGED <<attempts, hooks, sent, work, trouble>>
        BY <1>6 DEF Demote, Lead, TargetChanges, tables
    <2>3. channel \in BOOLEAN /\ enabled \in BOOLEAN /\ leading \in BOOLEAN
        BY DEF DeliveryTypeOK
    <2>4. channel' \in {FALSE, channel} /\ enabled' \in {~enabled, enabled}
          /\ leading' \in {TRUE, FALSE, leading}
        BY <1>6 DEF Demote, Lead, TargetChanges
    <2>5. channel' \in BOOLEAN /\ enabled' \in BOOLEAN /\ leading' \in BOOLEAN
        BY <2>3, <2>4
    <2>6. channel' => channel
        BY <2>4
    <2>7. \A w \in Workers : work'[w] = work[w]
        BY <2>2
    <2>8. hooks' \in [Hooks -> HookRow] /\ work' \in [Workers -> Work]
        BY <2>2 DEF DeliveryTypeOK
    <2>9. {channel', enabled', leading'} \subseteq BOOLEAN
        BY <2>5
    <2> QED
        BY <2>1, <2>2, <2>6, <2>7, <2>8, <2>9
<1>7. CASE UNCHANGED deliveryVars
    BY <1>7 DEF deliveryVars, tables, world, DeliveryTypeOK
<1> QED
    BY <1>2, <1>3, <1>4, <1>5, <1>6, <1>7 DEF HooksMove

LEMMA DeliveryTypeStep ==
    ASSUME DeliveryTypeOK, ItemsRefer, [DeliveryNext]_deliveryVars
    PROVE  DeliveryTypeOK' /\ trouble' = trouble
<1> USE PollsAndCallers
<1>1. ASSUME attempts' \in Seq(Row), work' \in [Workers -> Work],
             UNCHANGED <<hooks, channel, enabled, leading, trouble>>,
             sent' \subseteq Alerts, extras' \in 0 .. MaxExtras
      PROVE  DeliveryTypeOK' /\ trouble' = trouble
    BY <1>1 DEF DeliveryTypeOK
<1>2. ASSUME NEW r \in Rows, NEW row \in {SucceededRow(r), FailedRow(r), ClaimedRow(r), DueRow(r)},
             attempts' = [attempts EXCEPT ![r] = row]
      PROVE  attempts' \in Seq(Row)
    BY <1>2, RowChanges, RowSets
<1>3. attempts \in Seq(Row) /\ work \in [Workers -> Work] /\ sent \subseteq Alerts
      /\ extras \in 0 .. MaxExtras
    BY DEF DeliveryTypeOK
<1>4. ASSUME NEW f, Extra(f) PROVE extras' \in 0 .. MaxExtras
    BY <1>4, DeliveryRetryAssumption DEF Extra, DeliveryTypeOK
<1>5. CASE \E c \in Callers, a \in Alerts : SendAlert(c, a)
    <2>1. PICK c \in Callers, a \in Alerts : SendAlert(c, a)
        BY <1>5
    <2>2. CreateAttempt(c, a, 1, {})
        BY <2>1 DEF SendAlert
    <2>3. PICK n : Created(c, a, 1, {}, n)
        BY <2>2, CreateSets
    <2>4. attempts' \in Seq(Row) /\ work' \in [Workers -> Work]
        BY <2>3 DEF Created
    <2> QED
        BY <1>1, <1>3, <2>1, <2>4 DEF SendAlert
<1>6. CASE \E c \in Callers, r \in Rows : RetryDelivery(c, r)
    <2>1. PICK c \in Callers, r \in Rows : RetryDelivery(c, r)
        BY <1>6
    <2>2. attempts[r].alert \in Alerts /\ attempts[r].number + 1 \in Nat \ {0}
        BY RowShape
    <2>3. CreateAttempt(c, attempts[r].alert, attempts[r].number + 1, {})
        BY <2>1 DEF RetryDelivery
    <2>4. PICK n : Created(c, attempts[r].alert, attempts[r].number + 1, {}, n)
        BY <2>2, <2>3, CreateSets
    <2>5. attempts' \in Seq(Row) /\ work' \in [Workers -> Work]
        BY <2>4 DEF Created
    <2> QED
        BY <1>1, <1>3, <1>4, <2>1, <2>5 DEF RetryDelivery, world
<1>7. CASE \E w \in Workers : FinishAttempt(w)
    <2>1. PICK w \in Workers : FinishAttempt(w)
        BY <1>7
    <2>2. attempts' \in Seq(Row)
        BY <1>2, <1>3, <2>1, FinishCases
    <2>3. work' \in [Workers -> Work]
        BY <2>1, FinishCases, SendingShape, RestShape, DoSets
    <2> QED
        BY <1>1, <1>3, <2>1, <2>2, <2>3 DEF FinishAttempt, world
<1>8. CASE \E p \in Polls : StartPoll(p)
    <2>1. PICK p \in Polls : StartPoll(p)
        BY <1>8
    <2>2. PICK batch \in SUBSET AttemptItem : Do(p, [phase |-> "alerts", batch |-> batch])
        BY <2>1, StartCases
    <2>3. [phase |-> "alerts", batch |-> batch] \in Work
        BY DEF Work
    <2>4. work' \in [Workers -> Work]
        BY <2>2, <2>3, DoSets
    <2> QED
        BY <1>1, <1>3, <1>4, <2>1, <2>4 DEF StartPoll, tables, world
<1>9. CASE \E p \in Polls : Claim(p)
    <2>1. PICK p \in Polls : Claim(p)
        BY <1>9
    <2>2. PICK item \in work[p].batch :
             /\ item \in AttemptItem /\ item.row \in Rows
             /\ work[p].batch \ {item} \in SUBSET AttemptItem
             /\ attempts' \in {attempts, [attempts EXCEPT ![item.row] = ClaimedRow(item.row)]}
             /\ \/ Do(p, ClaimedTask(item, work[p].batch \ {item}))
                \/ Do(p, Rest(p, work[p].batch \ {item}))
        BY <2>1, ClaimCases DEF Refers
    <2>3. attempts' \in Seq(Row)
        BY <1>2, <1>3, <2>2
    <2>4. ClaimedTask(item, work[p].batch \ {item}) \in Work
        BY <2>2 DEF ClaimedTask, Work
    <2>5. work' \in [Workers -> Work]
        BY <2>2, <2>4, DoSets, RestShape
    <2> QED
        BY <1>1, <1>3, <2>1, <2>3, <2>5 DEF Claim, world
<1>10. CASE \E p \in Polls : Retry(p)
    <2>1. PICK p \in Polls : Retry(p)
        BY <1>10
    <2> DEFINE item == work[p].item
    <2>2. item.row \in Rows /\ item.number \in Nat /\ work[p].batch \in SUBSET AttemptItem
        BY <2>1, RetryCases, ClaimedShape DEF AttemptItem
    <2>3. attempts[item.row].alert \in Alerts
        BY <2>2, RowShape
    <2>4. attempts' \in Seq(Row) /\ work' \in [Workers -> Work]
        <3>1. CASE CreateAttempt(p, attempts[item.row].alert, item.number + 1, work[p].batch)
            BY <2>2, <2>3, <3>1, CreateSets DEF Created
        <3>2. CASE attempts' = attempts /\ Do(p, Rest(p, work[p].batch))
            BY <1>3, <2>2, <3>2, RestShape, DoSets
        <3> QED
            BY <2>1, <3>1, <3>2, RetryCases
    <2> QED
        BY <1>1, <1>3, <2>1, <2>4 DEF Retry, world
<1>11. CASE \E r \in Rows : AttemptBecomesDue(r)
    <2>1. attempts' \in Seq(Row)
        BY <1>2, <1>11 DEF AttemptBecomesDue
    <2> QED
        BY <1>1, <1>3, <1>11, <2>1 DEF AttemptBecomesDue, world
<1>12. CASE RetryAllForChannel
    <2>1. /\ attempts' = [r \in Rows |-> attempts'[r]]
          /\ \A r \in Rows : attempts'[r] \in {attempts[r], DueRow(r)}
        BY <1>12 DEF RetryAllForChannel, DueRow
    <2>2. attempts' \in Seq(Row)
        BY <2>1, RowChanges, RowShape, RowsMapped
    <2> QED
        BY <1>1, <1>3, <1>4, <1>12, <2>2 DEF RetryAllForChannel, world
<1>13. CASE DeliveryCrash
    <2>1. Idle \in Work
        BY DEF Work
    <2> QED
        BY <1>1, <1>3, <1>4, <1>13, <2>1 DEF DeliveryCrash, tables, world
<1>14. CASE HooksMove
    BY <1>3, <1>14, HooksTasks DEF DeliveryTypeOK
<1> QED
    BY <1>5, <1>6, <1>7, <1>8, <1>9, <1>10, <1>11, <1>12, <1>13, <1>14, StepCases

-----------------------------------------------------------------------------
(***************************************************************************)
(* What workers hold refers to the rows it was read from.                  *)
(***************************************************************************)
LEMMA SameTask ==
    ASSUME NEW v, work'[v] = work[v]
    PROVE  Waiting(v)' = Waiting(v) /\ Held(v)' = Held(v) /\ \A r : Sending(v, r)' <=> Sending(v, r)
BY DEF Waiting, Held, Sending

LEMMA RestTask ==
    ASSUME DeliveryTypeOK, NEW w \in Workers, NEW batch \in SUBSET AttemptItem,
           Do(w, Rest(w, batch))
    PROVE  /\ \A v \in Workers \ {w} : work'[v] = work[v]
           /\ Waiting(w)' \subseteq batch /\ Held(w)' = {}
           /\ work'[w].phase \in {"idle", "alerts", "query"}
           /\ w \in Callers => work'[w] = Idle /\ Waiting(w)' = {}
<1>1. work'[w] = Rest(w, batch) /\ \A v \in Workers \ {w} : work'[v] = work[v]
    BY DoSets
<1> QED
    BY <1>1, RestShape DEF Waiting, Held, AlertPhases, Idle

LEMMA HeldRow ==
    ASSUME ItemsRefer, NEW v \in Workers, NEW r, Sending(v, r)
    PROVE  r \in Rows /\ attempts[r].status = "pending"
           /\ \A u \in Workers : Sending(u, r) => u = v
<1>1. work[v].item \in Held(v) /\ work[v].item.row = r
    BY DEF Sending, Held
<1> QED
    BY <1>1 DEF ItemsRefer, Refers

\* One worker gets a new task; what it sends is a row that was just created.
LEMMA ReferStep ==
    ASSUME ItemsRefer, NEW w \in Workers,
           \A v \in Workers \ {w} : work'[v] = work[v],
           \A r \in Rows :
              /\ r \in Rows' /\ attempts'[r].number = attempts[r].number
              /\ attempts[r].status = "pending" =>
                    attempts'[r].status = "pending" \/ Sending(w, r),
           \A item \in Waiting(w)' \cup Held(w)' :
              item.row \in Rows' /\ attempts'[item.row].number = item.number,
           work'[w].phase = "sending" =>
              work'[w].item.row \notin Rows /\ attempts'[work'[w].item.row].status = "pending",
           w \in Callers => work'[w].phase \in {"idle", "sending", "calling"} /\ Waiting(w)' = {}
    PROVE  ItemsRefer'
<1>1. ASSUME NEW v \in Workers, NEW item \in Waiting(v)' \cup Held(v)' PROVE Refers(item)'
    <2>1. CASE v = w
        BY <1>1, <2>1 DEF Refers
    <2>2. CASE v # w
        <3>1. item \in Waiting(v) \cup Held(v)
            BY <1>1, <2>2, SameTask
        <3> QED
            BY <3>1 DEF ItemsRefer, Refers
    <2> QED
        BY <2>1, <2>2
<1>2. ASSUME NEW v \in Workers \ {w}, NEW r, Sending(v, r)'
      PROVE  Sending(v, r) /\ r \in Rows /\ attempts'[r].status = "pending"
    <2>1. Sending(v, r)
        BY <1>2, SameTask
    <2> QED
        BY <2>1, HeldRow
<1>3. ASSUME NEW r, Sending(w, r)' PROVE r \notin Rows /\ attempts'[r].status = "pending"
    BY <1>3 DEF Sending
<1>4. ASSUME NEW v \in Workers, NEW r \in Rows', Sending(v, r)'
      PROVE  attempts'[r].status = "pending" /\ \A u \in Workers : Sending(u, r)' => u = v
    <2>1. CASE v = w
        BY <1>2, <1>3, <1>4, <2>1
    <2>2. CASE v # w
        <3>1. Sending(v, r) /\ r \in Rows /\ attempts'[r].status = "pending"
            BY <1>2, <1>4, <2>2
        <3>2. \A u \in Workers : Sending(u, r)' => u # w /\ Sending(u, r)
            BY <1>2, <1>3, <3>1
        <3> QED
            BY <3>1, <3>2, HeldRow
    <2> QED
        BY <2>1, <2>2
<1>5. ASSUME NEW c \in Callers
      PROVE  work'[c].phase \in {"idle", "sending", "calling"} /\ Waiting(c)' = {}
    <2>1. CASE c = w
        BY <2>1
    <2>2. CASE c # w
        BY <2>2, SameTask, PollsAndCallers DEF ItemsRefer
    <2> QED
        BY <2>1, <2>2
<1> QED
    BY <1>1, <1>4, <1>5 DEF ItemsRefer

\* Nobody gets a new task on the alerts' side.
LEMMA ReferFrame ==
    ASSUME ItemsRefer,
           \A w \in Workers :
              /\ Waiting(w)' = Waiting(w) /\ Held(w)' = Held(w)
              /\ \A r : Sending(w, r)' <=> Sending(w, r),
           \A c \in Callers : work'[c].phase \in {"idle", "sending", "calling"},
           Rows' = Rows,
           \A r \in Rows :
              /\ attempts'[r].number = attempts[r].number
              /\ attempts[r].status = "pending" => attempts'[r].status = "pending"
    PROVE  ItemsRefer'
<1>1. \A w \in Workers : \A item \in Waiting(w)' \cup Held(w)' : Refers(item)'
    BY DEF ItemsRefer, Refers
<1>2. \A w \in Workers : \A r \in Rows' :
          Sending(w, r)' =>
              attempts'[r].status = "pending" /\ \A v \in Workers : Sending(v, r)' => v = w
    BY DEF ItemsRefer
<1>3. \A c \in Callers : Waiting(c)' = {}
    BY PollsAndCallers DEF ItemsRefer
<1> QED
    BY <1>1, <1>2, <1>3 DEF ItemsRefer

\* The tasks that concern alerts are as they were.
LEMMA HooksFrame ==
    ASSUME DeliveryTypeOK, HooksMove
    PROVE  \A w \in Workers :
              /\ Waiting(w)' = Waiting(w) /\ Held(w)' = Held(w)
              /\ \A r : Sending(w, r)' <=> Sending(w, r)
              /\ work'[w].phase = "claimed" => work'[w] = work[w]
              /\ w \in Polls /\ work'[w] # Idle => work[w] # Idle
<1> SUFFICES ASSUME NEW w \in Workers
             PROVE  /\ Waiting(w)' = Waiting(w) /\ Held(w)' = Held(w)
                    /\ \A r : Sending(w, r)' <=> Sending(w, r)
                    /\ work'[w].phase = "claimed" => work'[w] = work[w]
                    /\ w \in Polls /\ work'[w] # Idle => work[w] # Idle
    OBVIOUS
<1>1. CASE work'[w] = work[w]
    BY <1>1, SameTask
<1>2. CASE work'[w] # work[w]
    BY <1>2, HooksTasks DEF HookPhases, Waiting, Held, Sending, AlertPhases
<1> QED
    BY <1>1, <1>2

References == ItemsRefer /\ RowsFit

\* A row changes, and the worker that held it goes on.
LEMMA RowStep ==
    ASSUME DeliveryTypeOK, References, sent' = sent, NEW r \in Rows, NEW row \in Row,
           attempts' = attempts \/ attempts' = [attempts EXCEPT ![r] = row],
           row.alert = attempts[r].alert, row.number = attempts[r].number,
           row.retry # "never" => row.status = "failed"
    PROVE  /\ Rows' = Rows /\ RowsFit'
           /\ \A s \in Rows : attempts'[s].number = attempts[s].number
                              /\ attempts'[s].alert = attempts[s].alert
           /\ \A s \in Rows \ {r} : attempts'[s] = attempts[s]
           /\ attempts'[r] \in {attempts[r], row}
<1>1. CASE attempts' = attempts
    BY <1>1 DEF References, RowsFit, Rows
<1>2. CASE attempts' = [attempts EXCEPT ![r] = row]
    <2>1. Rows' = Rows /\ attempts'[r] = row /\ \A s \in Rows \ {r} : attempts'[s] = attempts[s]
        BY <1>2, RowSets
    <2> QED
        BY <2>1 DEF References, RowsFit
<1> QED
    BY <1>1, <1>2

LEMMA CreateRefers ==
    ASSUME DeliveryTypeOK, References, NEW w \in Workers, NEW a \in Alerts,
           NEW number \in Nat \ {0}, NEW rest \in SUBSET AttemptItem,
           CreateAttempt(w, a, number, rest), rest \subseteq Waiting(w),
           a \in sent', sent \subseteq sent'
    PROVE  References'
<1>1. PICK n : Created(w, a, number, rest, n)
    BY CreateSets
<1>2. /\ n \notin Rows /\ Rows' = Rows \cup {n}
      /\ attempts'[n].alert = a /\ attempts'[n].number = number
      /\ attempts'[n].status = "pending" /\ attempts'[n].retry = "never"
      /\ \A r \in Rows : attempts'[r] = attempts[r]
      /\ work'[w].phase = "sending" /\ work'[w].item.row = n
      /\ Waiting(w)' = rest /\ Held(w)' = {[row |-> n, number |-> number]}
      /\ \A v \in Workers \ {w} : work'[v] = work[v]
    BY <1>1 DEF Created
<1>3. \A item \in rest : item.row \in Rows /\ attempts[item.row].number = item.number
    BY DEF References, ItemsRefer, Refers
<1>4. \A item \in Waiting(w)' \cup Held(w)' :
          item.row \in Rows' /\ attempts'[item.row].number = item.number
    BY <1>2, <1>3
<1>5. w \in Callers => Waiting(w)' = {}
    BY <1>2 DEF References, ItemsRefer
<1>6. ItemsRefer'
    BY <1>2, <1>4, <1>5, ReferStep DEF References
<1>7. RowsFit'
    BY <1>2 DEF References, RowsFit
<1> QED
    BY <1>6, <1>7 DEF References

LEMMA ReferencesStep ==
    ASSUME DeliveryTypeOK, References, [DeliveryNext]_deliveryVars
    PROVE  References'
<1> USE PollsAndCallers DEF References
<1>1. CASE \E c \in Callers, a \in Alerts : SendAlert(c, a)
    <2>1. PICK c \in Callers, a \in Alerts : SendAlert(c, a)
        BY <1>1
    <2>2. CreateAttempt(c, a, 1, {}) /\ sent' = sent \cup {a}
        BY <2>1 DEF SendAlert
    <2> QED
        BY <2>2, CreateRefers
<1>2. CASE \E c \in Callers, r \in Rows : RetryDelivery(c, r)
    <2>1. PICK c \in Callers, r \in Rows : RetryDelivery(c, r)
        BY <1>2
    <2>2. CreateAttempt(c, attempts[r].alert, attempts[r].number + 1, {}) /\ sent' = sent
        BY <2>1 DEF RetryDelivery, world
    <2>3. attempts[r].alert \in Alerts /\ attempts[r].number + 1 \in Nat \ {0}
          /\ attempts[r].alert \in sent
        BY RowShape DEF RowsFit
    <2> QED
        BY <2>2, <2>3, CreateRefers
<1>3. CASE \E w \in Workers : FinishAttempt(w)
    <2>1. PICK w \in Workers : FinishAttempt(w)
        BY <1>3
    <2> DEFINE r == work[w].item.row
    <2>2. /\ r \in Rows /\ Sending(w, r) /\ attempts[r].status = "pending"
          /\ Waiting(w) = work[w].batch /\ work[w].batch \in SUBSET AttemptItem
          /\ Do(w, Rest(w, work[w].batch)) /\ sent' = sent
        BY <2>1, FinishCases, SendingShape DEF FinishAttempt, world
    <2>3. attempts[r].retry = "never"
        BY <2>2, RowShape DEF RowsFit
    <2>4. PICK row \in {SucceededRow(r), FailedRow(r)} :
             attempts' = attempts \/ attempts' = [attempts EXCEPT ![r] = row]
        BY <2>1, FinishCases
    <2>5. row \in Row /\ row.alert = attempts[r].alert /\ row.number = attempts[r].number
          /\ (row.retry # "never" => row.status = "failed")
        BY <2>2, <2>3, RowChanges
    <2> HIDE DEF r
    <2>6. /\ Rows' = Rows /\ RowsFit'
          /\ \A s \in Rows : attempts'[s].number = attempts[s].number
          /\ \A s \in Rows \ {r} : attempts'[s] = attempts[s]
        BY <2>2, <2>4, <2>5, RowStep
    <2>7. /\ \A v \in Workers \ {w} : work'[v] = work[v]
          /\ Waiting(w)' \subseteq Waiting(w) /\ Held(w)' = {}
          /\ work'[w].phase \in {"idle", "alerts", "query"}
          /\ w \in Callers => work'[w] = Idle /\ Waiting(w)' = {}
        BY <2>2, RestTask
    <2>8. \A item \in Waiting(w)' \cup Held(w)' :
              item.row \in Rows' /\ attempts'[item.row].number = item.number
        BY <2>6, <2>7 DEF ItemsRefer, Refers
    <2>9. ItemsRefer'
        BY <2>2, <2>6, <2>7, <2>8, ReferStep DEF Idle
    <2> QED
        BY <2>6, <2>9
<1>4. CASE \E p \in Polls : StartPoll(p)
    <2>1. PICK p \in Polls : StartPoll(p)
        BY <1>4
    <2>2. PICK batch \in SUBSET AttemptItem :
             /\ Do(p, [phase |-> "alerts", batch |-> batch]) /\ attempts' = attempts
             /\ \A item \in batch : item.row \in Rows /\ item.number = attempts[item.row].number
        BY <2>1, StartCases
    <2>3. work'[p] = [phase |-> "alerts", batch |-> batch]
          /\ \A v \in Workers \ {p} : work'[v] = work[v]
        BY <2>2, DoSets
    <2>4. Waiting(p)' = batch /\ Held(p)' = {} /\ work'[p].phase = "alerts"
        BY <2>3 DEF Waiting, Held, AlertPhases
    <2>5. Rows' = Rows /\ RowsFit'
        BY <2>1, <2>2 DEF RowsFit, Rows, StartPoll, world
    <2>6. ItemsRefer'
        BY <2>2, <2>3, <2>4, <2>5, ReferStep
    <2> QED
        BY <2>5, <2>6
<1>5. CASE \E p \in Polls : Claim(p)
    <2>1. PICK p \in Polls : Claim(p)
        BY <1>5
    <2>2. PICK item \in work[p].batch :
             /\ item \in AttemptItem /\ Refers(item) /\ Waiting(p) = work[p].batch
             /\ work[p].batch \ {item} \in SUBSET AttemptItem
             /\ attempts' \in {attempts, [attempts EXCEPT ![item.row] = ClaimedRow(item.row)]}
             /\ \/ Do(p, ClaimedTask(item, work[p].batch \ {item}))
                \/ Do(p, Rest(p, work[p].batch \ {item}))
        BY <2>1, ClaimCases
    <2> DEFINE rest == work[p].batch \ {item}
               r == item.row
    <2>3. r \in Rows /\ sent' = sent
        BY <2>1, <2>2 DEF Refers, Claim, world
    <2>4. ClaimedRow(r) \in Row /\ ClaimedRow(r).alert = attempts[r].alert
          /\ ClaimedRow(r).number = attempts[r].number /\ ClaimedRow(r).retry = "never"
          /\ ClaimedRow(r).status = attempts[r].status
        BY <2>3, RowChanges
    <2>5. /\ Rows' = Rows /\ RowsFit'
          /\ \A s \in Rows : attempts'[s].number = attempts[s].number
          /\ \A s \in Rows \ {r} : attempts'[s] = attempts[s]
          /\ attempts'[r] \in {attempts[r], ClaimedRow(r)}
        BY <2>2, <2>3, <2>4, RowStep
    <2>6. \A s \in Rows : attempts'[s].status = attempts[s].status
        BY <2>4, <2>5
    <2>7. /\ \A v \in Workers \ {p} : work'[v] = work[v]
          /\ Waiting(p)' \cup Held(p)' \subseteq work[p].batch
          /\ work'[p].phase # "sending"
        <3>1. CASE Do(p, ClaimedTask(item, rest))
            <4>1. work'[p] = ClaimedTask(item, rest) /\ \A v \in Workers \ {p} : work'[v] = work[v]
                BY <3>1, DoSets
            <4>2. Waiting(p)' = rest /\ Held(p)' = {item} /\ work'[p].phase = "claimed"
                BY <4>1 DEF ClaimedTask, Waiting, Held, AlertPhases
            <4> QED
                BY <4>1, <4>2
        <3>2. CASE Do(p, Rest(p, rest))
            BY <2>2, <3>2, RestTask
        <3> QED
            BY <2>2, <3>1, <3>2
    <2>8. \A i \in Waiting(p)' \cup Held(p)' :
              i.row \in Rows' /\ attempts'[i.row].number = i.number
        BY <2>2, <2>5, <2>7 DEF ItemsRefer, Refers
    <2> HIDE DEF r, rest
    <2>9. ItemsRefer'
        BY <2>5, <2>6, <2>7, <2>8, ReferStep
    <2> QED
        BY <2>5, <2>9
<1>6. CASE \E p \in Polls : Retry(p)
    <2>1. PICK p \in Polls : Retry(p)
        BY <1>6
    <2> DEFINE item == work[p].item
               a == attempts[item.row].alert
    <2>2. /\ item.row \in Rows /\ item.number + 1 \in Nat \ {0}
          /\ work[p].batch \in SUBSET AttemptItem /\ Waiting(p) = work[p].batch
        BY <2>1, RetryCases, ClaimedShape DEF AttemptItem
    <2>3. a \in Alerts /\ a \in sent /\ sent' = sent
        BY <2>1, <2>2, RowShape DEF RowsFit, Retry, world
    <2>4. CASE CreateAttempt(p, a, item.number + 1, work[p].batch)
        BY <2>2, <2>3, <2>4, CreateRefers
    <2>5. CASE attempts' = attempts /\ Do(p, Rest(p, work[p].batch))
        <3>1. /\ \A v \in Workers \ {p} : work'[v] = work[v]
              /\ Waiting(p)' \subseteq Waiting(p) /\ Held(p)' = {}
              /\ work'[p].phase \in {"idle", "alerts", "query"}
            BY <2>2, <2>5, RestTask
        <3>2. Rows' = Rows /\ RowsFit'
            BY <2>3, <2>5 DEF RowsFit, Rows
        <3>3. \A i \in Waiting(p)' \cup Held(p)' :
                  i.row \in Rows' /\ attempts'[i.row].number = i.number
            BY <2>5, <3>1, <3>2 DEF ItemsRefer, Refers
        <3>4. ItemsRefer'
            BY <2>5, <3>1, <3>2, <3>3, ReferStep
        <3> QED
            BY <3>2, <3>4
    <2> QED
        BY <2>1, <2>4, <2>5, RetryCases
<1>7. CASE RetryAllForChannel \/ \E r \in Rows : AttemptBecomesDue(r)
    <2>1. /\ Rows' = Rows /\ sent' = sent /\ work' = work
          /\ \A s \in Rows :
                attempts'[s] = attempts[s] \/ (attempts'[s] = DueRow(s) /\ attempts[s].status = "failed")
        <3>1. CASE RetryAllForChannel
            <4>1. Rows' = Rows /\ \A s \in Rows : attempts'[s] \in {attempts[s], DueRow(s)}
                BY <3>1, RowChanges, RowShape DEF RetryAllForChannel, Rows, DueRow
            <4> QED
                BY <3>1, <4>1 DEF RetryAllForChannel, world, DueRow
        <3>2. CASE \E r \in Rows : AttemptBecomesDue(r)
            <4>1. PICK r \in Rows : AttemptBecomesDue(r)
                BY <3>2
            <4>2. DueRow(r) \in Row /\ attempts[r].status = "failed"
                BY <4>1, RowChanges DEF AttemptBecomesDue, RowsFit
            <4> QED
                BY <4>1, <4>2, RowSets DEF AttemptBecomesDue, world
        <3> QED
            BY <1>7, <3>1, <3>2
    <2>2. \A s \in Rows : /\ attempts'[s].number = attempts[s].number
                          /\ attempts'[s].alert = attempts[s].alert
                          /\ attempts'[s].status = attempts[s].status
        BY <2>1, RowChanges
    <2>3. RowsFit'
        BY <2>1, <2>2 DEF RowsFit
    <2>4. \A w \in Workers : /\ Waiting(w)' = Waiting(w) /\ Held(w)' = Held(w)
                             /\ \A r : Sending(w, r)' <=> Sending(w, r)
        BY <2>1, SameTask
    <2>5. ItemsRefer'
        BY <2>1, <2>2, <2>4, ReferFrame DEF ItemsRefer
    <2> QED
        BY <2>3, <2>5
<1>8. CASE DeliveryCrash
    <2>1. \A w \in Workers : work'[w] = Idle
        BY <1>8 DEF DeliveryCrash
    <2>2. \A w \in Workers : Waiting(w)' = {} /\ Held(w)' = {} /\ work'[w].phase = "idle"
        BY <2>1 DEF Waiting, Held, AlertPhases, Idle
    <2>3. attempts' = attempts /\ sent' = sent
        BY <1>8 DEF DeliveryCrash, tables, world
    <2>4. ItemsRefer'
        BY <2>2 DEF ItemsRefer, Sending
    <2> QED
        BY <2>3, <2>4 DEF RowsFit, Rows
<1>9. CASE HooksMove
    <2>1. attempts' = attempts /\ sent' = sent
        BY <1>9, HooksTasks
    <2>2. \A c \in Callers : work'[c].phase \in {"idle", "sending", "calling"}
        BY <1>9, HooksTasks DEF ItemsRefer
    <2>3. ItemsRefer'
        BY <1>9, <2>1, <2>2, HooksFrame, ReferFrame DEF Rows
    <2> QED
        BY <2>1, <2>3 DEF RowsFit, Rows
<1> QED
    BY <1>1, <1>2, <1>3, <1>4, <1>5, <1>6, <1>7, <1>8, <1>9, StepCases

-----------------------------------------------------------------------------
(***************************************************************************)
(* No delivery is forgotten.                                               *)
(***************************************************************************)
Reliable == trouble \subseteq {"overlap", "user", "demote", "target"}

Tended(a) ==
    \/ Ended(a) \/ InHand(a)
    \/ \E r \in Rows : attempts[r].alert = a /\ attempts[r].retry # "never"

HookTended(h) ==
    \/ hooks[h].status \in {"none", "success", "dead_letter"}
    \/ hooks[h].retry # "never" \/ hooks[h].number > MaxRetries
    \/ \E w \in Workers : work[w].phase = "calling" /\ work[w].item.hook = h

LEMMA ForgottenDef ==
    NoDeliveryForgotten <=>
        (Reliable => (\A a \in sent : Tended(a)) /\ \A h \in Hooks : HookTended(h))
BY DEF NoDeliveryForgotten, Reliable, Tended, HookTended

LEMMA InHandDef ==
    ASSUME NEW a
    PROVE  InHand(a) <=> \E w \in Workers : \E item \in Held(w) : attempts[item.row].alert = a
BY DEF InHand, Held

LEMMA TendedFrame ==
    ASSUME NEW a, Tended(a), channel' => channel,
           \A r \in Rows : attempts[r].alert = a =>
              /\ r \in Rows' /\ attempts'[r].alert = a
              /\ attempts'[r].number = attempts[r].number
              /\ attempts[r].status = "success" => attempts'[r].status = "success"
              /\ attempts[r].retry # "never" => attempts'[r].retry # "never",
           \A w \in Workers : \A item \in Held(w) :
              attempts[item.row].alert = a =>
                  item \in Held(w)' /\ attempts'[item.row].alert = a
    PROVE  Tended(a)'
<1>1. CASE Ended(a)
    BY <1>1 DEF Ended, Tended
<1>2. CASE InHand(a)
    <2>1. PICK w \in Workers : \E item \in Held(w) : attempts[item.row].alert = a
        BY <1>2, InHandDef
    <2>2. \E item \in Held(w)' : attempts'[item.row].alert = a
        BY <2>1
    <2>3. InHand(a)'
        BY <2>2 DEF InHand, Held
    <2> QED
        BY <2>3 DEF Tended
<1>3. CASE \E r \in Rows : attempts[r].alert = a /\ attempts[r].retry # "never"
    BY <1>3 DEF Tended
<1> QED
    BY <1>1, <1>2, <1>3 DEF Tended

LEMMA CreateTended ==
    ASSUME DeliveryTypeOK, References, NEW w \in Workers, NEW b \in Alerts,
           NEW number \in Nat \ {0}, NEW rest \in SUBSET AttemptItem,
           CreateAttempt(w, b, number, rest), channel' => channel,
           \A item \in Held(w) : attempts[item.row].alert = b,
           NEW a, a = b \/ Tended(a)
    PROVE  Tended(a)'
<1>0. PICK n : Created(w, b, number, rest, n)
    BY CreateSets
<1>1. /\ Rows' = Rows \cup {n} /\ attempts'[n].alert = b
      /\ \A r \in Rows : attempts'[r] = attempts[r]
      /\ work'[w].phase = "sending" /\ work'[w].item.row = n
      /\ \A v \in Workers \ {w} : work'[v] = work[v]
    BY <1>0 DEF Created
<1>2. CASE a = b
    <2>1. InHand(a)'
        BY <1>1, <1>2 DEF InHand
    <2> QED
        BY <2>1 DEF Tended
<1>3. CASE a # b
    <2>1. \A v \in Workers : \A item \in Held(v) : item.row \in Rows
        BY DEF References, ItemsRefer, Refers
    <2>2. \A v \in Workers : \A item \in Held(v) :
              attempts[item.row].alert = a =>
                  item \in Held(v)' /\ attempts'[item.row].alert = a
        BY <1>1, <1>3, <2>1, SameTask
    <2> QED
        BY <1>1, <1>3, <2>2, TendedFrame
<1> QED
    BY <1>2, <1>3

LEMMA AlertsTended ==
    ASSUME DeliveryTypeOK, References, Reliable, \A a \in sent : Tended(a),
           [DeliveryNext]_deliveryVars
    PROVE  \A a \in sent' : Tended(a)'
<1> USE PollsAndCallers DEF References
<1>1. \A w \in Workers : \A item \in Held(w) : item.row \in Rows
    BY DEF References, ItemsRefer, Refers
<1>2. "db" \notin trouble /\ "crash" \notin trouble
    BY DEF Reliable
<1>3. \A w \in Workers : work[w] = Idle \/ work[w].phase = "alerts" => Held(w) = {}
    BY DEF Held, Idle
<1>4. CASE \E c \in Callers, b \in Alerts : SendAlert(c, b)
    <2>1. PICK c \in Callers, b \in Alerts : SendAlert(c, b)
        BY <1>4
    <2>2. CreateAttempt(c, b, 1, {}) /\ sent' = sent \cup {b} /\ channel' = channel /\ Held(c) = {}
        BY <1>3, <2>1 DEF SendAlert
    <2> QED
        BY <2>2, CreateTended
<1>5. CASE \E c \in Callers, r \in Rows : RetryDelivery(c, r)
    <2>1. PICK c \in Callers, r \in Rows : RetryDelivery(c, r)
        BY <1>5
    <2>2. CreateAttempt(c, attempts[r].alert, attempts[r].number + 1, {})
          /\ sent' = sent /\ channel' = channel /\ Held(c) = {}
        BY <1>3, <2>1 DEF RetryDelivery, world
    <2>3. attempts[r].alert \in Alerts /\ attempts[r].number + 1 \in Nat \ {0}
        BY RowShape
    <2> QED
        BY <2>2, <2>3, CreateTended
<1>6. CASE \E w \in Workers : FinishAttempt(w)
    <2>1. PICK w \in Workers : FinishAttempt(w)
        BY <1>6
    <2> DEFINE r == work[w].item.row
    <2>2. /\ r \in Rows /\ attempts[r].status = "pending" /\ Held(w) = {work[w].item}
          /\ work[w].batch \in SUBSET AttemptItem
          /\ Do(w, Rest(w, work[w].batch)) /\ sent' = sent /\ channel' = channel
        BY <2>1, FinishCases, SendingShape DEF FinishAttempt, world
    <2>3. PICK row \in {SucceededRow(r), FailedRow(r)} : attempts' = [attempts EXCEPT ![r] = row]
        BY <1>2, <2>1, FinishCases
    <2>4. /\ row \in Row /\ row.alert = attempts[r].alert /\ row.number = attempts[r].number
          /\ row.status = "success" \/ row.retry # "never" \/ row.number > MaxRetries
        BY <2>2, RowChanges, RowShape, DeliveryRetryAssumption
    <2>5. Rows' = Rows /\ attempts'[r] = row /\ \A s \in Rows \ {r} : attempts'[s] = attempts[s]
        BY <2>2, <2>3, <2>4, RowSets
    <2>6. \A v \in Workers \ {w} : work'[v] = work[v]
        BY <2>2, RestTask
    <2> SUFFICES ASSUME NEW a \in sent PROVE Tended(a)'
        BY <2>2
    <2>7. CASE a = attempts[r].alert
        BY <2>2, <2>4, <2>5, <2>7 DEF Tended, Ended
    <2>8. CASE a # attempts[r].alert
        <3>1. \A v \in Workers : \A item \in Held(v) :
                  attempts[item.row].alert = a =>
                      item \in Held(v)' /\ attempts'[item.row].alert = a
            BY <1>1, <2>2, <2>5, <2>6, <2>8, SameTask
        <3> QED
            BY <2>2, <2>5, <2>8, <3>1, TendedFrame
    <2> QED
        BY <2>7, <2>8
<1>7. CASE \E p \in Polls : StartPoll(p)
    <2>1. PICK p \in Polls : StartPoll(p)
        BY <1>7
    <2>2. PICK batch : Do(p, [phase |-> "alerts", batch |-> batch])
        BY <2>1, StartCases
    <2>3. /\ Held(p) = {} /\ \A v \in Workers \ {p} : work'[v] = work[v]
          /\ attempts' = attempts /\ sent' = sent /\ channel' = channel
        BY <1>3, <2>1, <2>2, DoSets DEF StartPoll, tables, world
    <2>4. \A v \in Workers : \A item \in Held(v) : item \in Held(v)'
        BY <2>3, SameTask
    <2> QED
        BY <2>3, <2>4, TendedFrame DEF Rows
<1>8. CASE \E p \in Polls : Claim(p)
    <2>1. PICK p \in Polls : Claim(p)
        BY <1>8
    <2>2. PICK item \in work[p].batch :
             /\ Refers(item) /\ work[p].phase = "alerts"
             /\ attempts' = [attempts EXCEPT ![item.row] = ClaimedRow(item.row)]
             /\ Do(p, ClaimedTask(item, work[p].batch \ {item}))
        BY <1>2, <2>1, ClaimCases
    <2> DEFINE r == item.row
    <2>3. r \in Rows /\ Held(p) = {} /\ sent' = sent /\ channel' = channel
        BY <1>3, <2>1, <2>2 DEF Refers, Claim, world
    <2>4. ClaimedRow(r) \in Row /\ ClaimedRow(r).alert = attempts[r].alert
        BY <2>3, RowChanges
    <2>5. /\ Rows' = Rows /\ attempts'[r].alert = attempts[r].alert
          /\ \A s \in Rows \ {r} : attempts'[s] = attempts[s]
        BY <2>2, <2>3, <2>4, RowSets
    <2>6. /\ work'[p].phase = "claimed" /\ work'[p].item = item
          /\ \A v \in Workers \ {p} : work'[v] = work[v]
        BY <2>2, DoSets DEF ClaimedTask
    <2> SUFFICES ASSUME NEW a \in sent PROVE Tended(a)'
        BY <2>3
    <2>7. CASE a = attempts[r].alert
        BY <2>5, <2>6, <2>7 DEF Tended, InHand
    <2>8. CASE a # attempts[r].alert
        <3>1. \A v \in Workers : \A i \in Held(v) :
                  attempts[i.row].alert = a => i \in Held(v)' /\ attempts'[i.row].alert = a
            BY <1>1, <2>3, <2>5, <2>6, <2>8, SameTask
        <3> QED
            BY <2>3, <2>5, <2>8, <3>1, TendedFrame
    <2> QED
        BY <2>7, <2>8
<1>9. CASE \E p \in Polls : Retry(p)
    <2>1. PICK p \in Polls : Retry(p)
        BY <1>9
    <2> DEFINE item == work[p].item
               b == attempts[item.row].alert
    <2>2. /\ item.row \in Rows /\ item.number + 1 \in Nat \ {0} /\ Held(p) = {item}
          /\ work[p].batch \in SUBSET AttemptItem
        BY <2>1, RetryCases, ClaimedShape DEF AttemptItem
    <2>3. b \in Alerts /\ sent' = sent /\ channel' = channel
        BY <2>1, <2>2, RowShape DEF Retry, world
    <2>4. CASE CreateAttempt(p, b, item.number + 1, work[p].batch)
        BY <2>2, <2>3, <2>4, CreateTended
    <2>5. CASE ~channel
        BY <2>3, <2>5 DEF Tended, Ended
    <2> QED
        BY <1>2, <2>1, <2>4, <2>5, RetryCases
<1>10. CASE RetryAllForChannel \/ \E r \in Rows : AttemptBecomesDue(r)
    <2>1. /\ Rows' = Rows /\ sent' = sent /\ work' = work /\ channel' = channel
          /\ \A s \in Rows : attempts'[s] \in {attempts[s], DueRow(s)}
        <3>1. CASE RetryAllForChannel
            BY <3>1 DEF RetryAllForChannel, Rows, DueRow, world
        <3>2. CASE \E r \in Rows : AttemptBecomesDue(r)
            <4>1. PICK r \in Rows : AttemptBecomesDue(r)
                BY <3>2
            <4>2. DueRow(r) \in Row
                BY RowChanges
            <4> QED
                BY <4>1, <4>2, RowSets DEF AttemptBecomesDue, world
        <3> QED
            BY <1>10, <3>1, <3>2
    <2>2. \A s \in Rows : /\ attempts'[s].number = attempts[s].number
                          /\ attempts'[s].alert = attempts[s].alert
                          /\ attempts'[s].status = attempts[s].status
                          /\ attempts[s].retry # "never" => attempts'[s].retry # "never"
        BY <2>1, RowChanges
    <2>3. \A w \in Workers : Held(w)' = Held(w)
        BY <2>1, SameTask
    <2> QED
        BY <1>1, <2>1, <2>2, <2>3, TendedFrame
<1>11. CASE DeliveryCrash
    BY <1>2, <1>11 DEF DeliveryCrash, Extra, Fault
<1>12. CASE HooksMove
    <2>1. /\ attempts' = attempts /\ sent' = sent /\ (channel' => channel)
          /\ \A w \in Workers : Held(w)' = Held(w)
        BY <1>12, HooksTasks, HooksFrame
    <2> QED
        BY <2>1, TendedFrame DEF Rows
<1> QED
    BY <1>4, <1>5, <1>6, <1>7, <1>8, <1>9, <1>10, <1>11, <1>12, StepCases

\* A webhook is written by the worker that calls or claims it, and by the clock.
LEMMA HooksTended ==
    ASSUME DeliveryTypeOK, Reliable, \A h \in Hooks : HookTended(h), [DeliveryNext]_deliveryVars
    PROVE  \A h \in Hooks : HookTended(h)'
<1> USE PollsAndCallers
<1>1. "db" \notin trouble /\ "crash" \notin trouble
    BY DEF Reliable
<1>2. ASSUME NEW h \in Hooks, hooks'[h] = hooks[h],
             \A w \in Workers : work[w].phase = "calling" /\ work[w].item.hook = h =>
                 work'[w].phase = "calling" /\ work'[w].item.hook = h
      PROVE  HookTended(h)'
    BY <1>2 DEF HookTended
<1>3. ASSUME NEW w \in Workers, work[w].phase # "calling",
             \A v \in Workers \ {w} : work'[v] = work[v], hooks' = hooks,
             NEW h \in Hooks
      PROVE  HookTended(h)'
    BY <1>2, <1>3
<1>4. CASE \E c \in Callers : (\E a \in Alerts : SendAlert(c, a)) \/ (\E r \in Rows : RetryDelivery(c, r))
    <2>1. PICK c \in Callers : work[c] = Idle /\ hooks' = hooks
                               /\ \E task : Do(c, task)
        BY <1>4 DEF SendAlert, RetryDelivery, CreateAttempt
    <2> QED
        BY <1>3, <2>1, DoSets DEF Idle
<1>5. CASE \E w \in Workers : FinishAttempt(w)
    <2>1. PICK w \in Workers : work[w].phase = "sending" /\ hooks' = hooks
                               /\ Do(w, Rest(w, work[w].batch))
        BY <1>5 DEF FinishAttempt
    <2> QED
        BY <1>3, <2>1, DoSets
<1>6. CASE \E p \in Polls : StartPoll(p) \/ Claim(p) \/ Retry(p) \/ QueryHooks(p)
    <2>1. PICK p \in Polls : StartPoll(p) \/ Claim(p) \/ Retry(p) \/ QueryHooks(p)
        BY <1>6
    <2>2. work[p].phase \in {"idle", "alerts", "claimed", "query"} /\ hooks' = hooks
        BY <2>1 DEF StartPoll, Claim, Retry, QueryHooks, tables, Idle
    <2>3. \E task : Do(p, task)
        <3>1. CASE StartPoll(p) \/ QueryHooks(p)
            BY <3>1 DEF StartPoll, QueryHooks
        <3>2. CASE Claim(p)
            BY <3>2 DEF Claim
        <3>3. CASE Retry(p)
            BY <3>3 DEF Retry, CreateAttempt
        <3> QED
            BY <2>1, <3>1, <3>2, <3>3
    <2> QED
        BY <1>3, <2>2, <2>3, DoSets
<1>7. CASE \E c \in Callers, k \in Hooks : FireHook(c, k)
    <2>1. PICK c \in Callers, k \in Hooks : FireHook(c, k)
        BY <1>7
    <2>2. /\ work'[c].phase = "calling" /\ work'[c].item.hook = k
          /\ work[c].phase # "calling" /\ \A v \in Workers \ {c} : work'[v] = work[v]
          /\ \A h \in Hooks \ {k} : hooks'[h] = hooks[h]
        BY <2>1, DoSets DEF FireHook, Idle, DeliveryTypeOK
    <2>3. ASSUME NEW h \in Hooks PROVE HookTended(h)'
        <3>1. CASE h = k
            BY <2>2, <3>1 DEF HookTended
        <3>2. CASE h # k
            BY <1>2, <2>2, <3>2
        <3> QED
            BY <3>1, <3>2
    <2> QED
        BY <2>3
<1>8. CASE \E p \in Polls : ClaimHook(p)
    <2>1. PICK p \in Polls : ClaimHook(p)
        BY <1>8
    <2>2. work[p].phase = "hooks"
        BY <2>1 DEF ClaimHook
    <2>3. work[p].batch \in SUBSET HookItem
        BY <2>2, WorkShape, TaskShape
    <2>4. PICK item \in work[p].batch :
             LET claimed == [hooks EXCEPT ![item.hook].retry = "never"] IN
             \/ /\ hooks' = claimed
                /\ \E task : Do(p, task) /\ task.phase = "calling" /\ task.item = item
             \/ /\ hooks' = [claimed EXCEPT ![item.hook].status = "dead_letter"]
                /\ \E task : Do(p, task)
        BY <1>1, <2>1 DEF ClaimHook, Fault
    <2> DEFINE k == item.hook
    <2>5. k \in Hooks /\ hooks[k] \in HookRow
        BY <2>3, HookShape DEF HookItem
    <2>6. /\ \A h \in Hooks \ {k} : hooks'[h] = hooks[h]
          /\ \A v \in Workers \ {p} : work'[v] = work[v]
          /\ \/ work'[p].phase = "calling" /\ work'[p].item = item
             \/ hooks'[k].status = "dead_letter"
        BY <2>4, <2>5, DoSets DEF DeliveryTypeOK, HookRow
    <2>7. ASSUME NEW h \in Hooks PROVE HookTended(h)'
        <3>1. CASE h = k
            BY <2>6, <3>1 DEF HookTended
        <3>2. CASE h # k
            BY <1>2, <2>2, <2>6, <3>2
        <3> QED
            BY <3>1, <3>2
    <2> QED
        BY <2>7
<1>9. CASE \E w \in Workers : FinishHook(w)
    <2>1. PICK w \in Workers : FinishHook(w)
        BY <1>9
    <2> DEFINE k == work[w].item.hook
               n == work[w].item.number + 1
    <2>2. work[w].phase = "calling" /\ Do(w, RestHooks(w, work[w].batch))
        BY <2>1 DEF FinishHook
    <2>3. k \in Hooks /\ n \in Nat /\ hooks[k] \in HookRow
        BY <2>2, WorkShape, TaskShape, HookShape DEF HookItem
    <2>4. \/ \E status \in {"success", "dead_letter"} :
                hooks' = [hooks EXCEPT ![k].status = status, ![k].number = n]
          \/ hooks' = [hooks EXCEPT ![k] = [status |-> "failed", number |-> n, retry |-> Backoff(n)]]
        BY <1>1, <2>1 DEF FinishHook, Fault
    <2>5. /\ \A h \in Hooks \ {k} : hooks'[h] = hooks[h]
          /\ \/ hooks'[k].status \in {"success", "dead_letter"}
             \/ hooks'[k].number = n /\ hooks'[k].retry = Backoff(n)
        BY <2>3, <2>4 DEF DeliveryTypeOK, HookRow
    <2>6. Backoff(n) # "never" \/ n > MaxRetries
        BY <2>3, BackoffShape, DeliveryRetryAssumption
    <2>7. \A v \in Workers \ {w} : work'[v] = work[v]
        BY <2>2, DoSets
    <2>8. ASSUME NEW h \in Hooks PROVE HookTended(h)'
        <3>1. CASE h = k
            BY <2>5, <2>6, <3>1 DEF HookTended
        <3>2. CASE h # k
            BY <1>2, <2>2, <2>5, <2>7, <3>2
        <3> QED
            BY <3>1, <3>2
    <2> QED
        BY <2>8
<1>10. CASE BecomesDue /\ UNCHANGED attempts
    <2>1. /\ work' = work
          /\ \/ hooks' = hooks
             \/ \E k \in Hooks : hooks' = [hooks EXCEPT ![k].retry = "due"]
        BY <1>10 DEF BecomesDue
    <2>2. \A h \in Hooks : hooks'[h] = hooks[h] \/ hooks'[h].retry = "due"
        BY <2>1, HookShape DEF DeliveryTypeOK, HookRow
    <2>3. \A h \in Hooks : HookTended(h)'
        BY <1>2, <2>1, <2>2 DEF HookTended
    <2> QED
        BY <2>3
<1>11. CASE UNCHANGED <<hooks, work>>
    BY <1>2, <1>11
<1>12. CASE DeliveryCrash
    BY <1>1, <1>12 DEF DeliveryCrash, Extra, Fault
<1>13. CASE HooksMove
    <2>1. CASE Demote \/ Lead \/ TargetChanges \/ UNCHANGED deliveryVars
        BY <1>11, <2>1 DEF Demote, Lead, TargetChanges, deliveryVars, tables
    <2> QED
        BY <1>6, <1>7, <1>8, <1>9, <1>10, <1>13, <2>1 DEF HooksMove
<1>14. CASE RetryAllForChannel \/ \E r \in Rows : AttemptBecomesDue(r)
    BY <1>11, <1>14 DEF RetryAllForChannel, AttemptBecomesDue
<1> QED
    BY <1>4, <1>5, <1>6, <1>12, <1>13, <1>14, StepCases

-----------------------------------------------------------------------------
(***************************************************************************)
(* Attempts form a chain.                                                  *)
(***************************************************************************)
SameHistory ==
    /\ Rows' = Rows
    /\ \A r \in Rows : attempts'[r].alert = attempts[r].alert
                       /\ attempts'[r].number = attempts[r].number

Before(r) == {s \in 1 .. r : attempts[s].alert = attempts[r].alert}

LEMMA BeforeFinite ==
    ASSUME NEW r \in Nat
    PROVE  IsFiniteSet(Before(r))
<1>1. IsFiniteSet(1 .. r)
    BY FS_Interval
<1>2. Before(r) \subseteq 1 .. r
    BY DEF Before
<1> QED
    BY <1>1, <1>2, FS_Subset

LEMMA RowsUpTo ==
    ASSUME DeliveryTypeOK, NEW r \in Rows
    PROVE  1 .. r \subseteq Rows /\ r \in Nat /\ r \in 1 .. r
BY DEF DeliveryTypeOK, Rows

LEMMA SameBefore ==
    ASSUME DeliveryTypeOK, \A s \in Rows : attempts'[s].alert = attempts[s].alert, NEW r \in Rows
    PROVE  Before(r)' = Before(r)
BY RowsUpTo DEF Before

LEMMA ChainedFrame ==
    ASSUME DeliveryTypeOK, SameHistory, \A r \in Rows : Chained(r)
    PROVE  \A r \in Rows' : Chained(r)'
<1> SUFFICES ASSUME NEW r \in Rows PROVE Chained(r)'
    BY DEF SameHistory
<1>1. Before(r)' = Before(r)
    BY SameBefore DEF SameHistory
<1> QED
    BY <1>1 DEF Chained, SameHistory, Before

LEMMA LatestOnly ==
    ASSUME DeliveryTypeOK, NEW r \in Rows, NEW s \in Rows, Latest(r), Latest(s),
           attempts[r].alert = attempts[s].alert
    PROVE  r = s
<1>1. r \in Nat /\ s \in Nat
    BY RowShape
<1>2. ~(r > s) /\ ~(s > r)
    BY DEF Latest
<1> QED
    BY <1>1, <1>2

LEMMA LatestFrame ==
    ASSUME SameHistory, NEW r \in Rows
    PROVE  /\ Latest(r)' <=> Latest(r)
           /\ Retriable(r) /\ attempts'[r].status = "failed" => Retriable(r)'
<1>1. Latest(r)' <=> Latest(r)
    BY DEF Latest, SameHistory
<1> QED
    BY <1>1 DEF Retriable, SameHistory

\* No row is added: what is in hand afterwards was in hand, or will be retried.
LEMMA LastFrame ==
    ASSUME LastInHand, SameHistory,
           \A r \in Rows :
              /\ attempts[r].status = "failed" => attempts'[r].status = "failed"
              /\ attempts'[r].retry # "never" =>
                    attempts'[r].status = "failed" /\ Latest(r) /\ attempts[r].number <= MaxRetries,
           \A w \in Workers :
              /\ \A item \in Waiting(w)' : item.row \in Rows /\ Retriable(item.row)
              /\ \A item \in Held(w)' : item.row \in Rows /\ Latest(item.row),
           \A p \in Polls :
              work'[p].phase = "claimed" =>
                 /\ \E r \in Rows : work'[p].item.row = r /\ Retriable(r) /\ attempts'[r].retry = "never"
                 /\ work'[p].item \notin work'[p].batch
    PROVE  LastInHand'
<1>1. \A r \in Rows : Retriable(r) => Retriable(r)'
    BY LatestFrame DEF Retriable
<1>2. \A r \in Rows' : attempts'[r].retry # "never" => Retriable(r)'
    BY LatestFrame DEF Retriable, SameHistory
<1>3. \A w \in Workers : \A item \in Waiting(w)' : Retriable(item.row)'
    BY <1>1
<1>4. \A w \in Workers : \A item \in Held(w)' : Latest(item.row)'
    BY LatestFrame
<1>5. ASSUME NEW p \in Polls, work'[p].phase = "claimed"
      PROVE  Retriable(work[p].item.row)' /\ attempts'[work'[p].item.row].retry = "never"
    <2>1. PICK r \in Rows : work'[p].item.row = r /\ Retriable(r)' /\ attempts'[r].retry = "never"
        BY <1>1, <1>5
    <2> QED
        BY <2>1 DEF Retriable, Latest
<1> QED
    BY <1>2, <1>3, <1>4, <1>5 DEF LastInHand

\* A row is added to the alert b: nothing else of b may be in hand.
LEMMA LastCreate ==
    ASSUME DeliveryTypeOK, References, LastInHand,
           NEW w \in Workers, NEW b \in Alerts, NEW number \in Nat \ {0},
           NEW rest \in SUBSET AttemptItem, CreateAttempt(w, b, number, rest), rest \subseteq Waiting(w),
           \A r \in Rows : attempts[r].alert = b => attempts[r].retry = "never",
           \A v \in Workers : \A item \in Waiting(v) :
              (v # w \/ item \in rest) => attempts[item.row].alert # b,
           \A v \in Workers \ {w} : \A item \in Held(v) : attempts[item.row].alert # b
    PROVE  LastInHand'
<1>0. PICK n : Created(w, b, number, rest, n)
    BY CreateSets
<1>1. /\ n \notin Rows /\ Rows' = Rows \cup {n} /\ n \in Nat /\ \A r \in Rows : r < n
      /\ attempts'[n].alert = b /\ attempts'[n].retry = "never"
      /\ \A r \in Rows : attempts'[r] = attempts[r]
    BY <1>0 DEF Created
<1>2. /\ \A v \in Workers \ {w} : work'[v] = work[v]
      /\ Waiting(w)' = rest /\ Held(w)' = {[row |-> n, number |-> number]}
      /\ work'[w].phase = "sending" /\ work'[w].item.row = n
    BY <1>0 DEF Created
<1>3. \A v \in Workers : \A item \in Waiting(v) \cup Held(v) : item.row \in Rows
    BY DEF References, ItemsRefer, Refers
<1>4. \A r \in Rows : Latest(r) /\ attempts[r].alert # b => Latest(r)'
    BY <1>1 DEF Latest
<1>5. \A r \in Rows : Retriable(r) /\ attempts[r].alert # b => Retriable(r)'
    BY <1>1, <1>4 DEF Retriable
<1>6. Latest(n)'
    <2>1. \A r \in Rows' : r \in Nat /\ ~(r > n)
        BY <1>1, RowShape
    <2> QED
        BY <2>1 DEF Latest
<1>7. \A r \in Rows' : attempts'[r].retry # "never" => Retriable(r)'
    BY <1>1, <1>5 DEF LastInHand
<1>8. ASSUME NEW v \in Workers, NEW item \in Waiting(v)' PROVE Retriable(item.row)'
    <2>1. item \in Waiting(v) /\ (v # w \/ item \in rest)
        BY <1>1, <1>2, <1>8, SameTask
    <2> QED
        BY <1>3, <1>5, <2>1 DEF LastInHand
<1>9. ASSUME NEW v \in Workers, NEW item \in Held(v)' PROVE Latest(item.row)'
    <2>1. CASE v = w
        <3>1. item.row = n
            BY <1>2, <1>9, <2>1
        <3> QED
            BY <1>6, <3>1
    <2>2. CASE v # w
        <3>1. item \in Held(v)
            BY <1>2, <1>9, <2>2, SameTask
        <3> QED
            BY <1>3, <1>4, <2>2, <3>1 DEF LastInHand
    <2> QED
        BY <2>1, <2>2
<1>10. ASSUME NEW p \in Polls, work'[p].phase = "claimed"
       PROVE  /\ Retriable(work[p].item.row)' /\ attempts'[work'[p].item.row].retry = "never"
              /\ work'[p].item \notin work'[p].batch
    <2>1. p # w
        BY <1>2, <1>10
    <2>2. work'[p] = work[p]
        BY <1>2, <2>1, PollsAndCallers
    <2>3. work[p].item \in Held(p)
        BY <1>10, <2>2 DEF Held
    <2>4. PICK r \in Rows : r = work[p].item.row /\ attempts[r].alert # b
        BY <1>3, <2>1, <2>3, PollsAndCallers
    <2>5. Retriable(r) /\ attempts[r].retry = "never" /\ work[p].item \notin work[p].batch
        BY <1>10, <2>2, <2>4 DEF LastInHand
    <2>6. Retriable(r)' /\ attempts'[r].retry = "never" /\ r = work'[p].item.row
        BY <1>1, <1>5, <2>2, <2>4, <2>5
    <2> QED
        BY <2>2, <2>5, <2>6 DEF Retriable, Latest
<1> QED
    BY <1>7, <1>8, <1>9, <1>10 DEF LastInHand

\* The new row is the first of its alert, or follows the last one.
LEMMA ChainedCreate ==
    ASSUME DeliveryTypeOK, \A r \in Rows : Chained(r),
           NEW w \in Workers, NEW b \in Alerts, NEW number \in Nat \ {0},
           NEW rest \in SUBSET AttemptItem, CreateAttempt(w, b, number, rest),
           \/ number = 1 /\ \A r \in Rows : attempts[r].alert # b
           \/ \E l \in Rows : /\ attempts[l].alert = b /\ Latest(l)
                              /\ number = attempts[l].number + 1 /\ number <= MaxRetries + 1
    PROVE  \A r \in Rows' : Chained(r)'
<1>0. PICK n : Created(w, b, number, rest, n)
    BY CreateSets
<1>1. /\ n \notin Rows /\ Rows' = Rows \cup {n} /\ n \in Nat /\ \A r \in Rows : r < n
      /\ attempts'[n].alert = b /\ attempts'[n].number = number
      /\ \A r \in Rows : attempts'[r] = attempts[r]
    BY <1>0 DEF Created
<1>2. 1 .. n = Rows \cup {n}
    BY <1>0 DEF DeliveryTypeOK, Rows, Created
<1>3. ASSUME NEW r \in Rows PROVE Chained(r)'
    <2>1. Before(r)' = Before(r)
        BY <1>1, SameBefore
    <2> QED
        BY <1>1, <2>1 DEF Chained, Before
<1>4. Before(n)' = {s \in Rows : attempts[s].alert = b} \cup {n}
    BY <1>1, <1>2 DEF Before
<1>5. number <= MaxRetries + 1 /\ number = Cardinality(Before(n)')
    <2>1. CASE number = 1 /\ \A r \in Rows : attempts[r].alert # b
        <3>1. Before(n)' = {n}
            BY <1>4, <2>1
        <3>2. Cardinality({n}) = 1
            BY FS_Singleton
        <3>3. 1 <= MaxRetries + 1
            BY DeliveryRetryAssumption
        <3> QED
            BY <2>1, <3>1, <3>2, <3>3
    <2>2. ASSUME NEW l \in Rows, attempts[l].alert = b, Latest(l),
                 number = attempts[l].number + 1, number <= MaxRetries + 1
          PROVE  number = Cardinality(Before(n)')
        <3>1. \A s \in Rows : s \in Nat
            BY RowShape
        <3>2. 1 .. l \subseteq Rows /\ l \in Nat /\ \A s \in Rows : s > l \/ s \in 1 .. l
            BY <3>1, RowsUpTo, RowShape
        <3>3. {s \in Rows : attempts[s].alert = b} = Before(l)
            BY <2>2, <3>2 DEF Before, Latest
        <3>4. IsFiniteSet(Before(l)) /\ n \notin Before(l)
            BY <1>1, <3>2, BeforeFinite DEF Before
        <3>5. Cardinality(Before(l) \cup {n}) = Cardinality(Before(l)) + 1
            BY <3>4, FS_AddElement
        <3>6. Cardinality(Before(l)) = attempts[l].number
            BY DEF Chained, Before
        <3> QED
            BY <1>4, <2>2, <3>3, <3>5, <3>6
    <2> QED
        BY <2>1, <2>2, DeliveryRetryAssumption
<1>6. Chained(n)'
    BY <1>1, <1>5 DEF Chained, Before
<1> QED
    BY <1>1, <1>3, <1>6

LEMMA OnePollFrame ==
    ASSUME OnePoll, \A p \in Polls : work'[p] # Idle => work[p] # Idle
    PROVE  OnePoll'
BY DEF OnePoll

LEMMA ChainStep ==
    ASSUME DeliveryTypeOK, References, Regular, Chain, [DeliveryNext]_deliveryVars
    PROVE  Chain'
<1> USE PollsAndCallers DEF References, Chain
<1>1. "overlap" \notin trouble /\ "user" \notin trouble
    BY DEF Regular
<1>2. \A w \in Workers : \A item \in Waiting(w) \cup Held(w) : item.row \in Rows
    BY DEF ItemsRefer, Refers
<1>3. \A w \in Workers : work[w] = Idle => Waiting(w) = {} /\ Held(w) = {}
    BY DEF Waiting, Held, AlertPhases, Idle
<1>4. ASSUME NEW p \in Polls, work[p] # Idle, NEW w \in Workers \ {p}
      PROVE  Waiting(w) = {} /\ (w \in Polls => work[w] = Idle)
    <2>1. CASE w \in Polls
        BY <1>3, <1>4, <2>1 DEF OnePoll
    <2>2. CASE w \in Callers
        BY <2>2 DEF ItemsRefer
    <2> QED
        BY <2>1, <2>2
<1>5. CASE \E c \in Callers, a \in Alerts : SendAlert(c, a)
    <2>1. PICK c \in Callers, a \in Alerts : SendAlert(c, a)
        BY <1>5
    <2>2. CreateAttempt(c, a, 1, {}) /\ a \notin sent
        BY <2>1 DEF SendAlert
    <2>3. \A r \in Rows : attempts[r].alert # a
        BY <2>2 DEF RowsFit
    <2>4. LastInHand'
        BY <1>2, <2>2, <2>3, LastCreate
    <2>5. \A r \in Rows' : Chained(r)'
        BY <2>2, <2>3, ChainedCreate
    <2>6. OnePoll'
        BY <2>2, DoSets, OnePollFrame DEF CreateAttempt
    <2> QED
        BY <2>4, <2>5, <2>6
<1>6. CASE \E c \in Callers, r \in Rows : RetryDelivery(c, r)
    BY <1>1, <1>6 DEF RetryDelivery, Extra, Fault
<1>7. CASE \E w \in Workers : FinishAttempt(w)
    <2>1. PICK w \in Workers : FinishAttempt(w)
        BY <1>7
    <2> DEFINE r == work[w].item.row
    <2>2. /\ r \in Rows /\ attempts[r].status = "pending" /\ Held(w) = {work[w].item}
          /\ Waiting(w) = work[w].batch /\ work[w].batch \in SUBSET AttemptItem
          /\ work[w].phase = "sending" /\ Do(w, Rest(w, work[w].batch))
        BY <2>1, FinishCases, SendingShape
    <2>3. Latest(r)
        BY <2>2 DEF LastInHand
    <2>4. /\ \A v \in Workers \ {w} : work'[v] = work[v]
          /\ Waiting(w)' \subseteq Waiting(w) /\ Held(w)' = {}
          /\ work'[w].phase \in {"idle", "alerts", "query"}
          /\ w \in Callers => work'[w] = Idle
        BY <2>2, RestTask
    <2>5. PICK row \in {SucceededRow(r), FailedRow(r)} :
             attempts' = attempts \/ attempts' = [attempts EXCEPT ![r] = row]
        BY <2>1, FinishCases
    <2>6. attempts[r].retry = "never"
        BY <2>2, RowShape DEF RowsFit
    <2>7. /\ row \in Row /\ row.alert = attempts[r].alert /\ row.number = attempts[r].number
          /\ row.retry # "never" => row.status = "failed" /\ row.number <= MaxRetries
        BY <2>2, <2>6, RowChanges
    <2> HIDE DEF r
    <2>8. SameHistory /\ (\A s \in Rows \ {r} : attempts'[s] = attempts[s])
          /\ attempts'[r] \in {attempts[r], row}
        BY <2>1, <2>2, <2>5, <2>7, RowStep DEF SameHistory, FinishAttempt, world
    <2>9. \A s \in Rows : Retriable(s) => s # r /\ attempts'[s] = attempts[s]
        BY <2>2, <2>8 DEF Retriable
    <2>10. \A v \in Workers :
              /\ \A item \in Waiting(v)' : item.row \in Rows /\ Retriable(item.row)
              /\ \A item \in Held(v)' : item.row \in Rows /\ Latest(item.row)
        BY <1>2, <2>4, SameTask DEF LastInHand
    <2>11. \A s \in Rows :
              /\ attempts[s].status = "failed" => attempts'[s].status = "failed"
              /\ attempts'[s].retry # "never" =>
                    attempts'[s].status = "failed" /\ Latest(s) /\ attempts[s].number <= MaxRetries
        BY <2>2, <2>3, <2>6, <2>7, <2>8 DEF LastInHand, Retriable
    <2>12. ASSUME NEW p \in Polls, work'[p].phase = "claimed"
           PROVE  /\ \E s \in Rows : work'[p].item.row = s /\ Retriable(s) /\ attempts'[s].retry = "never"
                  /\ work'[p].item \notin work'[p].batch
        <3>1. p # w /\ work'[p] = work[p]
            BY <2>4, <2>12
        <3>2. work[p].item \in Held(p)
            BY <2>12, <3>1 DEF Held
        <3> QED
            BY <1>2, <2>9, <2>12, <3>1, <3>2 DEF LastInHand
    <2>13. LastInHand'
        BY <2>8, <2>10, <2>11, <2>12, LastFrame
    <2>14. \A p \in Polls : work'[p] # Idle => work[p] # Idle
        BY <2>2, <2>4 DEF Idle
    <2> QED
        BY <2>8, <2>13, <2>14, ChainedFrame, OnePollFrame
<1>8. CASE \E p \in Polls : StartPoll(p)
    <2>1. PICK p \in Polls : StartPoll(p)
        BY <1>8
    <2>2. PICK batch \in SUBSET AttemptItem :
             /\ Do(p, [phase |-> "alerts", batch |-> batch]) /\ attempts' = attempts
             /\ \A item \in batch : item.row \in Rows /\ Due(item.row)
             /\ \A q \in Polls : work[q] = Idle
        BY <1>1, <2>1, StartCases
    <2>3. work'[p] = [phase |-> "alerts", batch |-> batch]
          /\ \A v \in Workers \ {p} : work'[v] = work[v]
        BY <2>2, DoSets
    <2>4. Waiting(p)' = batch /\ Held(p)' = {} /\ work'[p].phase = "alerts"
        BY <2>3 DEF Waiting, Held, AlertPhases
    <2>5. SameHistory /\ \A r \in Rows : Due(r) => Retriable(r)
        BY <2>2 DEF SameHistory, Rows, Due, LastInHand
    <2>6. \A v \in Workers :
              /\ \A item \in Waiting(v)' : item.row \in Rows /\ Retriable(item.row)
              /\ \A item \in Held(v)' : item.row \in Rows /\ Latest(item.row)
        BY <1>2, <2>2, <2>3, <2>4, <2>5, SameTask DEF LastInHand
    <2>7. \A q \in Polls : work'[q].phase # "claimed"
        BY <2>2, <2>3, <2>4 DEF Idle
    <2>8. LastInHand'
        BY <2>2, <2>5, <2>6, <2>7, LastFrame DEF LastInHand, Retriable
    <2>9. OnePoll'
        BY <2>2, <2>3 DEF OnePoll
    <2> QED
        BY <2>5, <2>8, <2>9, ChainedFrame
<1>9. CASE \E p \in Polls : Claim(p)
    <2>1. PICK p \in Polls : Claim(p)
        BY <1>9
    <2>2. PICK item \in work[p].batch :
             /\ item \in AttemptItem /\ Refers(item) /\ Waiting(p) = work[p].batch
             /\ work[p].phase = "alerts" /\ work[p].batch \ {item} \in SUBSET AttemptItem
             /\ \/ /\ attempts' = [attempts EXCEPT ![item.row] = ClaimedRow(item.row)]
                   /\ Do(p, ClaimedTask(item, work[p].batch \ {item}))
                \/ /\ attempts' \in {attempts, [attempts EXCEPT ![item.row] = ClaimedRow(item.row)]}
                   /\ Do(p, Rest(p, work[p].batch \ {item}))
        BY <2>1, ClaimCases
    <2> DEFINE rest == work[p].batch \ {item}
               r == item.row
    <2>3. r \in Rows /\ sent' = sent /\ Retriable(r) /\ work[p] # Idle
        BY <2>1, <2>2 DEF Refers, Claim, world, LastInHand, Idle
    <2>4. ClaimedRow(r) \in Row /\ ClaimedRow(r).alert = attempts[r].alert
          /\ ClaimedRow(r).number = attempts[r].number /\ ClaimedRow(r).retry = "never"
          /\ ClaimedRow(r).status = attempts[r].status
        BY <2>3, RowChanges
    <2>5. /\ SameHistory /\ \A s \in Rows \ {r} : attempts'[s] = attempts[s]
          /\ attempts'[r] \in {attempts[r], ClaimedRow(r)}
        BY <2>2, <2>3, <2>4, RowStep DEF SameHistory
    <2>6. /\ \A v \in Workers \ {p} : work'[v] = work[v]
          /\ Waiting(p)' \subseteq work[p].batch
          /\ Held(p)' \subseteq {item}
          /\ work'[p].phase = "claimed" =>
                /\ attempts' = [attempts EXCEPT ![r] = ClaimedRow(r)]
                /\ work'[p].item = item /\ work'[p].batch = rest
        <3>1. CASE /\ attempts' = [attempts EXCEPT ![r] = ClaimedRow(r)]
                   /\ Do(p, ClaimedTask(item, rest))
            <4>1. work'[p] = ClaimedTask(item, rest) /\ \A v \in Workers \ {p} : work'[v] = work[v]
                BY <3>1, DoSets
            <4>2. Waiting(p)' = rest /\ Held(p)' = {item} /\ work'[p].item = item /\ work'[p].batch = rest
                BY <4>1 DEF ClaimedTask, Waiting, Held, AlertPhases
            <4> QED
                BY <3>1, <4>1, <4>2
        <3>2. CASE Do(p, Rest(p, rest))
            BY <2>2, <3>2, RestTask
        <3> QED
            BY <2>2, <3>1, <3>2
    <2>7. work'[p].phase = "claimed" => attempts'[r].retry = "never" /\ item \notin rest
        BY <2>3, <2>4, <2>6, RowSets
    <2> HIDE DEF rest, r
    <2>8. \A v \in Workers :
              /\ \A i \in Waiting(v)' : i.row \in Rows /\ Retriable(i.row)
              /\ \A i \in Held(v)' : i.row \in Rows /\ Latest(i.row)
        <3>1. \A i \in work[p].batch : i.row \in Rows /\ Retriable(i.row)
            BY <1>2, <2>2 DEF LastInHand
        <3>2. \A i \in Held(p)' : i.row \in Rows /\ Latest(i.row)
            BY <2>2, <2>6, <3>1 DEF Retriable
        <3> QED
            BY <1>2, <2>6, <3>1, <3>2, SameTask DEF LastInHand
    <2>9. \A s \in Rows :
              /\ attempts[s].status = "failed" => attempts'[s].status = "failed"
              /\ attempts'[s].retry # "never" =>
                    attempts'[s].status = "failed" /\ Latest(s) /\ attempts[s].number <= MaxRetries
        BY <2>3, <2>4, <2>5 DEF LastInHand, Retriable
    <2>10. ASSUME NEW q \in Polls, work'[q].phase = "claimed"
           PROVE  /\ \E s \in Rows : work'[q].item.row = s /\ Retriable(s) /\ attempts'[s].retry = "never"
                  /\ work'[q].item \notin work'[q].batch
        <3>1. q = p
            BY <1>4, <2>3, <2>6, <2>10 DEF Idle
        <3> QED
            BY <2>3, <2>6, <2>7, <2>10, <3>1 DEF r
    <2>11. LastInHand'
        BY <2>5, <2>8, <2>9, <2>10, LastFrame
    <2>12. \A q \in Polls : work'[q] # Idle => work[q] # Idle
        BY <2>3, <2>6
    <2> QED
        BY <2>5, <2>11, <2>12, ChainedFrame, OnePollFrame
<1>10. CASE \E p \in Polls : Retry(p)
    <2>1. PICK p \in Polls : Retry(p)
        BY <1>10
    <2>2. PICK item : item = work[p].item
        OBVIOUS
    <2>3. PICK l : l = item.row
        OBVIOUS
    <2>4. /\ l \in Rows /\ item \in AttemptItem /\ item.number = attempts[l].number
          /\ work[p].batch \in SUBSET AttemptItem /\ Waiting(p) = work[p].batch
          /\ Held(p) = {item} /\ work[p].phase = "claimed" /\ work[p] # Idle
        BY <2>1, <2>2, <2>3, RetryCases, ClaimedShape DEF Idle
    <2>5. Retriable(l) /\ attempts[l].retry = "never" /\ item \notin work[p].batch
        BY <2>2, <2>3, <2>4 DEF LastInHand
    <2>6. CASE CreateAttempt(p, attempts[l].alert, item.number + 1, work[p].batch)
        <3>1. PICK b \in Alerts : b = attempts[l].alert
            BY <2>4, RowShape
        <3>2. item.number + 1 \in Nat \ {0} /\ item.number + 1 <= MaxRetries + 1
            BY <2>4, <2>5, RowShape, DeliveryRetryAssumption DEF Retriable
        <3>3. \A r \in Rows : Latest(r) /\ attempts[r].alert = b => r = l
            BY <2>4, <2>5, <3>1, LatestOnly DEF Retriable
        <3>4. \A r \in Rows : attempts[r].alert = b => attempts[r].retry = "never"
            BY <2>5, <3>3 DEF LastInHand, Retriable
        <3>5. ASSUME NEW v \in Workers, NEW i \in Waiting(v) PROVE attempts[i.row].alert # b
            <4>1. v = p
                BY <1>4, <2>4, <3>5
            <4>2. i \in AttemptItem /\ i.row \in Rows /\ Latest(i.row) /\ attempts[i.row].number = i.number
                BY <2>4, <3>5, <4>1 DEF LastInHand, Retriable, ItemsRefer, Refers
            <4>3. i # item
                BY <2>4, <2>5, <3>5, <4>1
            <4>4. i.row = l => i = item
                BY <2>3, <2>4, <4>2 DEF AttemptItem
            <4> QED
                BY <3>3, <4>2, <4>3, <4>4
        <3>6. ASSUME NEW v \in Workers \ {p}, NEW i \in Held(v) PROVE attempts[i.row].alert # b
            <4>1. v \in Callers
                BY <1>3, <1>4, <2>4, <3>6
            <4>2. Sending(v, i.row) /\ i.row \in Rows /\ Latest(i.row)
                BY <1>2, <3>6, <4>1 DEF Held, Sending, ItemsRefer, LastInHand
            <4>3. attempts[i.row].status = "pending"
                BY <4>2, HeldRow
            <4> QED
                BY <2>5, <3>3, <4>2, <4>3 DEF Retriable
        <3>7. LastInHand'
            BY <2>4, <2>6, <3>1, <3>2, <3>4, <3>5, <3>6, LastCreate
        <3>8. \A r \in Rows' : Chained(r)'
            BY <2>4, <2>5, <2>6, <3>1, <3>2, ChainedCreate DEF Retriable
        <3>9. OnePoll'
            BY <2>4, <2>6, DoSets, OnePollFrame DEF CreateAttempt
        <3> QED
            BY <3>7, <3>8, <3>9
    <2>7. CASE attempts' = attempts /\ Do(p, Rest(p, work[p].batch))
        <3>1. /\ \A v \in Workers \ {p} : work'[v] = work[v]
              /\ Waiting(p)' \subseteq Waiting(p) /\ Held(p)' = {}
              /\ work'[p].phase \in {"idle", "alerts", "query"}
            BY <2>4, <2>7, RestTask
        <3>2. SameHistory
            BY <2>7 DEF SameHistory, Rows
        <3>3. \A v \in Workers :
                  /\ \A i \in Waiting(v)' : i.row \in Rows /\ Retriable(i.row)
                  /\ \A i \in Held(v)' : i.row \in Rows /\ Latest(i.row)
            BY <1>2, <3>1, SameTask DEF LastInHand
        <3>4. \A q \in Polls : work'[q].phase # "claimed"
            BY <1>4, <2>4, <3>1 DEF Idle
        <3>5. LastInHand'
            BY <2>7, <3>2, <3>3, <3>4, LastFrame DEF LastInHand, Retriable
        <3>6. OnePoll'
            BY <2>4, <3>1, OnePollFrame
        <3> QED
            BY <3>2, <3>5, <3>6, ChainedFrame
    <2> QED
        BY <2>1, <2>2, <2>3, <2>6, <2>7, RetryCases
<1>11. CASE \E r \in Rows : AttemptBecomesDue(r)
    <2>1. PICK r \in Rows : AttemptBecomesDue(r)
        BY <1>11
    <2>2. attempts' = [attempts EXCEPT ![r] = DueRow(r)] /\ work' = work
          /\ attempts[r].retry = "later" /\ sent' = sent
        BY <2>1 DEF AttemptBecomesDue, world
    <2>3. DueRow(r) \in Row /\ DueRow(r).alert = attempts[r].alert
          /\ DueRow(r).number = attempts[r].number /\ DueRow(r).status = attempts[r].status
        BY RowChanges
    <2>4. /\ Rows' = Rows /\ attempts'[r] = DueRow(r)
          /\ \A s \in Rows \ {r} : attempts'[s] = attempts[s]
        BY <2>2, <2>3, RowSets
    <2>5. SameHistory
        BY <2>3, <2>4 DEF SameHistory
    <2>6. \A w \in Workers : Waiting(w)' = Waiting(w) /\ Held(w)' = Held(w)
        BY <2>2, SameTask
    <2>7. \A w \in Workers :
              /\ \A item \in Waiting(w)' : item.row \in Rows /\ Retriable(item.row)
              /\ \A item \in Held(w)' : item.row \in Rows /\ Latest(item.row)
        BY <1>2, <2>6 DEF LastInHand
    <2>8. \A s \in Rows :
              /\ attempts[s].status = "failed" => attempts'[s].status = "failed"
              /\ attempts'[s].retry # "never" =>
                    attempts'[s].status = "failed" /\ Latest(s) /\ attempts[s].number <= MaxRetries
        BY <2>2, <2>3, <2>4 DEF LastInHand, Retriable
    <2>9. ASSUME NEW p \in Polls, work'[p].phase = "claimed"
          PROVE  /\ \E s \in Rows : work'[p].item.row = s /\ Retriable(s) /\ attempts'[s].retry = "never"
                 /\ work'[p].item \notin work'[p].batch
        <3>1. work[p].phase = "claimed" /\ work'[p] = work[p] /\ work[p].item \in Held(p)
            BY <2>2, <2>9 DEF Held
        <3>2. work[p].item.row \in Rows /\ work[p].item.row # r
            BY <1>2, <2>2, <3>1 DEF LastInHand
        <3> QED
            BY <2>4, <3>1, <3>2 DEF LastInHand
    <2>10. LastInHand'
        BY <2>5, <2>7, <2>8, <2>9, LastFrame
    <2> QED
        BY <2>2, <2>5, <2>10, ChainedFrame, OnePollFrame
<1>12. CASE RetryAllForChannel
    BY <1>1, <1>12 DEF RetryAllForChannel, Extra, Fault
<1>13. CASE DeliveryCrash
    <2>1. \A w \in Workers : work'[w] = Idle
        BY <1>13 DEF DeliveryCrash
    <2>2. \A w \in Workers : Waiting(w)' = {} /\ Held(w)' = {} /\ work'[w].phase = "idle"
        BY <2>1 DEF Waiting, Held, AlertPhases, Idle
    <2>3. attempts' = attempts /\ SameHistory
        BY <1>13 DEF DeliveryCrash, tables, SameHistory, Rows
    <2>4. LastInHand'
        BY <2>2, <2>3, LastFrame DEF LastInHand, Retriable
    <2> QED
        BY <2>1, <2>3, <2>4, ChainedFrame, OnePollFrame
<1>14. CASE HooksMove
    <2>1. attempts' = attempts /\ SameHistory
        BY <1>14, HooksTasks DEF SameHistory, Rows
    <2>2. \A w \in Workers :
              /\ Waiting(w)' = Waiting(w) /\ Held(w)' = Held(w)
              /\ work'[w].phase = "claimed" => work'[w] = work[w]
              /\ w \in Polls /\ work'[w] # Idle => work[w] # Idle
        BY <1>14, HooksFrame
    <2>3. ASSUME NEW p \in Polls, work'[p].phase = "claimed"
          PROVE  /\ \E s \in Rows : work'[p].item.row = s /\ Retriable(s) /\ attempts'[s].retry = "never"
                 /\ work'[p].item \notin work'[p].batch
        <3>1. work'[p] = work[p] /\ work[p].item \in Held(p)
            BY <2>2, <2>3 DEF Held
        <3> QED
            BY <1>2, <2>1, <2>3, <3>1 DEF LastInHand
    <2>4. LastInHand'
        BY <1>2, <2>1, <2>2, <2>3, LastFrame DEF LastInHand, Retriable
    <2> QED
        BY <2>1, <2>2, <2>4, ChainedFrame, OnePollFrame
<1> QED
    BY <1>5, <1>6, <1>7, <1>8, <1>9, <1>10, <1>11, <1>12, <1>13, <1>14, StepCases

-----------------------------------------------------------------------------
(***************************************************************************)
(* The theorems about deliveries.                                          *)
(***************************************************************************)
LEMMA DeliveryInvInit == DeliveryInit => DeliveryInv
<1> SUFFICES ASSUME DeliveryInit PROVE DeliveryInv
    OBVIOUS
<1>1. DeliveryTypeOK
    BY DeliveryTypeInit
<1>2. Rows = {} /\ sent = {} /\ \A w \in Workers : work[w] = Idle
    BY DEF DeliveryInit, Rows
<1>3. \A w \in Workers : Waiting(w) = {} /\ Held(w) = {} /\ work[w].phase = "idle"
    BY <1>2 DEF Waiting, Held, AlertPhases, Idle
<1>4. ItemsRefer /\ RowsFit
    BY <1>2, <1>3, PollsAndCallers DEF ItemsRefer, RowsFit
<1>5. OneChain
    BY <1>2, <1>3, PollsAndCallers DEF OneChain, Chain, OnePoll, LastInHand
<1>6. NoDeliveryForgotten
    BY <1>2 DEF NoDeliveryForgotten, DeliveryInit
<1> QED
    BY <1>1, <1>4, <1>5, <1>6 DEF DeliveryInv

LEMMA DeliveryInvStep ==
    ASSUME DeliveryInv, [DeliveryNext]_deliveryVars
    PROVE  DeliveryInv'
<1> USE DEF DeliveryInv
<1>1. DeliveryTypeOK' /\ trouble' = trouble
    BY DeliveryTypeStep
<1>2. ItemsRefer' /\ RowsFit'
    BY ReferencesStep DEF References
<1>3. OneChain'
    <2>1. Regular' <=> Regular
        BY <1>1 DEF Regular
    <2> QED
        BY <2>1, ChainStep DEF OneChain, References
<1>4. NoDeliveryForgotten'
    <2>1. Reliable' <=> Reliable
        BY <1>1 DEF Reliable
    <2>2. Reliable => (\A a \in sent : Tended(a)) /\ \A h \in Hooks : HookTended(h)
        BY ForgottenDef
    <2>3. Reliable => (\A a \in sent' : Tended(a)') /\ \A h \in Hooks : HookTended(h)'
        BY <2>2, AlertsTended, HooksTended DEF References
    <2> QED
        BY <2>1, <2>3 DEF NoDeliveryForgotten, Reliable, Tended, HookTended
<1> QED
    BY <1>1, <1>2, <1>3, <1>4

LEMMA DeliveryInvAlways == DeliverySpec => []DeliveryInv
<1>1. DeliveryInv /\ [DeliveryNext]_deliveryVars => DeliveryInv'
    BY DeliveryInvStep
<1> QED
    BY <1>1, DeliveryInvInit, PTL DEF DeliverySpec

\* As long as polls do not overlap and nobody asks for a retry, the attempts to
\* deliver an alert form one chain, numbered from 1 and never longer than the
\* schedule allows, whatever query fails and whenever the process dies
\* (retry-service.ts, delivery-tracking.ts).
THEOREM AttemptsFormAChainHolds == DeliverySpec => []AttemptsFormAChain
<1>1. DeliveryInv => AttemptsFormAChain
    BY DEF DeliveryInv, OneChain, Regular, Chain, Chained, AttemptsFormAChain
<1> QED
    BY <1>1, DeliveryInvAlways, PTL

\* While no query fails and no process dies, an alert or webhook that was not
\* delivered is being delivered, waits for its retry or was tried to the end of
\* the schedule, however polls overlap and users interfere.
THEOREM NoDeliveryForgottenHolds == DeliverySpec => []NoDeliveryForgotten
<1>1. DeliveryInv => NoDeliveryForgotten
    BY DEF DeliveryInv
<1> QED
    BY <1>1, DeliveryInvAlways, PTL

================================================================================
