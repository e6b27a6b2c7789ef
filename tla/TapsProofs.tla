------------------------------ MODULE TapsProofs -------------------------------
(***************************************************************************)
(* Live taps on the push channel, for any number of server processes,      *)
(* streams, taps and messages on their way: the stream an agent reads is   *)
(* the one registered for it, a tap without a row has a stop on its way,   *)
(* and messages that take one route keep their order.                      *)
(***************************************************************************)
EXTENDS Taps, FiniteSetTheorems, SequenceTheorems, TLAPS

ends == <<connections, stream, left, opened>>

(***************************************************************************)
(* LiveStreamIsRegistered is not inductive: that the notice of an old      *)
(* stream does not remove the live one needs that the live one was not     *)
(* left, and that needs the ids of the streams to grow.                    *)
(***************************************************************************)
EndsOK ==
    /\ connections \in [Instances -> Stream \cup {NoStream}]
    /\ stream \in Stream \cup {NoStream}
    /\ left \subseteq Stream
    /\ opened \in 1 .. MaxStreams

StreamsAreNumbered ==
    /\ \A s \in left : s.id <= opened
    /\ stream # NoStream => stream.id <= opened /\ stream \notin left

Registered == EndsOK /\ StreamsAreNumbered /\ LiveStreamIsRegistered

\* NoStream is told from every stream by its number.
LEMMA NoStreamIsNone == NoStream \notin Stream
BY DEF NoStream, Stream

\* The first stream of the agent is registered by the process it reached.
LEMMA InitRegistered == Init => Registered
<1> SUFFICES ASSUME Init PROVE Registered
    OBVIOUS
<1>1. PICK i \in Instances : stream = [id |-> 1, at |-> i]
    BY DEF Init, ChannelInit
<1>2. 1 \in 1 .. MaxStreams
    BY PushChannelAssumption
<1>3. stream \in Stream /\ stream.id = 1 /\ stream.at \in Instances
    BY <1>1, <1>2 DEF Stream
<1>4. EndsOK
    BY <1>2, <1>3 DEF EndsOK, Init, ChannelInit
<1>5. StreamsAreNumbered
    BY <1>3 DEF StreamsAreNumbered, Init, ChannelInit
<1>6. LiveStreamIsRegistered
    BY <1>3 DEF LiveStreamIsRegistered, Init, ChannelInit
<1> QED
    BY <1>4, <1>5, <1>6 DEF Registered

\* PushRegistry.register: a new stream has a number nobody had.
LEMMA ConnectRegistered ==
    ASSUME NEW i \in Instances, Registered, Connect(i)
    PROVE  Registered'
<1> DEFINE new == [id |-> opened + 1, at |-> i]
<1>1. opened \in Nat /\ MaxStreams \in Nat /\ opened + 1 \in 1 .. MaxStreams
    BY PushChannelAssumption DEF Registered, EndsOK, Connect
<1>2. new \in Stream /\ new.id = opened + 1 /\ new.at = i
    BY <1>1 DEF Stream
<1>3. /\ stream' = new /\ opened' = opened + 1 /\ left' = left
      /\ connections' = [connections EXCEPT ![i] = new]
    BY DEF Connect
<1>4. EndsOK'
    BY <1>1, <1>2, <1>3 DEF Registered, EndsOK
<1>5. \A s \in left : s.id \in Nat /\ s.id <= opened
    BY <1>1 DEF Registered, EndsOK, StreamsAreNumbered, Stream
<1>6. new \notin left
    BY <1>1, <1>2, <1>5
<1>7. StreamsAreNumbered'
    BY <1>1, <1>2, <1>3, <1>5, <1>6 DEF StreamsAreNumbered
<1>8. LiveStreamIsRegistered'
    BY <1>2, <1>3 DEF LiveStreamIsRegistered, Registered, EndsOK
<1> QED
    BY <1>4, <1>7, <1>8 DEF Registered

\* The end of a stream, as the agent sees it.
LEMMA DisconnectRegistered ==
    ASSUME Registered, Disconnect
    PROVE  Registered'
<1>1. stream \in Stream /\ stream.id <= opened
    BY DEF Disconnect, Registered, EndsOK, StreamsAreNumbered
<1>2. /\ left' = left \cup {stream} /\ stream' = NoStream
      /\ connections' = connections /\ opened' = opened
    BY DEF Disconnect
<1>3. EndsOK' /\ StreamsAreNumbered' /\ LiveStreamIsRegistered'
    BY <1>1, <1>2 DEF Registered, EndsOK, StreamsAreNumbered, LiveStreamIsRegistered
<1> QED
    BY <1>3 DEF Registered

\* PushRegistry.unregister: it compares the controller, so the notice of an
\* old stream leaves the live one alone.
LEMMA NoticeRegistered ==
    ASSUME NEW s \in left, Registered, Notice(s)
    PROVE  Registered'
<1>1. s \in Stream /\ s.at \in Instances
    BY DEF Registered, EndsOK, Stream
<1>2. stream # NoStream => stream # s
    BY DEF Registered, StreamsAreNumbered
<1>3. /\ left' = left \ {s} /\ stream' = stream /\ opened' = opened
      /\ connections' = [connections EXCEPT ![s.at] = IF @ = s THEN NoStream ELSE @]
    BY DEF Notice, Unregister
<1>4. connections[s.at] \in Stream \cup {NoStream}
    BY <1>1 DEF Registered, EndsOK
<1>5. EndsOK' /\ StreamsAreNumbered'
    BY <1>3, <1>4 DEF Registered, EndsOK, StreamsAreNumbered
<1>6. LiveStreamIsRegistered'
    <2> SUFFICES ASSUME stream # NoStream
                 PROVE  connections'[stream.at] = stream
        BY <1>3 DEF LiveStreamIsRegistered
    <2>1. connections[stream.at] = stream /\ stream.at \in Instances
        BY DEF Registered, EndsOK, LiveStreamIsRegistered, Stream
    <2> QED
        BY <1>2, <1>3, <2>1 DEF Registered, EndsOK
<1> QED
    BY <1>5, <1>6 DEF Registered

\* Everything else, the pushes and the taps, only moves messages.
LEMMA OthersKeepTheEnds ==
    ASSUME [Next]_vars,
           ~ \E i \in Instances : Connect(i),
           ~ Disconnect,
           ~ \E s \in left : Notice(s)
    PROVE  UNCHANGED ends
<1>1. CASE \E i \in Instances : Hear(i)
    BY <1>1 DEF Hear, ends
<1>2. CASE Receive
    BY <1>2 DEF Receive, ends
<1>3. CASE \E i \in Instances : Server(i)
    <2>1. \A i \in Instances : \A ms : Relay(i, ms) => UNCHANGED ends
        BY DEF Relay, ends
    <2>2. NotRelayed => UNCHANGED ends
        BY DEF NotRelayed, ends
    <2>3. ASSUME NEW i \in Instances, NEW t \in Taps, StartTap(i, t) \/ StopTap(i, t)
          PROVE  UNCHANGED ends
        BY <2>1, <2>2, <2>3 DEF StartTap, StopTap
    <2>4. ASSUME NEW i \in Instances, FindStale(i) PROVE UNCHANGED ends
        BY <2>4 DEF FindStale, channelVars, ends
    <2>5. ASSUME NEW i \in Instances, DeleteStale(i) PROVE UNCHANGED ends
        BY <2>1, <2>2, <2>5 DEF DeleteStale
    <2> QED
        BY <1>3, <2>3, <2>4, <2>5 DEF Server
<1>4. CASE MainLoop
    <2>1. \A m : Handle(m) => UNCHANGED ends
        BY DEF Handle, ends
    <2> QED
        BY <1>4, <2>1 DEF MainLoop, HandleStart, HandleStop, Stopped, channelVars, ends
<1>5. CASE \E t \in Taps : Expire(t) \/ TimesOut(t) \/ Ends(t) \/ Unlist(t)
    BY <1>5 DEF Expire, TimesOut, Ends, Unlist, channelVars, ends
<1>6. CASE UNCHANGED vars
    BY <1>6 DEF vars, channelVars, ends
<1> QED
    BY <1>1, <1>2, <1>3, <1>4, <1>5, <1>6 DEF Next, ChannelNext

\* The inductive step.
LEMMA StepRegistered == Registered /\ [Next]_vars => Registered'
<1> SUFFICES ASSUME Registered, [Next]_vars PROVE Registered'
    OBVIOUS
<1>1. CASE \E i \in Instances : Connect(i)
    BY <1>1, ConnectRegistered
<1>2. CASE Disconnect
    BY <1>2, DisconnectRegistered
<1>3. CASE \E s \in left : Notice(s)
    BY <1>3, NoticeRegistered
<1>4. CASE UNCHANGED ends
    BY <1>4 DEF ends, Registered, EndsOK, StreamsAreNumbered, LiveStreamIsRegistered
<1> QED
    BY <1>1, <1>2, <1>3, <1>4, OthersKeepTheEnds

\* The registry of the process that serves an agent's stream holds that very
\* stream, whatever is pushed, lost or noticed late
\* (src/server/services/push-registry.ts).
THEOREM LiveStreamIsRegisteredHolds == Spec => []LiveStreamIsRegistered
<1>1. Registered => LiveStreamIsRegistered
    BY DEF Registered
<1> QED
    BY <1>1, InitRegistered, StepRegistered, PTL DEF Spec

-----------------------------------------------------------------------------
(***************************************************************************)
(* The way of a message: the envelope of the process that serves the       *)
(* stream, the stream, the agent's queue.  Passing says what those three   *)
(* hold of a tap, and is inductive with TypeOK and Registered.             *)
(***************************************************************************)
\* What the process that serves the agent's stream has yet to hear of.
Nearest == IF stream # NoStream THEN bus[stream.at] ELSE <<>>

Single(s, m) == \A a, b \in DOMAIN s : s[a] = m /\ s[b] = m => a = b

InOrder(s, t) == \A a, b \in DOMAIN s : s[a] = Stop(t) /\ s[b] = Start(t) => b < a

\* Nobody speaks of a tap before its row is made.
Announced(t) ==
    row[t] = None =>
        /\ t \notin active
        /\ \A m \in {Start(t), Stop(t)} :
              /\ ~Within(pushCh, m) /\ ~Within(wire, m)
              /\ \A j \in Instances : ~Within(bus[j], m)

\* A process never hears of what it has published itself.
HeardFromOthers(t) ==
    \A j \in Instances : \A m \in {Start(t), Stop(t)} :
        Within(bus[j], m) => \E i \in pushers[t] : i # j

\* Without a stream nothing is in it, and nothing anywhere unless it is lost.
SilentWhileAway ==
    /\ \A i \in Instances : connections[i] # NoStream => connections[i].at = i
    /\ stream = NoStream => wire = <<>>
    /\ stream = NoStream /\ ~lost => \A i \in Instances : bus[i] = <<>>

\* As long as nothing is lost a start is on its way once, and no more when it
\* was accepted.
StartsOnce(t) ==
    ~lost =>
        /\ Single(pushCh, Start(t)) /\ Single(wire, Start(t)) /\ Single(Nearest, Start(t))
        /\ Within(pushCh, Start(t)) => ~Within(wire, Start(t)) /\ ~Within(Nearest, Start(t))
        /\ Within(wire, Start(t)) => ~Within(Nearest, Start(t))
        /\ t \in active => ~OnItsWay(Start(t))

\* The stop of a tap that runs without a row, or will, is on its way.
StopIsOwed(t) ==
    ~lost /\ t \notin overtaken /\ row[t] = "gone"
        /\ (run[t] = "running" \/ OnItsWay(Start(t)))
    => OnItsWay(Stop(t))

\* One process has pushed everything about the tap, into the first stream.
OneRoute(t) == opened = 1 /\ \A i, j \in pushers[t] : i = j

StopsFollow(t) ==
    OneRoute(t) =>
        /\ t \notin overtaken
        /\ InOrder(pushCh, t) /\ InOrder(wire, t)
        /\ \A j \in Instances : InOrder(bus[j], t)
        /\ Within(pushCh, Stop(t)) => ~Within(wire, Start(t)) /\ ~Within(Nearest, Start(t))
        /\ Within(wire, Stop(t)) => ~Within(Nearest, Start(t))

Passing ==
    /\ SilentWhileAway
    /\ \A t \in Taps :
          /\ run[t] \in {"running", "cancelled"} => t \in active
          /\ Announced(t) /\ HeardFromOthers(t)
          /\ StartsOnce(t) /\ StopIsOwed(t) /\ StopsFollow(t)

-----------------------------------------------------------------------------
(***************************************************************************)
(* Messages and sequences of them.                                         *)
(***************************************************************************)

\* Starts and stops of different taps are told apart.
LEMMA Messages ==
    /\ \A t \in Taps : Start(t) \in Message /\ Stop(t) \in Message
    /\ \A m \in Message : \E t \in Taps : m = Start(t) \/ m = Stop(t)
    /\ \A t, u : Start(t) # Stop(u)
    /\ \A t, u : (Start(t) = Start(u) \/ Stop(t) = Stop(u)) => t = u
<1>1. \A t \in Taps : Start(t) \in Message /\ Stop(t) \in Message
    BY DEF Message, Start, Stop
<1>2. \A m \in Message : \E t \in Taps : m = Start(t) \/ m = Stop(t)
    BY DEF Message, Start, Stop
<1>3. ASSUME NEW t, NEW u PROVE Start(t) # Stop(u)
    BY DEF Start, Stop
<1>4. ASSUME NEW t, NEW u, Start(t) = Start(u) PROVE t = u
    <2>1. Start(t).tap = t /\ Start(u).tap = u
        BY DEF Start
    <2> QED BY <1>4, <2>1
<1>5. ASSUME NEW t, NEW u, Stop(t) = Stop(u) PROVE t = u
    <2>1. Stop(t).tap = t /\ Stop(u).tap = u
        BY DEF Stop
    <2> QED BY <1>5, <2>1
<1> QED BY <1>1, <1>2, <1>3, <1>4, <1>5

\* Nothing is in the empty sequence.
LEMMA EmptyFacts ==
    /\ \A m : ~Within(<<>>, m) /\ Single(<<>>, m)
    /\ \A t : InOrder(<<>>, t)
    /\ <<>> \in Seq(Message)
BY DEF Within, Single, InOrder

\* What is left when the first message is taken.
LEMMA TailFacts ==
    ASSUME NEW s \in Seq(Message), s # <<>>
    PROVE  /\ Tail(s) \in Seq(Message) /\ Head(s) \in Message
           /\ Len(Tail(s)) = Len(s) - 1
           /\ \A m : Within(s, m) <=> m = Head(s) \/ Within(Tail(s), m)
           /\ \A m : Single(s, m) => /\ Single(Tail(s), m)
                                     /\ m = Head(s) => ~Within(Tail(s), m)
           /\ \A t : InOrder(s, t) => /\ InOrder(Tail(s), t)
                                      /\ Head(s) = Stop(t) => ~Within(Tail(s), Start(t))
<1> DEFINE n == Len(s)
           r == Tail(s)
<1>1. /\ n \in Nat \ {0} /\ DOMAIN s = 1..n
      /\ r \in Seq(Message) /\ Len(r) = n - 1 /\ DOMAIN r = 1..(n - 1)
      /\ Head(s) = s[1] /\ Head(s) \in Message
      /\ \A k \in 1..(n - 1) : r[k] = s[k + 1]
    BY EmptySeq
<1> HIDE DEF r, n
<1>2. /\ 1 \in DOMAIN s
      /\ \A k \in DOMAIN r : k \in Int /\ k + 1 \in DOMAIN s /\ k + 1 # 1
      /\ \A k \in DOMAIN s : k \in Int /\ (k = 1 \/ (k - 1 \in DOMAIN r /\ (k - 1) + 1 = k))
    BY <1>1
<1>3. \A k \in DOMAIN r : r[k] = s[k + 1]
    BY <1>1
<1>4. \A m : Within(s, m) <=> m = Head(s) \/ Within(r, m)
    <2> SUFFICES ASSUME NEW m PROVE Within(s, m) <=> m = Head(s) \/ Within(r, m)
        OBVIOUS
    <2>1. ASSUME NEW k \in DOMAIN s, s[k] = m, k # 1 PROVE r[k - 1] = m /\ k - 1 \in DOMAIN r
        BY <1>2, <1>3, <2>1
    <2>2. ASSUME NEW k \in DOMAIN r, r[k] = m PROVE s[k + 1] = m /\ k + 1 \in DOMAIN s
        BY <1>2, <1>3, <2>2
    <2> QED BY <1>1, <1>2, <2>1, <2>2 DEF Within
<1>5. ASSUME NEW m, Single(s, m)
      PROVE  Single(r, m) /\ (m = Head(s) => ~Within(r, m))
    <2>1. ASSUME NEW a \in DOMAIN r, NEW b \in DOMAIN r, r[a] = m, r[b] = m PROVE a = b
        <3>1. a + 1 = b + 1
            BY <1>2, <1>3, <1>5, <2>1 DEF Single
        <3> QED BY <1>2, <3>1
    <2>2. ASSUME m = Head(s), NEW a \in DOMAIN r, r[a] = m PROVE FALSE
        BY <1>1, <1>2, <1>3, <1>5, <2>2 DEF Single
    <2> QED BY <2>1, <2>2 DEF Single, Within
<1>6. ASSUME NEW t, InOrder(s, t)
      PROVE  InOrder(r, t) /\ (Head(s) = Stop(t) => ~Within(r, Start(t)))
    <2>1. ASSUME NEW a \in DOMAIN r, NEW b \in DOMAIN r, r[a] = Stop(t), r[b] = Start(t)
          PROVE  b < a
        <3>1. b + 1 < a + 1
            BY <1>2, <1>3, <1>6, <2>1 DEF InOrder
        <3> QED BY <1>2, <3>1
    <2>2. ASSUME Head(s) = Stop(t), NEW a \in DOMAIN r, r[a] = Start(t) PROVE FALSE
        <3>1. a + 1 < 1
            BY <1>1, <1>2, <1>3, <1>6, <2>2 DEF InOrder
        <3> QED BY <1>1, <3>1
    <2> QED BY <2>1, <2>2 DEF InOrder, Within
<1> QED BY <1>1, <1>4, <1>5, <1>6 DEF r, n

\* What a sequence holds to which others are appended.
LEMMA ConcatFacts ==
    ASSUME NEW s \in Seq(Message), NEW r \in Seq(Message)
    PROVE  /\ s \o r \in Seq(Message) /\ Len(s \o r) = Len(s) + Len(r)
           /\ \A m : Within(s \o r, m) <=> Within(s, m) \/ Within(r, m)
           /\ \A m : /\ Single(s, m) /\ ~Within(r, m) => Single(s \o r, m)
                     /\ Single(r, m) /\ ~Within(s, m) => Single(s \o r, m)
           /\ \A t : InOrder(s, t) /\ InOrder(r, t)
                     /\ ~(Within(s, Stop(t)) /\ Within(r, Start(t))) => InOrder(s \o r, t)
<1> DEFINE n == Len(s)
           w == Len(r)
           c == s \o r
<1>1. /\ n \in Nat /\ w \in Nat /\ DOMAIN s = 1..n /\ DOMAIN r = 1..w
    BY LenProperties
<1>2. /\ c \in Seq(Message) /\ Len(c) = n + w
      /\ \A k \in 1..(Len(s) + Len(r)) : c[k] = IF k <= Len(s) THEN s[k] ELSE r[k - Len(s)]
    BY ConcatProperties
<1> HIDE DEF c
<1>3. DOMAIN c = 1..(n + w)
    BY <1>2, LenProperties
<1> HIDE DEF n, w
<1>4. \A k \in DOMAIN s : k \in DOMAIN c /\ c[k] = s[k] /\ k \in Int /\ k <= n
    BY <1>1, <1>2, <1>3 DEF n, w
<1>5. \A k \in DOMAIN r : n + k \in DOMAIN c /\ c[n + k] = r[k] /\ k \in Int
    <2> SUFFICES ASSUME NEW k \in DOMAIN r
                 PROVE  n + k \in DOMAIN c /\ c[n + k] = r[k] /\ k \in Int
        OBVIOUS
    <2>1. k \in 1..w /\ n + k \in 1..(n + w) /\ ~(n + k <= n) /\ (n + k) - n = k
        BY <1>1
    <2> QED BY <1>2, <1>3, <2>1 DEF n, w
<1>6. \A k \in DOMAIN c : k \in Int /\ \/ k \in DOMAIN s /\ c[k] = s[k]
                                       \/ k - n \in DOMAIN r /\ c[k] = r[k - n] /\ n < k
    <2> SUFFICES ASSUME NEW k \in DOMAIN c
                 PROVE  k \in Int /\ \/ k \in DOMAIN s /\ c[k] = s[k]
                                     \/ k - n \in DOMAIN r /\ c[k] = r[k - n] /\ n < k
        OBVIOUS
    <2>1. k \in 1..(n + w)
        BY <1>3
    <2>2. CASE k <= n
        BY <1>1, <1>2, <2>1, <2>2 DEF n, w
    <2>3. CASE ~(k <= n)
        <3>1. k - n \in 1..w /\ n < k /\ k \in Int
            BY <1>1, <2>1, <2>3
        <3> QED BY <1>1, <1>2, <2>1, <2>3, <3>1 DEF n, w
    <2> QED BY <2>2, <2>3
<1>7. \A m : Within(c, m) <=> Within(s, m) \/ Within(r, m)
    BY <1>4, <1>5, <1>6 DEF Within
<1>8. ASSUME NEW m, Single(s, m), ~Within(r, m) PROVE Single(c, m)
    BY <1>6, <1>8 DEF Single, Within
<1>9. ASSUME NEW m, Single(r, m), ~Within(s, m) PROVE Single(c, m)
    <2> SUFFICES ASSUME NEW a \in DOMAIN c, NEW b \in DOMAIN c, c[a] = m, c[b] = m
                 PROVE  a = b
        BY DEF Single
    <2>1. a - n = b - n /\ a \in Int /\ b \in Int
        BY <1>6, <1>9 DEF Single, Within
    <2> QED BY <1>1, <2>1
<1>10. ASSUME NEW t, InOrder(s, t), InOrder(r, t), ~(Within(s, Stop(t)) /\ Within(r, Start(t)))
       PROVE  InOrder(c, t)
    <2> SUFFICES ASSUME NEW a \in DOMAIN c, NEW b \in DOMAIN c, c[a] = Stop(t), c[b] = Start(t)
                 PROVE  b < a
        BY DEF InOrder
    <2>0. a \in Int /\ b \in Int /\ n \in Int
        BY <1>1, <1>6
    <2>1. CASE a \in DOMAIN s /\ c[a] = s[a]
        <3>1. b \in DOMAIN s /\ c[b] = s[b]
            BY <1>6, <1>10, <2>1 DEF Within
        <3> QED BY <1>10, <2>1, <3>1 DEF InOrder
    <2>2. CASE a - n \in DOMAIN r /\ c[a] = r[a - n] /\ n < a
        <3>1. CASE b \in DOMAIN s
            BY <1>4, <2>0, <2>2, <3>1
        <3>2. CASE b - n \in DOMAIN r /\ c[b] = r[b - n]
            <4>1. b - n < a - n
                BY <1>10, <2>2, <3>2 DEF InOrder
            <4> QED BY <2>0, <4>1
        <3> QED BY <1>6, <3>1, <3>2
    <2> QED BY <1>6, <2>1, <2>2
<1> QED BY <1>2, <1>7, <1>8, <1>9, <1>10 DEF c, n, w

\* A message put at the end.
LEMMA AppendFacts ==
    ASSUME NEW s \in Seq(Message), NEW x \in Message
    PROVE  /\ Append(s, x) \in Seq(Message) /\ Len(Append(s, x)) = Len(s) + 1
           /\ \A m : Within(Append(s, x), m) <=> Within(s, m) \/ m = x
           /\ \A m : Single(s, m) /\ (m = x => ~Within(s, m)) => Single(Append(s, x), m)
           /\ \A t : InOrder(s, t) /\ ~(Within(s, Stop(t)) /\ x = Start(t))
                        => InOrder(Append(s, x), t)
<1> DEFINE one == <<x>>
<1>1. /\ one \in Seq(Message) /\ Append(s, x) = s \o one /\ Len(one) = 1
      /\ DOMAIN one = {1} /\ one[1] = x
    BY AppendIsConcat
<1>2. \A m : (Within(one, m) <=> m = x) /\ Single(one, m)
    BY <1>1 DEF Within, Single
<1>3. \A t : InOrder(one, t)
    BY <1>1, Messages DEF InOrder
<1> HIDE DEF one
<1>4. s \o one \in Seq(Message) /\ Len(s \o one) = Len(s) + Len(one)
    BY <1>1, ConcatFacts
<1>5. \A m : Within(s \o one, m) <=> Within(s, m) \/ Within(one, m)
    BY <1>1, ConcatFacts
<1>6. \A m : /\ Single(s, m) /\ ~Within(one, m) => Single(s \o one, m)
             /\ Single(one, m) /\ ~Within(s, m) => Single(s \o one, m)
    BY <1>1, ConcatFacts
<1>7. \A t : InOrder(s, t) /\ InOrder(one, t)
             /\ ~(Within(s, Stop(t)) /\ Within(one, Start(t))) => InOrder(s \o one, t)
    BY <1>1, ConcatFacts
<1> QED BY <1>1, <1>2, <1>3, <1>4, <1>5, <1>6, <1>7

\* A message is on its way in one of three places.
LEMMA OnItsWayIs ==
    /\ \A m : OnItsWay(m) <=> Within(pushCh, m) \/ Within(wire, m) \/ Within(Nearest, m)
    /\ \A m : OnItsWay(m)' <=> Within(pushCh', m) \/ Within(wire', m) \/ Within(Nearest', m)
BY EmptyFacts DEF OnItsWay, Nearest

-----------------------------------------------------------------------------
(***************************************************************************)
(* Pushes.                                                                 *)
(***************************************************************************)

\* What is put at the end of a sequence by a push, if anything is.
LEMMA GrownFacts ==
    ASSUME NEW s \in Seq(Message), NEW ms \in Seq(Message),
           NEW r, r = s \/ r = s \o ms
    PROVE  /\ r \in Seq(Message)
           /\ \A m : /\ Within(s, m) => Within(r, m)
                     /\ Within(r, m) => Within(s, m) \/ Within(ms, m)
                     /\ Single(s, m) /\ ~Within(ms, m) => Single(r, m)
                     /\ Single(ms, m) /\ Single(s, m) /\ ~Within(s, m) => Single(r, m)
           /\ \A t : InOrder(s, t) /\ InOrder(ms, t)
                     /\ ~(Within(s, Stop(t)) /\ Within(ms, Start(t))) => InOrder(r, t)
<1>1. CASE r = s
    BY <1>1
<1>2. CASE r = s \o ms
    <2>1. s \o ms \in Seq(Message)
          /\ \A m : Within(s \o ms, m) <=> Within(s, m) \/ Within(ms, m)
        BY ConcatFacts
    <2>2. \A m : /\ Single(s, m) /\ ~Within(ms, m) => Single(s \o ms, m)
                 /\ Single(ms, m) /\ ~Within(s, m) => Single(s \o ms, m)
        BY ConcatFacts
    <2>3. \A t : InOrder(s, t) /\ InOrder(ms, t)
                 /\ ~(Within(s, Stop(t)) /\ Within(ms, Start(t))) => InOrder(s \o ms, t)
        BY ConcatFacts
    <2> QED BY <1>2, <2>1, <2>2, <2>3
<1> QED BY <1>1, <1>2

\* The process that serves the stream sends, any other publishes, and either
\* may fail.
LEMMA RelayCases ==
    ASSUME TypeOK, Registered, SilentWhileAway, NEW i \in Instances, NEW ms \in Seq(Message),
           Relay(i, ms) \/ NotRelayed
    PROVE  /\ UNCHANGED <<connections, stream, left, opened, pushCh>>
           /\ \/ /\ stream # NoStream /\ i = stream.at
                 /\ wire' = wire \o ms /\ UNCHANGED <<bus, lost>>
              \/ /\ stream # NoStream => i # stream.at
                 /\ bus' = [j \in Instances |-> IF j = i THEN bus[j] ELSE bus[j] \o ms]
                 /\ lost' = (lost \/ stream = NoStream) /\ UNCHANGED wire
              \/ lost' = TRUE /\ UNCHANGED <<wire, bus>>
<1>1. CASE NotRelayed
    BY <1>1 DEF NotRelayed
<1>2. CASE Relay(i, ms)
    <2>1. UNCHANGED <<connections, stream, left, opened, pushCh>>
        BY <1>2 DEF Relay
    <2>2. CASE connections[i] # NoStream
        <3>1. connections[i].at = i
            BY <2>2 DEF SilentWhileAway
        <3>2. CASE connections[i] = stream
            BY <1>2, <2>1, <2>2, <3>1, <3>2 DEF Relay, Enqueue
        <3>3. CASE connections[i] # stream
            BY <1>2, <2>1, <2>2, <3>3 DEF Relay, Enqueue
        <3> QED BY <3>2, <3>3
    <2>3. CASE connections[i] = NoStream
        <3>1. stream # NoStream => i # stream.at
            BY <2>3 DEF Registered, LiveStreamIsRegistered
        <3> QED BY <1>2, <2>1, <2>3, <3>1 DEF Relay, Publish
    <2> QED BY <2>2, <2>3
<1> QED BY <1>1, <1>2

\* What a push does to the way of its messages and of all others.
LEMMA RelayEffect ==
    ASSUME TypeOK, Registered, SilentWhileAway, NEW i \in Instances, NEW ms \in Seq(Message),
           Relay(i, ms) \/ NotRelayed
    PROVE  /\ UNCHANGED <<connections, stream, left, opened, pushCh>>
           /\ wire' \in Seq(Message) /\ bus' \in [Instances -> Seq(Message)]
           /\ lost' \in BOOLEAN /\ (lost => lost')
           /\ SilentWhileAway'
           /\ wire' = wire \/ wire' = wire \o ms
           /\ Nearest' = Nearest \/ Nearest' = Nearest \o ms
           /\ \A j \in Instances : bus'[j] = bus[j] \/ (i # j /\ bus'[j] = bus[j] \o ms)
           /\ wire' = wire \/ (Nearest' = Nearest /\ stream # NoStream /\ i = stream.at)
           /\ ~lost' => \/ wire' = wire \o ms
                        \/ Nearest' = Nearest \o ms
           /\ Nearest \in Seq(Message)
<1>0. /\ wire \in Seq(Message) /\ bus \in [Instances -> Seq(Message)] /\ lost \in BOOLEAN
      /\ stream \in Stream \cup {NoStream}
    BY DEF TypeOK, ChannelTypeOK
<1>1. stream # NoStream => stream.at \in Instances
    BY <1>0 DEF Stream
<1>2. Nearest \in Seq(Message)
    BY <1>0, <1>1, EmptyFacts DEF Nearest
<1>3. \A s \in Seq(Message) : s \o ms \in Seq(Message)
    BY ConcatFacts
<1>4. UNCHANGED <<connections, stream, left, opened, pushCh>>
    BY RelayCases
<1>5. CASE /\ stream # NoStream /\ i = stream.at
           /\ wire' = wire \o ms /\ UNCHANGED <<bus, lost>>
    <2>1. Nearest' = Nearest
        BY <1>4, <1>5 DEF Nearest
    <2>2. SilentWhileAway'
        BY <1>4, <1>5 DEF SilentWhileAway
    <2> QED BY <1>0, <1>2, <1>3, <1>4, <1>5, <2>1, <2>2
<1>6. CASE /\ stream # NoStream => i # stream.at
           /\ bus' = [j \in Instances |-> IF j = i THEN bus[j] ELSE bus[j] \o ms]
           /\ lost' = (lost \/ stream = NoStream) /\ UNCHANGED wire
    <2>1. stream # NoStream => Nearest' = Nearest \o ms
        BY <1>1, <1>4, <1>6 DEF Nearest
    <2>2. stream = NoStream => Nearest' = Nearest
        BY <1>4 DEF Nearest
    <2>3. SilentWhileAway'
        BY <1>4, <1>6 DEF SilentWhileAway
    <2>4. \A j \in Instances : bus'[j] = bus[j] \/ (i # j /\ bus'[j] = bus[j] \o ms)
        BY <1>6
    <2>5. bus' \in [Instances -> Seq(Message)]
        BY <1>0, <1>3, <1>6
    <2>6. lost' \in BOOLEAN /\ (lost => lost') /\ (~lost' => stream # NoStream)
        BY <1>0, <1>6
    <2>7. wire' = wire /\ wire' \in Seq(Message)
        BY <1>0, <1>6
    <2>8. Nearest' = Nearest \/ Nearest' = Nearest \o ms
        BY <2>1, <2>2
    <2>9. ~lost' => Nearest' = Nearest \o ms
        BY <2>1, <2>6
    <2> QED BY <1>2, <1>4, <2>3, <2>4, <2>5, <2>6, <2>7, <2>8, <2>9, Zenon
<1>7. CASE lost' = TRUE /\ UNCHANGED <<wire, bus>>
    <2>1. Nearest' = Nearest /\ SilentWhileAway'
        BY <1>4, <1>7 DEF Nearest, SilentWhileAway
    <2>2. lost' \in BOOLEAN /\ lost'
        BY <1>7
    <2>3. wire' = wire /\ bus' = bus
        BY <1>7
    <2> QED BY <1>0, <1>2, <1>4, <2>1, <2>2, <2>3, Zenon
<1> QED BY <1>5, <1>6, <1>7, RelayCases

\* tap_start, pushed once, before anything else is said about the tap.
LEMMA StartPasses ==
    ASSUME TypeOK, Registered, Passing, NEW i \in Instances, NEW t \in Taps, StartTap(i, t)
    PROVE  Passing'
<1> DEFINE ms == <<Start(t)>>
<1>1. /\ ms \in Seq(Message)
      /\ \A m : (Within(ms, m) <=> m = Start(t)) /\ Single(ms, m)
      /\ \A u : InOrder(ms, u)
    <2>1. Start(t) \in Message
        BY Messages
    <2>2. ms \in Seq(Message) /\ DOMAIN ms = {1} /\ ms[1] = Start(t)
        BY <2>1
    <2> QED BY <2>2, Messages DEF Within, Single, InOrder
<1> HIDE DEF ms
<1>2. /\ row[t] = None /\ row' = [row EXCEPT ![t] = "live"]
      /\ \A u \in Taps : pushers'[u] = IF u = t THEN pushers[u] \cup {i} ELSE pushers[u]
      /\ Relay(i, ms) \/ NotRelayed
      /\ UNCHANGED <<active, run, overtaken>>
    BY DEF StartTap, PushedBy, ms
<1>3. row \in [Taps -> {None, "live", "expired", "gone"}]
      /\ pushCh \in Seq(Message) /\ wire \in Seq(Message) /\ bus \in [Instances -> Seq(Message)]
    BY DEF TypeOK, ChannelTypeOK
<1>4. SilentWhileAway
    BY DEF Passing
<1>5. /\ UNCHANGED <<stream, opened, pushCh>> /\ (lost => lost')
      /\ SilentWhileAway'
      /\ wire' = wire \/ wire' = wire \o ms
      /\ Nearest' = Nearest \/ Nearest' = Nearest \o ms
      /\ \A j \in Instances : bus'[j] = bus[j] \/ (i # j /\ bus'[j] = bus[j] \o ms)
      /\ wire' = wire \/ Nearest' = Nearest
      /\ Nearest \in Seq(Message)
    BY <1>1, <1>2, <1>4, RelayEffect
<1>w. /\ \A m : /\ Within(wire, m) => Within(wire', m)
                /\ Within(wire', m) => Within(wire, m) \/ m = Start(t)
                /\ Single(wire, m) /\ (m = Start(t) => ~Within(wire, m)) => Single(wire', m)
      /\ \A u : InOrder(wire, u) /\ ~(u = t /\ Within(wire, Stop(u))) => InOrder(wire', u)
    BY <1>1, <1>3, <1>5, Messages, GrownFacts
<1>n. /\ \A m : /\ Within(Nearest, m) => Within(Nearest', m)
                /\ Within(Nearest', m) => Within(Nearest, m) \/ m = Start(t)
                /\ Single(Nearest, m) /\ (m = Start(t) => ~Within(Nearest, m))
                        => Single(Nearest', m)
    BY <1>1, <1>5, GrownFacts
<1>b. \A j \in Instances :
        /\ \A m : Within(bus'[j], m) => Within(bus[j], m) \/ (m = Start(t) /\ i # j)
        /\ \A u : InOrder(bus[j], u) /\ ~(u = t /\ Within(bus[j], Stop(u))) => InOrder(bus'[j], u)
    <2> TAKE j \in Instances
    <2>1. CASE bus'[j] = bus[j]
        BY <2>1
    <2>2. CASE i # j /\ bus'[j] = bus[j] \o ms
        <3>1. bus[j] \in Seq(Message)
            BY <1>3
        <3> QED BY <1>1, <2>2, <3>1, Messages, GrownFacts
    <2> QED BY <1>5, <2>1, <2>2
<1> SUFFICES ASSUME NEW u \in Taps
             PROVE  /\ run'[u] \in {"running", "cancelled"} => u \in active'
                    /\ Announced(u)' /\ HeardFromOthers(u)'
                    /\ StartsOnce(u)' /\ StopIsOwed(u)' /\ StopsFollow(u)'
    BY <1>5 DEF Passing
<1>6. /\ run[u] \in {"running", "cancelled"} => u \in active
      /\ Announced(u) /\ HeardFromOthers(u)
      /\ StartsOnce(u) /\ StopIsOwed(u) /\ StopsFollow(u)
    BY DEF Passing
<1>7. /\ Start(u) = Start(t) => u = t
      /\ Stop(u) # Start(t)
    BY Messages
<1>8. u = t => /\ t \notin active
               /\ \A m \in {Start(t), Stop(t)} :
                     /\ ~Within(pushCh, m) /\ ~Within(wire, m) /\ ~Within(Nearest, m)
                     /\ \A j \in Instances : ~Within(bus[j], m)
    <2>1. stream # NoStream => stream.at \in Instances
        BY DEF TypeOK, ChannelTypeOK, Stream
    <2> QED BY <1>2, <1>6, <2>1, EmptyFacts DEF Announced, Nearest
<1>9. Announced(u)'
    BY <1>2, <1>3, <1>5, <1>6, <1>7, <1>w, <1>b DEF Announced, None
<1>10. HeardFromOthers(u)'
    BY <1>2, <1>6, <1>7, <1>b DEF HeardFromOthers
<1>11. StartsOnce(u)'
    <2> SUFFICES ASSUME ~lost' PROVE StartsOnce(u)'
        BY DEF StartsOnce
    <2>1. ~lost
        BY <1>5
    <2>2. CASE u = t
        BY <1>2, <1>5, <1>6, <1>8, <1>w, <1>n, <2>1, <2>2, OnItsWayIs DEF StartsOnce
    <2>3. CASE u # t
        BY <1>2, <1>5, <1>6, <1>7, <1>w, <1>n, <2>1, <2>3, OnItsWayIs DEF StartsOnce
    <2> QED BY <2>2, <2>3
<1>12. StopIsOwed(u)'
    BY <1>2, <1>3, <1>5, <1>6, <1>7, <1>w, <1>n, OnItsWayIs DEF StopIsOwed
<1>13. StopsFollow(u)'
    <2> SUFFICES ASSUME OneRoute(u)' PROVE StopsFollow(u)'
        BY DEF StopsFollow
    <2>1. OneRoute(u)
        BY <1>2, <1>5 DEF OneRoute
    <2> QED BY <1>2, <1>5, <1>6, <1>7, <1>8, <1>w, <1>n, <1>b, <2>1 DEF StopsFollow
<1> QED BY <1>2, <1>6, <1>9, <1>10, <1>11, <1>12, <1>13

\* The stops of a set of taps are pushed while their rows are deleted, by a
\* user's request or by a sweep.
LEMMA StopsPass ==
    ASSUME TypeOK, Registered, Passing, NEW i \in Instances, NEW ts \in SUBSET Taps,
           NEW ms \in Seq(Message), \A m : Within(ms, m) <=> \E t \in ts : m = Stop(t),
           Relay(i, ms) \/ NotRelayed,
           \A t \in Taps : row'[t] = IF t \in ts THEN "gone" ELSE row[t],
           PushedBy(i, ts),
           UNCHANGED <<active, run, overtaken>>
    PROVE  Passing'
<1>1. /\ \A u : ~Within(ms, Start(u)) /\ InOrder(ms, u)
      /\ \A u : Within(ms, Stop(u)) <=> u \in ts
    <2>1. \A u : ~Within(ms, Start(u))
        BY Messages
    <2> QED BY <2>1, Messages DEF InOrder, Within
<1>2. \A u \in Taps : pushers'[u] = IF u \in ts THEN pushers[u] \cup {i} ELSE pushers[u]
    BY DEF PushedBy
<1>3. pushCh \in Seq(Message) /\ wire \in Seq(Message) /\ bus \in [Instances -> Seq(Message)]
    BY DEF TypeOK, ChannelTypeOK
<1>4. SilentWhileAway
    BY DEF Passing
<1>5. /\ UNCHANGED <<stream, opened, pushCh>> /\ (lost => lost')
      /\ SilentWhileAway'
      /\ wire' = wire \/ wire' = wire \o ms
      /\ Nearest' = Nearest \/ Nearest' = Nearest \o ms
      /\ \A j \in Instances : bus'[j] = bus[j] \/ (i # j /\ bus'[j] = bus[j] \o ms)
      /\ wire' = wire \/ (Nearest' = Nearest /\ stream # NoStream /\ i = stream.at)
      /\ ~lost' => \/ wire' = wire \o ms
                   \/ Nearest' = Nearest \o ms
      /\ Nearest \in Seq(Message)
    BY <1>4, RelayEffect
<1>w. /\ \A u : /\ Within(wire', Start(u)) <=> Within(wire, Start(u))
                /\ Within(wire, Stop(u)) => Within(wire', Stop(u))
                /\ Within(wire', Stop(u)) => Within(wire, Stop(u)) \/ u \in ts
                /\ Single(wire, Start(u)) => Single(wire', Start(u))
                /\ InOrder(wire, u) => InOrder(wire', u)
    <2>1. CASE wire' = wire
        BY <2>1
    <2>2. CASE wire' = wire \o ms
        BY <1>1, <1>3, <2>2, GrownFacts
    <2> QED BY <1>5, <2>1, <2>2
<1>n. /\ \A u : /\ Within(Nearest', Start(u)) <=> Within(Nearest, Start(u))
                /\ Within(Nearest, Stop(u)) => Within(Nearest', Stop(u))
                /\ Single(Nearest, Start(u)) => Single(Nearest', Start(u))
    BY <1>1, <1>5, GrownFacts
<1>b. \A j \in Instances :
        \A u : /\ Within(bus'[j], Start(u)) <=> Within(bus[j], Start(u))
               /\ Within(bus'[j], Stop(u)) => Within(bus[j], Stop(u)) \/ (u \in ts /\ i # j)
               /\ InOrder(bus[j], u) => InOrder(bus'[j], u)
    <2> TAKE j \in Instances
    <2>1. CASE bus'[j] = bus[j]
        BY <2>1
    <2>2. CASE i # j /\ bus'[j] = bus[j] \o ms
        <3>1. bus[j] \in Seq(Message)
            BY <1>3
        <3> QED BY <1>1, <2>2, <3>1, GrownFacts
    <2> QED BY <1>5, <2>1, <2>2
<1>o. \A u \in ts : ~lost' => Within(wire', Stop(u)) \/ Within(Nearest', Stop(u))
    <2> TAKE u \in ts
    <2>1. Within(wire \o ms, Stop(u)) /\ Within(Nearest \o ms, Stop(u))
        BY <1>1, <1>3, <1>5, ConcatFacts
    <2> QED BY <1>5, <2>1
<1> SUFFICES ASSUME NEW u \in Taps
             PROVE  /\ run'[u] \in {"running", "cancelled"} => u \in active'
                    /\ Announced(u)' /\ HeardFromOthers(u)'
                    /\ StartsOnce(u)' /\ StopIsOwed(u)' /\ StopsFollow(u)'
    BY <1>5 DEF Passing
<1>6. /\ run[u] \in {"running", "cancelled"} => u \in active
      /\ Announced(u) /\ HeardFromOthers(u)
      /\ StartsOnce(u) /\ StopIsOwed(u) /\ StopsFollow(u)
    BY DEF Passing
<1>7. row'[u] = IF u \in ts THEN "gone" ELSE row[u]
    OBVIOUS
<1>8. Announced(u)'
    BY <1>5, <1>6, <1>7, <1>w, <1>b DEF Announced, None
<1>9. HeardFromOthers(u)'
    <2> SUFFICES ASSUME NEW j \in Instances, NEW m \in {Start(u), Stop(u)}, Within(bus'[j], m)
                 PROVE  \E p \in pushers'[u] : p # j
        BY DEF HeardFromOthers
    <2>1. Within(bus[j], m) => \E p \in pushers[u] : p # j
        BY <1>6 DEF HeardFromOthers
    <2>2. pushers[u] \subseteq pushers'[u] /\ (u \in ts => i \in pushers'[u])
        BY <1>2
    <2>3. Within(bus[j], m) \/ (u \in ts /\ i # j)
        BY <1>b
    <2> QED BY <2>1, <2>2, <2>3
<1>10. StartsOnce(u)'
    <2> SUFFICES ASSUME ~lost' PROVE StartsOnce(u)'
        BY DEF StartsOnce
    <2> QED BY <1>5, <1>6, <1>w, <1>n, OnItsWayIs DEF StartsOnce
<1>11. StopIsOwed(u)'
    <2> SUFFICES ASSUME ~lost', u \notin overtaken, row'[u] = "gone",
                        run[u] = "running" \/ OnItsWay(Start(u))'
                 PROVE  OnItsWay(Stop(u))'
        BY DEF StopIsOwed
    <2>1. CASE u \in ts
        BY <1>o, <2>1, OnItsWayIs
    <2>2. CASE u \notin ts
        BY <1>5, <1>6, <1>7, <1>w, <1>n, <2>2, OnItsWayIs DEF StopIsOwed
    <2> QED BY <2>1, <2>2
<1>12. StopsFollow(u)'
    <2> SUFFICES ASSUME OneRoute(u)' PROVE StopsFollow(u)'
        BY DEF StopsFollow
    <2>1. OneRoute(u) /\ (u \in ts => i \in pushers'[u])
        BY <1>2, <1>5 DEF OneRoute
    <2>2. \A j \in Instances : InOrder(bus'[j], u)
        BY <1>6, <1>b, <2>1 DEF StopsFollow
    <2>3. Within(wire', Stop(u)) => ~Within(Nearest', Start(u))
        <3> SUFFICES ASSUME Within(wire', Stop(u)), ~Within(wire, Stop(u)), Within(Nearest', Start(u))
                     PROVE  FALSE
            BY <1>6, <1>n, <2>1 DEF StopsFollow
        <3>1. u \in ts /\ stream # NoStream /\ i = stream.at
            BY <1>5, <1>w
        <3>2. Within(bus[i], Start(u))
            BY <1>n, <3>1 DEF Nearest
        <3>3. PICK p \in pushers[u] : p # i
            BY <1>6, <3>2 DEF HeardFromOthers
        <3> QED BY <1>2, <2>1, <3>1, <3>3 DEF OneRoute
    <2> QED BY <1>5, <1>6, <1>w, <1>n, <2>1, <2>2, <2>3 DEF StopsFollow
<1> QED BY <1>6, <1>8, <1>9, <1>10, <1>11, <1>12

-----------------------------------------------------------------------------
(***************************************************************************)
(* The way itself.                                                         *)
(***************************************************************************)

\* The parts of Passing that a move of messages leaves alone.
tapState == <<row, active, run, pushers, overtaken>>

\* Another process hears of a push: it passes it on if it serves the stream.
LEMMA HearPasses ==
    ASSUME TypeOK, Registered, Passing, NEW i \in Instances, Hear(i), UNCHANGED tapState
    PROVE  Passing'
<1> DEFINE h == Head(bus[i])
<1>1. /\ UNCHANGED <<row, active, run, pushers, overtaken>>
      /\ UNCHANGED <<connections, stream, opened, pushCh, lost>>
      /\ bus[i] # <<>> /\ bus' = [bus EXCEPT ![i] = Tail(@)]
      /\ wire' = IF connections[i] # NoStream /\ connections[i] = stream
                 THEN Append(wire, h) ELSE wire
    BY DEF Hear, tapState
<1>2. /\ pushCh \in Seq(Message) /\ wire \in Seq(Message) /\ bus \in [Instances -> Seq(Message)]
      /\ stream # NoStream => stream.at \in Instances
    BY DEF TypeOK, ChannelTypeOK, Stream
<1>3. bus[i] \in Seq(Message) /\ bus'[i] = Tail(bus[i])
      /\ \A j \in Instances : j # i => bus'[j] = bus[j]
    BY <1>1, <1>2
<1> HIDE DEF h
<1>4. /\ h \in Message /\ Tail(bus[i]) \in Seq(Message)
      /\ \A m : Within(bus[i], m) <=> m = h \/ Within(Tail(bus[i]), m)
      /\ \A m : Single(bus[i], m) => /\ Single(Tail(bus[i]), m)
                                     /\ m = h => ~Within(Tail(bus[i]), m)
      /\ \A t : InOrder(bus[i], t) => /\ InOrder(Tail(bus[i]), t)
                                      /\ h = Stop(t) => ~Within(Tail(bus[i]), Start(t))
    BY <1>1, <1>3, TailFacts DEF h
<1>5. SilentWhileAway'
    <2>1. SilentWhileAway
        BY DEF Passing
    <2>2. stream = NoStream => wire' = wire
        BY <1>1
    <2>3. stream = NoStream /\ ~lost => FALSE
        BY <1>1, <2>1 DEF SilentWhileAway
    <2> QED BY <1>1, <2>1, <2>2, <2>3 DEF SilentWhileAway
<1>b. \A j \in Instances :
        /\ \A m : Within(bus'[j], m) => Within(bus[j], m)
        /\ \A t : InOrder(bus[j], t) => InOrder(bus'[j], t)
    BY <1>3, <1>4
<1> SUFFICES ASSUME NEW u \in Taps
             PROVE  /\ run'[u] \in {"running", "cancelled"} => u \in active'
                    /\ Announced(u)' /\ HeardFromOthers(u)'
                    /\ StartsOnce(u)' /\ StopIsOwed(u)' /\ StopsFollow(u)'
    BY <1>5 DEF Passing
<1>6. /\ run[u] \in {"running", "cancelled"} => u \in active
      /\ Announced(u) /\ HeardFromOthers(u)
      /\ StartsOnce(u) /\ StopIsOwed(u) /\ StopsFollow(u)
    BY DEF Passing
<1>7. HeardFromOthers(u)'
    BY <1>1, <1>6, <1>b DEF HeardFromOthers
<1>8. CASE stream # NoStream /\ i = stream.at
    <2>1. connections[i] = stream
        BY <1>8 DEF Registered, LiveStreamIsRegistered
    <2>2. wire' = Append(wire, h)
        BY <1>1, <1>8, <2>1
    <2>3. Nearest = bus[i] /\ Nearest' = Tail(bus[i])
        BY <1>1, <1>3, <1>8 DEF Nearest
    <2>4. /\ \A m : Within(wire', m) <=> Within(wire, m) \/ m = h
          /\ \A m : Single(wire, m) /\ (m = h => ~Within(wire, m)) => Single(wire', m)
          /\ \A t : InOrder(wire, t) /\ ~(Within(wire, Stop(t)) /\ h = Start(t))
                        => InOrder(wire', t)
        BY <1>2, <1>4, <2>2, AppendFacts
    <2>5. \A m : OnItsWay(m)' <=> OnItsWay(m)
        BY <1>1, <1>4, <2>3, <2>4, OnItsWayIs
    <2>6. Announced(u)'
        BY <1>1, <1>3, <1>4, <1>6, <1>8, <1>b, <2>4 DEF Announced
    <2>7. StartsOnce(u)'
        BY <1>1, <1>4, <1>6, <2>3, <2>4, <2>5 DEF StartsOnce
    <2>8. StopIsOwed(u)'
        BY <1>1, <1>6, <2>5 DEF StopIsOwed
    <2>9. StopsFollow(u)'
        <3> SUFFICES ASSUME OneRoute(u) PROVE StopsFollow(u)'
            BY <1>1 DEF StopsFollow, OneRoute
        <3>1. InOrder(bus[i], u)
            BY <1>6 DEF StopsFollow
        <3>2. InOrder(wire', u)
            BY <1>4, <1>6, <2>3, <2>4 DEF StopsFollow
        <3>3. \A j \in Instances : InOrder(bus'[j], u)
            BY <1>6, <1>b DEF StopsFollow
        <3>4. Within(pushCh, Stop(u)) => ~Within(wire', Start(u)) /\ ~Within(Nearest', Start(u))
            BY <1>4, <1>6, <2>3, <2>4 DEF StopsFollow
        <3>5. Within(wire', Stop(u)) => ~Within(Nearest', Start(u))
            BY <1>4, <1>6, <2>3, <2>4, <3>1 DEF StopsFollow
        <3> QED BY <1>1, <1>6, <3>2, <3>3, <3>4, <3>5 DEF StopsFollow
    <2> QED BY <1>1, <1>6, <1>7, <2>6, <2>7, <2>8, <2>9
<1>9. CASE stream = NoStream \/ i # stream.at
    <2>1. wire' = wire
        <3>1. connections[i] # NoStream => connections[i].at = i
            BY DEF Passing, SilentWhileAway
        <3> QED BY <1>1, <1>9, <3>1
    <2>2. Nearest' = Nearest
        BY <1>1, <1>2, <1>3, <1>9 DEF Nearest
    <2>3. \A m : OnItsWay(m)' <=> OnItsWay(m)
        BY <1>1, <2>1, <2>2, OnItsWayIs
    <2>4. Announced(u)'
        BY <1>1, <1>6, <1>b, <2>1 DEF Announced
    <2>5. StartsOnce(u)' /\ StopIsOwed(u)'
        BY <1>1, <1>6, <2>1, <2>2, <2>3 DEF StartsOnce, StopIsOwed
    <2>6. StopsFollow(u)'
        BY <1>1, <1>6, <1>b, <2>1, <2>2 DEF StopsFollow, OneRoute
    <2> QED BY <1>1, <1>6, <1>7, <2>4, <2>5, <2>6
<1> QED BY <1>8, <1>9

\* The client takes a message from the stream, into the queue or nowhere.
LEMMA ReceivePasses ==
    ASSUME TypeOK, Registered, Passing, Receive, UNCHANGED tapState
    PROVE  Passing'
<1> DEFINE h == Head(wire)
<1>1. /\ UNCHANGED <<row, active, run, pushers, overtaken>>
      /\ UNCHANGED <<connections, stream, opened, bus>>
      /\ wire # <<>> /\ wire' = Tail(wire)
      /\ \/ pushCh' = Append(pushCh, h) /\ lost' = lost
         \/ pushCh' = pushCh /\ lost' = TRUE
    BY DEF Receive, tapState
<1>2. pushCh \in Seq(Message) /\ wire \in Seq(Message) /\ lost \in BOOLEAN
    BY DEF TypeOK, ChannelTypeOK
<1> HIDE DEF h
<1>3. /\ h \in Message
      /\ \A m : Within(wire, m) <=> m = h \/ Within(wire', m)
      /\ \A m : Single(wire, m) => /\ Single(wire', m)
                                   /\ m = h => ~Within(wire', m)
      /\ \A t : InOrder(wire, t) => /\ InOrder(wire', t)
                                    /\ h = Stop(t) => ~Within(wire', Start(t))
    BY <1>1, <1>2, TailFacts DEF h
<1>4. Nearest' = Nearest
    BY <1>1 DEF Nearest
<1>5. lost => lost'
    BY <1>1
<1>6. SilentWhileAway'
    <2>1. SilentWhileAway
        BY DEF Passing
    <2>2. stream # NoStream
        BY <1>1, <2>1 DEF SilentWhileAway
    <2> QED BY <1>1, <2>1, <2>2 DEF SilentWhileAway
<1> SUFFICES ASSUME NEW u \in Taps
             PROVE  /\ run'[u] \in {"running", "cancelled"} => u \in active'
                    /\ Announced(u)' /\ HeardFromOthers(u)'
                    /\ StartsOnce(u)' /\ StopIsOwed(u)' /\ StopsFollow(u)'
    BY <1>6 DEF Passing
<1>7. /\ run[u] \in {"running", "cancelled"} => u \in active
      /\ Announced(u) /\ HeardFromOthers(u)
      /\ StartsOnce(u) /\ StopIsOwed(u) /\ StopsFollow(u)
    BY DEF Passing
<1>8. HeardFromOthers(u)'
    BY <1>1, <1>7 DEF HeardFromOthers
<1>9. CASE pushCh' = Append(pushCh, h) /\ lost' = lost
    <2>1. /\ \A m : Within(pushCh', m) <=> Within(pushCh, m) \/ m = h
          /\ \A m : Single(pushCh, m) /\ (m = h => ~Within(pushCh, m)) => Single(pushCh', m)
          /\ \A t : InOrder(pushCh, t) /\ ~(Within(pushCh, Stop(t)) /\ h = Start(t))
                        => InOrder(pushCh', t)
        BY <1>2, <1>3, <1>9, AppendFacts
    <2>2. \A m : OnItsWay(m)' <=> OnItsWay(m)
        BY <1>3, <1>4, <2>1, OnItsWayIs
    <2>3. Announced(u)'
        BY <1>1, <1>3, <1>7, <2>1 DEF Announced
    <2>4. StartsOnce(u)'
        BY <1>1, <1>3, <1>4, <1>7, <1>9, <2>1, <2>2 DEF StartsOnce
    <2>5. StopIsOwed(u)'
        BY <1>1, <1>7, <1>9, <2>2 DEF StopIsOwed
    <2>6. StopsFollow(u)'
        <3> SUFFICES ASSUME OneRoute(u) PROVE StopsFollow(u)'
            BY <1>1 DEF StopsFollow, OneRoute
        <3>1. InOrder(wire, u) /\ InOrder(wire', u)
            BY <1>3, <1>7 DEF StopsFollow
        <3>2. InOrder(pushCh', u)
            BY <1>3, <1>7, <2>1 DEF StopsFollow
        <3>3. Within(pushCh', Stop(u)) => ~Within(wire', Start(u)) /\ ~Within(Nearest, Start(u))
            BY <1>3, <1>7, <2>1, <3>1 DEF StopsFollow
        <3>4. Within(wire', Stop(u)) => ~Within(Nearest, Start(u))
            BY <1>3, <1>7 DEF StopsFollow
        <3> QED BY <1>1, <1>4, <1>7, <3>1, <3>2, <3>3, <3>4 DEF StopsFollow
    <2> QED BY <1>1, <1>7, <1>8, <2>3, <2>4, <2>5, <2>6
<1>10. CASE pushCh' = pushCh /\ lost' = TRUE
    <2>1. StartsOnce(u)' /\ StopIsOwed(u)'
        BY <1>10 DEF StartsOnce, StopIsOwed
    <2>2. Announced(u)'
        BY <1>1, <1>3, <1>7, <1>10 DEF Announced
    <2>3. StopsFollow(u)'
        BY <1>1, <1>3, <1>4, <1>7, <1>10 DEF StopsFollow, OneRoute
    <2> QED BY <1>1, <1>7, <1>8, <2>1, <2>2, <2>3
<1> QED BY <1>1, <1>9, <1>10

\* The agent opens a stream.  If nothing was lost, nothing waits for it.
LEMMA ConnectPasses ==
    ASSUME TypeOK, Registered, Passing, NEW i \in Instances, Connect(i), UNCHANGED tapState
    PROVE  Passing'
<1>1. /\ UNCHANGED <<row, active, run, pushers, overtaken>>
      /\ UNCHANGED <<wire, bus, pushCh, lost>>
      /\ stream = NoStream /\ opened' = opened + 1
      /\ stream' = [id |-> opened + 1, at |-> i]
      /\ connections' = [connections EXCEPT ![i] = stream']
    BY DEF Connect, tapState
<1>2. opened \in Nat \ {0} /\ connections \in [Instances -> Stream \cup {NoStream}]
    BY PushChannelAssumption DEF TypeOK, ChannelTypeOK
<1>3. stream' # NoStream /\ stream'.at = i /\ opened' # 1
    BY <1>1, <1>2 DEF NoStream
<1>4. Nearest = <<>> /\ (~lost => Nearest' = <<>>)
    BY <1>1, <1>3 DEF Nearest, Passing, SilentWhileAway
<1>5. SilentWhileAway'
    <2>1. \A j \in Instances : j # i => connections'[j] = connections[j]
        BY <1>1, <1>2
    <2>2. connections'[i].at = i
        BY <1>1, <1>2, <1>3
    <2> QED BY <1>3, <2>1, <2>2 DEF Passing, SilentWhileAway
<1> SUFFICES ASSUME NEW u \in Taps
             PROVE  /\ run'[u] \in {"running", "cancelled"} => u \in active'
                    /\ Announced(u)' /\ HeardFromOthers(u)'
                    /\ StartsOnce(u)' /\ StopIsOwed(u)' /\ StopsFollow(u)'
    BY <1>5 DEF Passing
<1>6. /\ run[u] \in {"running", "cancelled"} => u \in active
      /\ Announced(u) /\ HeardFromOthers(u) /\ StartsOnce(u) /\ StopIsOwed(u)
    BY DEF Passing
<1>7. Announced(u)' /\ HeardFromOthers(u)'
    BY <1>1, <1>6 DEF Announced, HeardFromOthers
<1>8. StartsOnce(u)' /\ StopIsOwed(u)'
    BY <1>1, <1>4, <1>6, OnItsWayIs DEF StartsOnce, StopIsOwed
<1>9. StopsFollow(u)'
    BY <1>3 DEF StopsFollow, OneRoute
<1> QED BY <1>1, <1>6, <1>7, <1>8, <1>9

\* The agent's stream ends, with what was in it.
LEMMA DisconnectPasses ==
    ASSUME TypeOK, Registered, Passing, Disconnect, UNCHANGED tapState
    PROVE  Passing'
<1>1. /\ UNCHANGED <<row, active, run, pushers, overtaken>>
      /\ UNCHANGED <<connections, opened, bus, pushCh>>
      /\ stream' = NoStream /\ wire' = <<>> /\ lost' = (lost \/ InTransit)
    BY DEF Disconnect, tapState
<1>2. lost \in BOOLEAN
    BY DEF TypeOK, ChannelTypeOK
<1>3. ~lost' => /\ ~lost /\ wire = <<>>
                /\ \A j \in Instances : bus[j] = <<>>
    BY <1>1, <1>2 DEF InTransit
<1>4. Nearest' = <<>>
    BY <1>1 DEF Nearest
<1>5. ~lost' => Nearest = <<>>
    <2>1. stream # NoStream => stream.at \in Instances
        BY DEF TypeOK, ChannelTypeOK, Stream
    <2> QED BY <1>3, <2>1 DEF Nearest
<1>6. SilentWhileAway'
    BY <1>1, <1>3 DEF Passing, SilentWhileAway
<1> SUFFICES ASSUME NEW u \in Taps
             PROVE  /\ run'[u] \in {"running", "cancelled"} => u \in active'
                    /\ Announced(u)' /\ HeardFromOthers(u)'
                    /\ StartsOnce(u)' /\ StopIsOwed(u)' /\ StopsFollow(u)'
    BY <1>6 DEF Passing
<1>7. /\ run[u] \in {"running", "cancelled"} => u \in active
      /\ Announced(u) /\ HeardFromOthers(u)
      /\ StartsOnce(u) /\ StopIsOwed(u) /\ StopsFollow(u)
    BY DEF Passing
<1>8. Announced(u)' /\ HeardFromOthers(u)'
    BY <1>1, <1>7, EmptyFacts DEF Announced, HeardFromOthers
<1>9. StartsOnce(u)'
    BY <1>1, <1>3, <1>4, <1>5, <1>7, OnItsWayIs DEF StartsOnce
<1>10. StopIsOwed(u)'
    BY <1>1, <1>3, <1>4, <1>5, <1>7, OnItsWayIs DEF StopIsOwed
<1>11. StopsFollow(u)'
    BY <1>1, <1>4, <1>7, EmptyFacts DEF StopsFollow, OneRoute
<1> QED BY <1>1, <1>7, <1>8, <1>9, <1>10, <1>11

\* A process notices the end of a stream, which is never the live one.
LEMMA NoticePasses ==
    ASSUME TypeOK, Registered, Passing, NEW s \in left, Notice(s), UNCHANGED tapState
    PROVE  Passing'
<1>1. /\ UNCHANGED <<row, active, run, pushers, overtaken>>
      /\ UNCHANGED <<stream, opened, wire, bus, pushCh, lost>>
      /\ connections' = [connections EXCEPT ![s.at] = IF @ = s THEN NoStream ELSE @]
    BY DEF Notice, Unregister, tapState
<1>2. connections \in [Instances -> Stream \cup {NoStream}]
    BY DEF TypeOK, ChannelTypeOK
<1>3. \A j \in Instances : connections'[j] \in {connections[j], NoStream}
    BY <1>1, <1>2
<1>4. SilentWhileAway'
    BY <1>1, <1>3 DEF Passing, SilentWhileAway
<1>5. Nearest' = Nearest /\ \A m : OnItsWay(m)' <=> OnItsWay(m)
    BY <1>1 DEF Nearest, OnItsWay
<1> QED BY <1>1, <1>4, <1>5 DEF Passing, Announced, HeardFromOthers, StartsOnce,
                               StopIsOwed, StopsFollow, OneRoute

-----------------------------------------------------------------------------
(***************************************************************************)
(* The agent's main loop and its taps.                                     *)
(***************************************************************************)

\* The main loop takes the first message of the queue.
LEMMA HandleEffect ==
    ASSUME TypeOK, NEW h, Handle(h)
    PROVE  /\ UNCHANGED <<connections, stream, left, opened, wire, bus, lost>>
           /\ UNCHANGED Nearest
           /\ pushCh' \in Seq(Message) /\ Len(pushCh') <= QueueSize
           /\ \A m : Within(pushCh, m) <=> m = h \/ Within(pushCh', m)
           /\ \A m : Single(pushCh, m) => /\ Single(pushCh', m)
                                          /\ m = h => ~Within(pushCh', m)
           /\ \A t : InOrder(pushCh, t) => /\ InOrder(pushCh', t)
                                           /\ h = Stop(t) => ~Within(pushCh', Start(t))
           /\ \A m : OnItsWay(m) <=> m = h \/ OnItsWay(m)'
<1>1. /\ UNCHANGED <<connections, stream, left, opened, wire, bus, lost>>
      /\ pushCh # <<>> /\ Head(pushCh) = h /\ pushCh' = Tail(pushCh)
    BY DEF Handle
<1>2. pushCh \in Seq(Message) /\ Len(pushCh) \in Nat /\ Len(pushCh) <= QueueSize /\ QueueSize \in Nat
    BY PushChannelAssumption DEF TypeOK, ChannelTypeOK
<1>3. /\ Tail(pushCh) \in Seq(Message) /\ Len(Tail(pushCh)) = Len(pushCh) - 1
      /\ \A m : Within(pushCh, m) <=> m = h \/ Within(Tail(pushCh), m)
      /\ \A m : Single(pushCh, m) => /\ Single(Tail(pushCh), m)
                                     /\ m = h => ~Within(Tail(pushCh), m)
      /\ \A t : InOrder(pushCh, t) => /\ InOrder(Tail(pushCh), t)
                                      /\ h = Stop(t) => ~Within(Tail(pushCh), Start(t))
    BY <1>1, <1>2, TailFacts
<1>4. Nearest' = Nearest
    BY <1>1 DEF Nearest
<1>5. Len(pushCh') <= QueueSize
    BY <1>1, <1>2, <1>3
<1>6. \A m : OnItsWay(m) <=> m = h \/ OnItsWay(m)'
    BY <1>1, <1>3, <1>4, OnItsWayIs
<1> QED BY <1>1, <1>3, <1>4, <1>5, <1>6

\* Manager.Start takes the one start of its tap, whose stop is still to come
\* if the row is gone already.
LEMMA HandleStartPasses ==
    ASSUME TypeOK, Passing, NEW t \in Taps, HandleStart(t)
    PROVE  Passing'
<1>1. /\ UNCHANGED <<row, pushers, overtaken>>
      /\ \A u \in Taps : u # t => /\ u \in active' <=> u \in active
                                  /\ run'[u] = run[u]
      /\ run'[t] \in {"running", "cancelled"} => t \in active' \/ (run'[t] = run[t] /\ active' = active)
    BY DEF HandleStart, TypeOK
<1>2. /\ UNCHANGED <<connections, stream, opened, wire, bus, lost, Nearest>>
      /\ \A m : Within(pushCh, m) <=> m = Start(t) \/ Within(pushCh', m)
      /\ \A m : Single(pushCh, m) => /\ Single(pushCh', m)
                                     /\ m = Start(t) => ~Within(pushCh', m)
      /\ \A u : InOrder(pushCh, u) => InOrder(pushCh', u)
      /\ \A m : OnItsWay(m) <=> m = Start(t) \/ OnItsWay(m)'
    BY HandleEffect DEF HandleStart
<1>3. SilentWhileAway'
    BY <1>2 DEF Passing, SilentWhileAway
<1> SUFFICES ASSUME NEW u \in Taps
             PROVE  /\ run'[u] \in {"running", "cancelled"} => u \in active'
                    /\ Announced(u)' /\ HeardFromOthers(u)'
                    /\ StartsOnce(u)' /\ StopIsOwed(u)' /\ StopsFollow(u)'
    BY <1>3 DEF Passing
<1>4. /\ run[u] \in {"running", "cancelled"} => u \in active
      /\ Announced(u) /\ HeardFromOthers(u)
      /\ StartsOnce(u) /\ StopIsOwed(u) /\ StopsFollow(u)
    BY DEF Passing
<1>5. Stop(u) # Start(t) /\ (u # t => Start(u) # Start(t))
    BY Messages
<1>6. Within(pushCh, Start(t)) /\ OnItsWay(Start(t))
    BY <1>2
<1>7. run'[u] \in {"running", "cancelled"} => u \in active'
    BY <1>1, <1>4
<1>8. Announced(u)'
    BY <1>1, <1>2, <1>4, <1>5, <1>6 DEF Announced
<1>9. HeardFromOthers(u)'
    BY <1>1, <1>2, <1>4 DEF HeardFromOthers
<1>10. StartsOnce(u)'
    <2> SUFFICES ASSUME ~lost PROVE StartsOnce(u)'
        BY <1>2 DEF StartsOnce
    <2>1. CASE u = t
        <3>1. ~Within(pushCh', Start(t)) /\ ~Within(wire, Start(t)) /\ ~Within(Nearest, Start(t))
            BY <1>2, <1>4, <1>6, <2>1 DEF StartsOnce
        <3>2. ~OnItsWay(Start(t))'
            BY <1>2, <3>1, OnItsWayIs
        <3> QED BY <1>2, <1>4, <2>1, <3>1, <3>2 DEF StartsOnce
    <2>2. CASE u # t
        BY <1>1, <1>2, <1>4, <1>5, <2>2 DEF StartsOnce
    <2> QED BY <2>1, <2>2
<1>11. StopIsOwed(u)'
    <2> SUFFICES ASSUME ~lost, u \notin overtaken, row[u] = "gone",
                        run'[u] = "running" \/ OnItsWay(Start(u))'
                 PROVE  OnItsWay(Stop(u))'
        BY <1>1, <1>2 DEF StopIsOwed
    <2>1. run[u] = "running" \/ OnItsWay(Start(u))
        BY <1>1, <1>2, <1>6
    <2> QED BY <1>2, <1>4, <1>5, <2>1 DEF StopIsOwed
<1>12. StopsFollow(u)'
    BY <1>1, <1>2, <1>4, <1>5 DEF StopsFollow, OneRoute
<1> QED BY <1>7, <1>8, <1>9, <1>10, <1>11, <1>12

\* Manager.Stop cancels the tap it finds, and does nothing when it finds none.
LEMMA HandleStopPasses ==
    ASSUME TypeOK, Passing, NEW t \in Taps, HandleStop(t)
    PROVE  Passing'
<1>1. /\ UNCHANGED <<row, active, pushers>>
      /\ \A u \in Taps : u # t => /\ run'[u] = run[u]
                                  /\ u \in overtaken' <=> u \in overtaken
      /\ t \in active => run'[t] # "running" /\ overtaken' = overtaken
      /\ t \notin active =>
            /\ run' = run
            /\ t \in overtaken' <=> t \in overtaken \/ OnItsWay(Start(t))
    BY DEF HandleStop, TypeOK
<1>2. /\ UNCHANGED <<connections, stream, opened, wire, bus, lost, Nearest>>
      /\ \A m : Within(pushCh, m) <=> m = Stop(t) \/ Within(pushCh', m)
      /\ \A m : Single(pushCh, m) => Single(pushCh', m)
      /\ \A u : InOrder(pushCh, u) => /\ InOrder(pushCh', u)
                                      /\ Stop(t) = Stop(u) => ~Within(pushCh', Start(u))
      /\ \A m : OnItsWay(m) <=> m = Stop(t) \/ OnItsWay(m)'
    BY HandleEffect DEF HandleStop
<1>3. SilentWhileAway'
    BY <1>2 DEF Passing, SilentWhileAway
<1> SUFFICES ASSUME NEW u \in Taps
             PROVE  /\ run'[u] \in {"running", "cancelled"} => u \in active'
                    /\ Announced(u)' /\ HeardFromOthers(u)'
                    /\ StartsOnce(u)' /\ StopIsOwed(u)' /\ StopsFollow(u)'
    BY <1>3 DEF Passing
<1>4. /\ run[u] \in {"running", "cancelled"} => u \in active
      /\ Announced(u) /\ HeardFromOthers(u)
      /\ StartsOnce(u) /\ StopIsOwed(u) /\ StopsFollow(u)
    BY DEF Passing
<1>5. Start(u) # Stop(t) /\ (u # t => Stop(u) # Stop(t))
    BY Messages
<1>6. run'[u] \in {"running", "cancelled"} => u \in active'
    BY <1>1, <1>4
<1>7. Announced(u)'
    BY <1>1, <1>2, <1>4 DEF Announced
<1>8. HeardFromOthers(u)'
    BY <1>1, <1>2, <1>4 DEF HeardFromOthers
<1>9. StartsOnce(u)'
    BY <1>1, <1>2, <1>4, <1>5 DEF StartsOnce
<1>10. StopIsOwed(u)'
    <2> SUFFICES ASSUME ~lost, u \notin overtaken', row[u] = "gone",
                        run'[u] = "running" \/ OnItsWay(Start(u))'
                 PROVE  OnItsWay(Stop(u))'
        BY <1>1, <1>2 DEF StopIsOwed
    <2>1. CASE u = t /\ t \in active
        BY <1>1, <1>2, <1>4, <2>1 DEF StartsOnce
    <2>2. CASE u = t /\ t \notin active
        BY <1>1, <1>2, <1>4, <2>2
    <2>3. CASE u # t
        BY <1>1, <1>2, <1>4, <1>5, <2>3 DEF StopIsOwed
    <2> QED BY <2>1, <2>2, <2>3
<1>11. StopsFollow(u)'
    <2> SUFFICES ASSUME OneRoute(u) PROVE StopsFollow(u)'
        BY <1>1, <1>2 DEF StopsFollow, OneRoute
    <2>1. u \notin overtaken'
        <3>1. u = t => ~OnItsWay(Start(t))
            <4> SUFFICES ASSUME u = t PROVE ~OnItsWay(Start(t))
                OBVIOUS
            <4>1. Within(pushCh, Stop(t)) /\ ~Within(pushCh, Start(t))
                BY <1>2, <1>4, <1>5 DEF StopsFollow
            <4> QED BY <1>4, <4>1, OnItsWayIs DEF StopsFollow
        <3> QED BY <1>1, <1>4, <3>1 DEF StopsFollow
    <2> QED BY <1>1, <1>2, <1>4, <2>1 DEF StopsFollow
<1> QED BY <1>6, <1>7, <1>8, <1>9, <1>10, <1>11

\* A tap that ends, or a row that grows old, says nothing to anybody.
LEMMA QuietPasses ==
    ASSUME Passing, UNCHANGED <<channelVars, pushers, overtaken>>,
           \A u \in Taps :
              /\ row'[u] = None <=> row[u] = None
              /\ row'[u] = "gone" => row[u] = "gone"
              /\ u \in active' => u \in active
              /\ run'[u] = "running" => run[u] = "running"
              /\ run'[u] \in {"running", "cancelled"} => u \in active'
    PROVE  Passing'
<1>1. UNCHANGED <<connections, stream, left, opened, wire, bus, pushCh, lost>>
    BY DEF channelVars
<1>2. Nearest' = Nearest /\ \A m : OnItsWay(m)' <=> OnItsWay(m)
    BY <1>1 DEF Nearest, OnItsWay
<1> QED BY <1>1, <1>2 DEF Passing, SilentWhileAway, Announced, HeardFromOthers, StartsOnce,
                          StopIsOwed, StopsFollow, OneRoute

\* stopTapHandler's message, and those of a sweep.
LEMMA StopsAreMessages ==
    /\ \A t \in Taps : /\ <<Stop(t)>> \in Seq(Message)
                       /\ \A m : Within(<<Stop(t)>>, m) <=> \E u \in {t} : m = Stop(u)
    /\ \A ts \in SUBSET Taps : \A ms \in StopsOf(ts) :
          /\ ms \in Seq(Message)
          /\ \A m : Within(ms, m) <=> \E t \in ts : m = Stop(t)
<1>1. ASSUME NEW t \in Taps
      PROVE  /\ <<Stop(t)>> \in Seq(Message)
             /\ \A m : Within(<<Stop(t)>>, m) <=> \E u \in {t} : m = Stop(u)
    <2> DEFINE ms == <<Stop(t)>>
    <2>1. Stop(t) \in Message
        BY Messages
    <2>2. ms \in Seq(Message) /\ DOMAIN ms = {1} /\ ms[1] = Stop(t)
        BY <2>1
    <2> QED BY <2>2 DEF Within
<1>2. ASSUME NEW ts \in SUBSET Taps, NEW ms \in StopsOf(ts)
      PROVE  /\ ms \in Seq(Message)
             /\ \A m : Within(ms, m) <=> \E t \in ts : m = Stop(t)
    <2>1. Cardinality(ts) \in Nat
        BY TapsAssumption, FS_Subset, FS_CardinalityType
    <2>2. /\ ms \in [1 .. Cardinality(ts) -> {Stop(t) : t \in ts}]
          /\ \A t \in ts : \E k \in DOMAIN ms : ms[k] = Stop(t)
        BY DEF StopsOf
    <2>3. {Stop(t) : t \in ts} \subseteq Message
        BY Messages
    <2>4. ms \in [1 .. Cardinality(ts) -> Message]
        BY <2>2, <2>3
    <2>5. ms \in Seq(Message)
        BY <2>1, <2>4, SeqDef
    <2>6. \A m : Within(ms, m) <=> \E t \in ts : m = Stop(t)
        BY <2>2 DEF Within
    <2> QED BY <2>5, <2>6
<1> QED BY <1>1, <1>2

-----------------------------------------------------------------------------
(***************************************************************************)
(* Every step.                                                             *)
(***************************************************************************)

\* The actions of the server and of the main loop, with what they push and
\* take; all others leave the channel or the taps alone.
LEMMA TypeStep ==
    ASSUME TypeOK, Registered, Passing, [Next]_vars
    PROVE  TypeOK'
<1> USE DEF TypeOK
<1>0. /\ Registered' /\ SilentWhileAway
      /\ pushCh \in Seq(Message) /\ wire \in Seq(Message) /\ bus \in [Instances -> Seq(Message)]
      /\ Len(pushCh) <= QueueSize /\ lost \in BOOLEAN /\ QueueSize \in Nat
    BY StepRegistered, PushChannelAssumption DEF Passing, ChannelTypeOK
<1>e. EndsOK'
    BY <1>0 DEF Registered
<1>c. ASSUME pushCh' \in Seq(Message), Len(pushCh') <= QueueSize, wire' \in Seq(Message),
             bus' \in [Instances -> Seq(Message)], lost' \in BOOLEAN
      PROVE  ChannelTypeOK(Message)'
    BY <1>c, <1>e DEF ChannelTypeOK, EndsOK
<1>p. ASSUME NEW i \in Instances, NEW ts \in SUBSET Taps, PushedBy(i, ts)
      PROVE  pushers' \in [Taps -> SUBSET Instances]
    BY <1>p DEF PushedBy
<1>1. ASSUME NEW i \in Instances, NEW ms \in Seq(Message), Relay(i, ms) \/ NotRelayed
      PROVE  ChannelTypeOK(Message)'
    <2>1. /\ pushCh' = pushCh /\ wire' \in Seq(Message)
          /\ bus' \in [Instances -> Seq(Message)] /\ lost' \in BOOLEAN
        BY <1>0, <1>1, RelayEffect
    <2> QED BY <1>0, <1>c, <2>1
<1>2. ASSUME NEW i \in Instances, NEW t \in Taps, StartTap(i, t) PROVE TypeOK'
    <2>1. <<Start(t)>> \in Seq(Message)
        BY Messages
    <2>2. ChannelTypeOK(Message)' /\ pushers' \in [Taps -> SUBSET Instances]
        BY <1>1, <1>2, <1>p, <2>1 DEF StartTap
    <2> QED BY <1>2, <2>2 DEF StartTap
<1>3. ASSUME NEW i \in Instances, NEW t \in Taps, StopTap(i, t) PROVE TypeOK'
    <2>1. <<Stop(t)>> \in Seq(Message)
        BY StopsAreMessages
    <2>2. ChannelTypeOK(Message)' /\ pushers' \in [Taps -> SUBSET Instances]
        BY <1>1, <1>3, <1>p, <2>1 DEF StopTap
    <2> QED BY <1>3, <2>2 DEF StopTap
<1>4. ASSUME NEW i \in Instances, DeleteStale(i) PROVE TypeOK'
    <2>1. stale[i] \subseteq Taps
        OBVIOUS
    <2>2. ChannelTypeOK(Message)' /\ pushers' \in [Taps -> SUBSET Instances]
        <3>1. CASE NotRelayed
            BY <1>1, <1>4, <1>p, <2>1, <3>1, EmptyFacts DEF DeleteStale
        <3>2. ASSUME NEW ms \in StopsOf(stale[i]), Relay(i, ms)
              PROVE  ChannelTypeOK(Message)'
            BY <1>1, <2>1, <3>2, StopsAreMessages
        <3> QED BY <1>4, <1>p, <2>1, <3>1, <3>2 DEF DeleteStale
    <2> QED BY <1>4, <2>2 DEF DeleteStale
<1>5. ASSUME UNCHANGED channelVars PROVE ChannelTypeOK(Message)'
    BY <1>5 DEF channelVars, ChannelTypeOK
<1>6. ASSUME NEW i \in Instances, FindStale(i) PROVE TypeOK'
    BY <1>5, <1>6 DEF FindStale
<1>7. ASSUME NEW t \in Taps, Expire(t) \/ TimesOut(t) \/ Ends(t) \/ Unlist(t) \/ Stopped(t)
      PROVE  TypeOK'
    BY <1>5, <1>7 DEF Expire, TimesOut, Ends, Unlist, Stopped
<1>8. ASSUME NEW t \in Taps, HandleStart(t) \/ HandleStop(t) PROVE TypeOK'
    <2>1. ASSUME NEW h, Handle(h) PROVE ChannelTypeOK(Message)'
        BY <1>0, <1>c, <2>1, HandleEffect
    <2> QED BY <1>8, <2>1 DEF HandleStart, HandleStop
<1>9. ASSUME ChannelNext, UNCHANGED tapVars PROVE TypeOK'
    <2>1. ASSUME NEW i \in Instances, Hear(i) PROVE ChannelTypeOK(Message)'
        <3>1. bus[i] \in Seq(Message) /\ bus[i] # <<>>
            BY <1>0, <2>1 DEF Hear
        <3>2. Tail(bus[i]) \in Seq(Message) /\ Head(bus[i]) \in Message
            BY <3>1, TailFacts
        <3>3. Append(wire, Head(bus[i])) \in Seq(Message)
            BY <1>0, <3>2, AppendFacts
        <3>4. wire' \in Seq(Message) /\ bus' \in [Instances -> Seq(Message)]
            BY <1>0, <2>1, <3>2, <3>3 DEF Hear
        <3> QED BY <1>0, <1>c, <2>1, <3>4 DEF Hear
    <2>2. ASSUME NEW i \in Instances, Connect(i) PROVE ChannelTypeOK(Message)'
        BY <1>0, <1>c, <2>2 DEF Connect
    <2>3. ASSUME NEW s \in left, Notice(s) PROVE ChannelTypeOK(Message)'
        BY <1>0, <1>c, <2>3 DEF Notice
    <2>4. ASSUME Disconnect PROVE ChannelTypeOK(Message)'
        <3>1. lost' \in BOOLEAN
            BY <1>0, <2>4 DEF Disconnect, InTransit
        <3>2. wire' \in Seq(Message)
            BY <2>4, EmptyFacts DEF Disconnect
        <3>3. /\ pushCh' \in Seq(Message) /\ Len(pushCh') <= QueueSize
              /\ bus' \in [Instances -> Seq(Message)]
            BY <1>0, <2>4 DEF Disconnect
        <3> QED BY <1>c, <3>1, <3>2, <3>3
    <2>5. ASSUME Receive PROVE ChannelTypeOK(Message)'
        <3>1. Tail(wire) \in Seq(Message) /\ Head(wire) \in Message
            BY <1>0, <2>5, TailFacts DEF Receive
        <3>2. Append(pushCh, Head(wire)) \in Seq(Message)
              /\ Len(Append(pushCh, Head(wire))) = Len(pushCh) + 1 /\ Len(pushCh) \in Nat
            BY <1>0, <3>1, AppendFacts
        <3>3. pushCh' \in Seq(Message) /\ Len(pushCh') <= QueueSize /\ lost' \in BOOLEAN
            <4>1. CASE Len(pushCh) < QueueSize
                <5>1. pushCh' = Append(pushCh, Head(wire)) /\ lost' = lost
                    BY <2>5, <4>1 DEF Receive
                <5>2. Len(pushCh) + 1 <= QueueSize
                    BY <1>0, <3>2, <4>1
                <5> QED BY <1>0, <3>2, <5>1, <5>2
            <4>2. CASE ~(Len(pushCh) < QueueSize)
                <5>1. pushCh' = pushCh /\ lost' = TRUE
                    BY <2>5, <4>2 DEF Receive
                <5> QED BY <1>0, <5>1
            <4> QED BY <4>1, <4>2
        <3>4. wire' \in Seq(Message) /\ bus' \in [Instances -> Seq(Message)]
            BY <1>0, <2>5, <3>1 DEF Receive
        <3> QED BY <1>c, <3>3, <3>4
    <2> QED BY <1>9, <2>1, <2>2, <2>3, <2>4, <2>5 DEF ChannelNext, tapVars
<1>10. CASE UNCHANGED vars
    BY <1>5, <1>10 DEF vars, tapVars
<1> QED BY <1>2, <1>3, <1>4, <1>6, <1>7, <1>8, <1>9, <1>10 DEF Next, Server, MainLoop

\* Every step keeps the order and the number of what is on its way.
LEMMA PassingStep ==
    ASSUME TypeOK, Registered, Passing, [Next]_vars
    PROVE  Passing'
<1>1. ASSUME NEW i \in Instances, NEW t \in Taps, StartTap(i, t) PROVE Passing'
    BY <1>1, StartPasses
<1>2. ASSUME NEW i \in Instances, NEW t \in Taps, StopTap(i, t) PROVE Passing'
    <2>1. \A u \in Taps : row'[u] = IF u \in {t} THEN "gone" ELSE row[u]
        BY <1>2 DEF StopTap, TypeOK
    <2>2. Relay(i, <<Stop(t)>>) \/ NotRelayed
        BY <1>2 DEF StopTap
    <2>3. PushedBy(i, {t}) /\ UNCHANGED <<active, run, overtaken>>
        BY <1>2 DEF StopTap
    <2>4. {t} \in SUBSET Taps
        OBVIOUS
    <2> QED BY <2>1, <2>2, <2>3, <2>4, StopsAreMessages, StopsPass
<1>3. ASSUME NEW i \in Instances, DeleteStale(i) PROVE Passing'
    <2>1. stale[i] \in SUBSET Taps
        BY DEF TypeOK
    <2>2. /\ \A u \in Taps : row'[u] = IF u \in stale[i] THEN "gone" ELSE row[u]
          /\ PushedBy(i, stale[i]) /\ UNCHANGED <<active, run, overtaken>>
        BY <1>3 DEF DeleteStale
    <2>3. PICK ms \in StopsOf(stale[i]) : Relay(i, ms) \/ NotRelayed
        <3>1. \E ms \in StopsOf(stale[i]) : TRUE
            <4> DEFINE n == Cardinality(stale[i])
            <4>1. IsFiniteSet(stale[i])
                BY <2>1, TapsAssumption, FS_Subset
            <4>2. PICK c \in Nat : ExistsBijection(1 .. c, stale[i])
                BY <4>1, FS_NatBijection
            <4>c. n = c
                BY <4>2, FS_CountingElements
            <4>3. PICK f : f \in Bijection(1 .. n, stale[i])
                BY <4>2, <4>c DEF ExistsBijection
            <4>4. f \in [1 .. n -> stale[i]] /\ \A t \in stale[i] : \E k \in 1 .. n : f[k] = t
                BY <4>3 DEF Bijection, Injection, Surjection
            <4>5. [k \in 1 .. n |-> Stop(f[k])] \in StopsOf(stale[i])
                BY <4>4 DEF StopsOf
            <4> QED BY <4>5
        <3> QED BY <1>3, <3>1 DEF DeleteStale
    <2> QED BY <2>1, <2>2, <2>3, StopsAreMessages, StopsPass
<1>4. ASSUME NEW i \in Instances, FindStale(i) PROVE Passing'
    BY <1>4, QuietPasses DEF FindStale, Passing
<1>5. ASSUME NEW t \in Taps, Expire(t) \/ TimesOut(t) \/ Ends(t) \/ Unlist(t) \/ Stopped(t)
      PROVE  Passing'
    <2>0. \A u \in Taps : run[u] \in {"running", "cancelled"} => u \in active
        BY DEF Passing
    <2>1. CASE Expire(t)
        <3>1. \A u \in Taps : /\ row'[u] = None <=> row[u] = None
                              /\ row'[u] = "gone" => row[u] = "gone"
            BY <2>1 DEF Expire, TypeOK, None
        <3>2. UNCHANGED <<channelVars, active, run, pushers, overtaken>>
            BY <2>1 DEF Expire
        <3> QED BY <2>0, <3>1, <3>2, QuietPasses
    <2>2. CASE TimesOut(t) \/ Ends(t)
        <3>1. \A u \in Taps : /\ run'[u] = "running" => run[u] = "running"
                              /\ run'[u] \in {"running", "cancelled"}
                                    => run[u] \in {"running", "cancelled"}
            BY <2>2 DEF TimesOut, Ends, TypeOK
        <3>2. UNCHANGED <<channelVars, row, active, pushers, overtaken>>
            BY <2>2 DEF TimesOut, Ends
        <3> QED BY <2>0, <3>1, <3>2, QuietPasses
    <2>3. CASE Unlist(t)
        <3>1. active' = active \ {t}
              /\ \A u \in Taps : run'[u] = IF u = t THEN None ELSE run[u]
            BY <2>3 DEF Unlist, TypeOK
        <3>2. UNCHANGED <<channelVars, row, pushers, overtaken>>
            BY <2>3 DEF Unlist
        <3> QED BY <2>0, <3>1, <3>2, QuietPasses DEF None
    <2>4. CASE Stopped(t)
        <3>1. active' = active \ {t} /\ run' = run /\ run[t] \in {"closed", None}
            BY <2>4 DEF Stopped
        <3>2. UNCHANGED <<channelVars, row, pushers, overtaken>>
            BY <2>4 DEF Stopped
        <3> QED BY <2>0, <3>1, <3>2, QuietPasses DEF None
    <2> QED BY <1>5, <2>1, <2>2, <2>3, <2>4
<1>6. ASSUME NEW t \in Taps, HandleStart(t) \/ HandleStop(t) PROVE Passing'
    BY <1>6, HandleStartPasses, HandleStopPasses
<1>7. ASSUME ChannelNext, UNCHANGED tapVars PROVE Passing'
    <2>1. UNCHANGED tapState
        BY <1>7 DEF tapVars, tapState
    <2> QED BY <1>7, <2>1, HearPasses, ConnectPasses, NoticePasses, DisconnectPasses,
               ReceivePasses DEF ChannelNext
<1>8. CASE UNCHANGED vars
    BY <1>8, QuietPasses DEF vars, tapVars, Passing
<1> QED BY <1>1, <1>2, <1>3, <1>4, <1>5, <1>6, <1>7, <1>8 DEF Next, Server, MainLoop

\* At first nobody has said anything.
LEMMA InitPassing == Init => TypeOK /\ Passing
<1> SUFFICES ASSUME Init PROVE TypeOK /\ Passing
    OBVIOUS
<1>1. /\ wire = <<>> /\ pushCh = <<>> /\ bus = [i \in Instances |-> <<>>] /\ lost = FALSE
      /\ row = [t \in Taps |-> None] /\ active = {} /\ run = [t \in Taps |-> None]
      /\ overtaken = {} /\ pushers = [t \in Taps |-> {}]
      /\ stale = [i \in Instances |-> {}] /\ stopping = None
    BY DEF Init, ChannelInit
<1>2. EndsOK /\ LiveStreamIsRegistered
    BY InitRegistered DEF Registered
<1>3. Len(pushCh) = 0 /\ QueueSize \in Nat
    BY <1>1, PushChannelAssumption
<1>4. TypeOK
    <2>1. wire \in Seq(Message) /\ pushCh \in Seq(Message)
          /\ bus \in [Instances -> Seq(Message)] /\ lost \in BOOLEAN
        BY <1>1, EmptyFacts
    <2>2. ChannelTypeOK(Message)
        BY <1>2, <1>3, <2>1 DEF ChannelTypeOK, EndsOK
    <2> QED BY <1>1, <2>2 DEF TypeOK
<1>5. \A i \in Instances : connections[i] # NoStream => connections[i].at = i
    BY DEF Init, ChannelInit
<1>6. SilentWhileAway
    BY <1>1, <1>5 DEF SilentWhileAway
<1>7. stream # NoStream => stream.at \in Instances
    BY <1>2 DEF EndsOK, Stream
<1>8. Nearest = <<>>
    BY <1>1, <1>7 DEF Nearest
<1>9. \A m : ~OnItsWay(m)
    BY <1>1, <1>8, EmptyFacts, OnItsWayIs
<1> QED BY <1>1, <1>4, <1>6, <1>8, <1>9, EmptyFacts
        DEF Passing, Announced, HeardFromOthers, StartsOnce, StopIsOwed, StopsFollow, None

\* Whatever is pushed, by whom and over which stream: the agent runs only taps
\* its table knows, and one that runs on without a row is about to hear of its
\* stop, unless a push was lost or the stop came before the start
\* (Manager.Stop of agent/internal/tapper/tapper.go and expireStaleTaps of
\* src/server/services/active-taps.ts).
THEOREM StopsAreHeardHolds == Spec => []StopsAreHeard
<1>1. Init => TypeOK /\ Registered /\ Passing
    BY InitRegistered, InitPassing
<1>2. TypeOK /\ Registered /\ Passing /\ [Next]_vars => (TypeOK /\ Registered /\ Passing)'
    BY StepRegistered, TypeStep, PassingStep
<1>3. TypeOK /\ Registered /\ Passing => StopsAreHeard
    BY DEF StopsAreHeard, Passing, StopIsOwed, TypeOK, ChannelTypeOK
<1> QED
    BY <1>1, <1>2, <1>3, PTL DEF Spec

\* A stop overtakes its start only when two server processes pushed them, or
\* the agent's stream changed in between, however many processes hear of them
\* (relayPush of src/server/services/push-broadcast.ts).
THEOREM OneRouteKeepsOrderHolds == Spec => []OneRouteKeepsOrder
<1>1. Init => TypeOK /\ Registered /\ Passing
    BY InitRegistered, InitPassing
<1>2. TypeOK /\ Registered /\ Passing /\ [Next]_vars => (TypeOK /\ Registered /\ Passing)'
    BY StepRegistered, TypeStep, PassingStep
<1>3. TypeOK /\ Registered /\ Passing => OneRouteKeepsOrder
    <2> SUFFICES ASSUME TypeOK, Passing, NEW t \in overtaken, ~(Cardinality(pushers[t]) > 1)
                 PROVE  opened > 1
        BY DEF OneRouteKeepsOrder
    <2>1. t \in Taps /\ pushers[t] \in SUBSET Instances /\ opened \in Nat \ {0}
        BY PushChannelAssumption DEF TypeOK, ChannelTypeOK
    <2>2. IsFiniteSet(pushers[t]) /\ Cardinality(pushers[t]) \in Nat
        BY <2>1, PushChannelAssumption, FS_Subset, FS_CardinalityType
    <2>3. \A i, j \in pushers[t] : i = j
        <3>1. CASE Cardinality(pushers[t]) = 0
            BY <2>2, <3>1, FS_EmptySet
        <3>2. CASE Cardinality(pushers[t]) = 1
            BY <2>2, <3>2, FS_Singleton
        <3> QED BY <2>2, <3>1, <3>2
    <2>4. ~OneRoute(t)
        BY <2>1 DEF Passing, StopsFollow
    <2> QED BY <2>1, <2>3, <2>4 DEF OneRoute
<1> QED
    BY <1>1, <1>2, <1>3, PTL DEF Spec
================================================================================
