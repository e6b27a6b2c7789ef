----------------------------- MODULE PushChannel -----------------------------
(***************************************************************************)
(* How a server process pushes a message to an agent                       *)
(* (src/server/services/push-registry.ts, push-broadcast.ts,               *)
(* redis-pubsub.ts, src/app/api/agent/push/route.ts,                       *)
(* agent/internal/push/client.go, the queue of agent/internal/agent).      *)
(*                                                                         *)
(* The agent keeps one stream open to one process.  Every process has a    *)
(* registry of the streams it believes open; what the registry does not    *)
(* know it publishes, and every other process that hears of it looks into  *)
(* its own registry.  Nothing is acknowledged: a stream that the agent has *)
(* left still swallows messages until its process notices.                 *)
(***************************************************************************)
EXTENDS Naturals, Sequences, FiniteSets

CONSTANTS
    Instances,   \* server processes
    MaxStreams,  \* bound on the streams the agent opens
    QueueSize    \* capacity of pushCh

ASSUME PushChannelAssumption ==
    /\ IsFiniteSet(Instances) /\ Instances # {}
    /\ MaxStreams \in Nat \ {0} /\ QueueSize \in Nat \ {0}

VARIABLES
    connections,  \* the stream in the registry of each process
    stream,       \* the stream the agent reads
    left,         \* streams the agent has left and their process not noticed
    opened,       \* number of streams opened so far
    wire,         \* messages in the agent's stream
    bus,          \* envelopes Redis has yet to hand to each process
    pushCh,       \* messages the agent has yet to handle
    lost          \* a message was lost on the way

channelVars == <<connections, stream, left, opened, wire, bus, pushCh, lost>>

Stream == [id: 1 .. MaxStreams, at: Instances]
NoStream == [id |-> 0]

ChannelTypeOK(Message) ==
    /\ connections \in [Instances -> Stream \cup {NoStream}]
    /\ stream \in Stream \cup {NoStream}
    /\ left \subseteq Stream
    /\ opened \in 1 .. MaxStreams
    /\ wire \in Seq(Message)
    /\ bus \in [Instances -> Seq(Message)]
    /\ pushCh \in Seq(Message) /\ Len(pushCh) <= QueueSize
    /\ lost \in BOOLEAN

ChannelInit ==
    /\ opened = 1
    /\ \E i \in Instances : stream = [id |-> 1, at |-> i]
    /\ connections = [i \in Instances |-> IF i = stream.at THEN stream ELSE NoStream]
    /\ left = {}
    /\ wire = <<>>
    /\ bus = [i \in Instances |-> <<>>]
    /\ pushCh = <<>>
    /\ lost = FALSE

-----------------------------------------------------------------------------
\* PushRegistry.send: a stream nobody reads takes the messages all the same.
Enqueue(i, messages) ==
    IF connections[i] = stream
    THEN wire' = wire \o messages /\ UNCHANGED lost
    ELSE UNCHANGED wire /\ lost' = TRUE

\* publishPush: the publisher skips its own envelope.  The publication may
\* fail, and reaches nobody while the agent is away.
Publish(i, messages) ==
    \/ /\ bus' = [j \in Instances |-> IF j = i THEN bus[j] ELSE bus[j] \o messages]
       /\ lost' = (lost \/ stream = NoStream)
    \/ /\ UNCHANGED bus
       /\ lost' = TRUE

\* relayPush, for messages sent one right after the other.
Relay(i, messages) ==
    /\ IF connections[i] # NoStream
       THEN Enqueue(i, messages) /\ UNCHANGED bus
       ELSE Publish(i, messages) /\ UNCHANGED wire
    /\ UNCHANGED <<connections, stream, left, opened, pushCh>>

\* A process dies between a write to the database and the push it owes.
NotRelayed ==
    /\ lost' = TRUE
    /\ UNCHANGED <<connections, stream, left, opened, wire, bus, pushCh>>

\* Mutant of Hear: the envelope published last is handed over first.
HearLast(i) ==
    /\ bus[i] # <<>>
    /\ bus' = [bus EXCEPT ![i] = SubSeq(@, 1, Len(@) - 1)]
    /\ IF connections[i] # NoStream
       THEN wire' = IF connections[i] = stream
                    THEN Append(wire, bus[i][Len(bus[i])]) ELSE wire
       ELSE UNCHANGED wire
    /\ UNCHANGED <<connections, stream, left, opened, pushCh, lost>>

\* handleMessage in a process that heard of a push.
Hear(i) ==
    /\ bus[i] # <<>>
    /\ bus' = [bus EXCEPT ![i] = Tail(@)]
    /\ wire' = IF connections[i] # NoStream /\ connections[i] = stream
               THEN Append(wire, Head(bus[i])) ELSE wire
    /\ UNCHANGED <<connections, stream, left, opened, pushCh, lost>>

-----------------------------------------------------------------------------
\* The agent opens a stream; the process registers it in place of another.  The
\* authentication before that, which could delay it, is part of this step.
Connect(i) ==
    LET new == [id |-> opened + 1, at |-> i] IN
    /\ stream = NoStream /\ opened < MaxStreams
    /\ opened' = opened + 1
    /\ stream' = new
    /\ connections' = [connections EXCEPT ![i] = new]
    /\ UNCHANGED <<left, wire, bus, pushCh, lost>>

InTransit == wire # <<>> \/ \E i \in Instances : bus[i] # <<>>

Disconnect ==
    /\ stream # NoStream
    /\ left' = left \cup {stream}
    /\ stream' = NoStream
    /\ wire' = <<>>
    /\ lost' = (lost \/ InTransit)
    /\ UNCHANGED <<connections, opened, bus, pushCh>>

\* Mutant of Unregister: whatever stream the process has is forgotten.
UnregisterAny(s) == connections' = [connections EXCEPT ![s.at] = NoStream]

Unregister(s) ==
    connections' = [connections EXCEPT ![s.at] = IF @ = s THEN NoStream ELSE @]

\* The process is told of the end of a stream, perhaps long after.
Notice(s) ==
    /\ s \in left
    /\ left' = left \ {s}
    /\ Unregister(s)
    /\ UNCHANGED <<stream, opened, wire, bus, pushCh, lost>>

\* The client passes a message on unless the queue is full.
Receive ==
    /\ wire # <<>>
    /\ wire' = Tail(wire)
    /\ IF Len(pushCh) < QueueSize
       THEN pushCh' = Append(pushCh, Head(wire)) /\ UNCHANGED lost
       ELSE UNCHANGED pushCh /\ lost' = TRUE
    /\ UNCHANGED <<connections, stream, left, opened, bus>>

ChannelNext ==
    \/ \E i \in Instances : Hear(i) \/ Connect(i)
    \/ \E s \in left : Notice(s)
    \/ Disconnect \/ Receive

-----------------------------------------------------------------------------
\* The stream the agent reads is the one its process has registered, however
\* late the process was told of the end of an earlier one: otherwise every
\* push would be published, to processes that do not have it either, for as
\* long as the stream lives.
LiveStreamIsRegistered ==
    stream # NoStream => connections[stream.at] = stream

=============================================================================
