------------------------------ MODULE PortPool ------------------------------
(***************************************************************************)
(* The port allocator of the agent's supervisor: allocatePortPair,         *)
(* nextPort, releasePort and releasePorts of                               *)
(* agent/internal/supervisor/supervisor.go, as operators on a pool value   *)
(*                                                                         *)
(*     [free |-> a stack of returned ports, next |-> first unused port].   *)
(*                                                                         *)
(* basePort is 0 here, so the managed range basePort+1..maxPort of the     *)
(* code is 1..MaxPort.  Every operator is evaluated with s.mu held.        *)
(***************************************************************************)
EXTENDS Naturals, Sequences

CONSTANT MaxPort        \* maxPort - basePort of the code (65535 - 8687)

ASSUME MaxPortAssumption == MaxPort \in Nat

Ports == 1..MaxPort

\* The value a port field has before a port is assigned to it.
NoPort == 0

Pools == [free: Seq(Ports), next: 1..(MaxPort + 1)]

EmptyPool == [free |-> <<>>, next |-> 1]

\* Mutant of HasPort: one port past the end of the range.
HasPortOffByOne(pool) == pool.free # <<>> \/ pool.next <= MaxPort + 1

\* nextPort succeeds: a freed port is available, or the range is not used up.
HasPort(pool) == pool.free # <<>> \/ pool.next <= MaxPort

\* The port nextPort hands out: the most recently freed one, else a new one.
PortTaken(pool) ==
    IF pool.free # <<>> THEN pool.free[Len(pool.free)] ELSE pool.next

\* The pool nextPort leaves behind.
AfterTake(pool) ==
    IF pool.free # <<>>
    THEN [pool EXCEPT !.free = SubSeq(pool.free, 1, Len(pool.free) - 1)]
    ELSE [pool EXCEPT !.next = pool.next + 1]

\* releasePort: ports outside the managed range are ignored.
Release(pool, port) ==
    IF port \in Ports
    THEN [pool EXCEPT !.free = Append(pool.free, port)]
    ELSE pool

\* releasePorts, and the two releasePort calls on each error path.
ReleasePair(pool, pair) == Release(Release(pool, pair[1]), pair[2])

\* allocatePortPair succeeds.
HasPair(pool) == HasPort(pool) /\ HasPort(AfterTake(pool))

\* The pair <<metricsPort, apiPort>> allocatePortPair returns.
PairTaken(pool) == <<PortTaken(pool), PortTaken(AfterTake(pool))>>

(***************************************************************************)
(* The pool allocatePortPair leaves behind.  When only one port is left    *)
(* the metrics port is taken, the API port cannot be, and the metrics port *)
(* goes onto the free stack.                                               *)
(***************************************************************************)
AfterAllocate(pool) ==
    IF HasPair(pool) THEN AfterTake(AfterTake(pool))
    ELSE IF HasPort(pool) THEN Release(AfterTake(pool), PortTaken(pool))
    ELSE pool
=============================================================================
