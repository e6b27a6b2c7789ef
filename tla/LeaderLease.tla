---------------------------- MODULE LeaderLease ----------------------------
(***************************************************************************)
(* What the election promises to the services that ask isLeader(): a lease *)
(* with one holder, which ends after Life intervals unless the holder      *)
(* prolongs it.  Commands, replies and timers are gone; LeaderElection     *)
(* implements this module (ImplementsLease).                               *)
(*                                                                         *)
(* An instance may go on leading after it lost the lease, but not beyond   *)
(* the interval, as long as nothing is late: until then the services may   *)
(* run twice, and never longer.                                            *)
(***************************************************************************)
EXTENDS Naturals

CONSTANTS Instances, Life, Nobody, Departed

VARIABLES
    holder,     \* of the lease; "departed": an instance that is gone
    remaining,  \* intervals until the lease ends
    leads,      \* instances that believe they lead
    closing,    \* instances that were told to stop
    punctual,   \* timers and replies are never late, and nobody stops
    durable     \* a lease is not forgotten

leaseVars == <<holder, remaining, leads, closing, punctual, durable>>

LeaseInit ==
    /\ holder = Nobody /\ remaining = 0
    /\ leads = {} /\ closing = {}
    /\ punctual \in BOOLEAN /\ durable \in BOOLEAN

-----------------------------------------------------------------------------
\* SET key id EX ttl NX, executed
Take(i) ==
    /\ holder = Nobody
    /\ holder' = i /\ remaining' = Life
    /\ UNCHANGED <<leads, closing>>

\* RENEW_SCRIPT, executed for the owner
Prolong(i) ==
    /\ holder = i
    /\ remaining' = Life
    /\ UNCHANGED <<holder, leads, closing>>

\* RELEASE_SCRIPT, executed for the owner
GiveBack(i) ==
    /\ holder = i /\ i \in closing
    /\ holder' = Nobody /\ remaining' = 0
    /\ UNCHANGED <<leads, closing>>

\* The reply to an acquisition is handled.
Lead(i) ==
    /\ punctual => holder = i
    /\ leads' = leads \cup {i}
    /\ UNCHANGED <<holder, remaining, closing>>

StepDown(i) ==
    /\ leads' = leads \ {i}
    /\ UNCHANGED <<holder, remaining, closing>>

Close(i) ==
    /\ closing' = closing \cup {i}
    /\ UNCHANGED <<holder, remaining, leads>>

\* The process ends; what it held stays held until it ends by itself.
Die(i) ==
    /\ leads' = leads \ {i} /\ closing' = closing \ {i}
    /\ holder' = IF holder = i THEN Departed ELSE holder
    /\ UNCHANGED remaining

Forget ==
    /\ ~durable
    /\ holder' = Nobody /\ remaining' = 0
    /\ UNCHANGED <<leads, closing>>

\* An interval ends.  Whoever leads then holds the lease.
Pass ==
    /\ punctual => leads \subseteq {holder}
    /\ remaining > 0
    /\ remaining' = remaining - 1
    /\ holder' = IF remaining = 1 THEN Nobody ELSE holder
    /\ UNCHANGED <<leads, closing>>

LeaseNext ==
    /\ \/ \E i \in Instances :
            \/ Take(i) \/ Prolong(i) \/ GiveBack(i)
            \/ Lead(i) \/ StepDown(i) \/ Close(i) \/ Die(i)
       \/ Forget \/ Pass
    /\ UNCHANGED <<punctual, durable>>

LeaseSpec == LeaseInit /\ [][LeaseNext]_leaseVars

=============================================================================
