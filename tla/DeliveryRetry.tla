---------------------------- MODULE DeliveryRetry ----------------------------
(***************************************************************************)
(* Delivery of alerts to notification channels and of events to outbound   *)
(* webhooks, and the poll loop that retries what failed                    *)
(* (src/server/services/delivery-tracking.ts, outbound-webhook.ts,         *)
(* retry-service.ts, src/server/routers/alert-deliveries.ts).              *)
(*                                                                         *)
(* Every attempt to deliver an alert is a row of its own; a webhook        *)
(* delivery is one row that is updated.  A failed row carries the time of  *)
(* its next retry, of which only this is kept: never, later or due.        *)
(*                                                                         *)
(* The poll loop is a timer that does not wait for its last callback:      *)
(* Polls are callbacks that may run at the same time.  Callers are the     *)
(* requests and background calls that deliver something themselves.        *)
(*                                                                         *)
(* What may go wrong is chosen at the start, from TroubleCases: "overlap"  *)
(* (a poll starts while another one runs), "user" (someone asks for        *)
(* retries), "demote" (the process stops to lead and leads again),         *)
(* "target" (the channel is deleted, the endpoint switched off or on),     *)
(* "db" (a query fails) and "crash".                                       *)
(***************************************************************************)
EXTENDS Naturals, Sequences, FiniteSets

CONSTANTS
    Alerts,       \* alert events, each for one channel
    Hooks,        \* webhook deliveries
    Polls, Callers,
    MaxRetries,   \* MAX_ATTEMPT_NUMBER, the length of BACKOFF_DELAYS
    TroubleCases,
    MaxExtras     \* bound on overlaps, retries by users and crashes together

ASSUME DeliveryRetryAssumption ==
    /\ IsFiniteSet(Alerts) /\ IsFiniteSet(Hooks)
    /\ Polls \cap Callers = {}
    /\ MaxRetries \in Nat \ {0} /\ MaxExtras \in Nat
    /\ TroubleCases \subseteq SUBSET {"overlap", "user", "demote", "target", "db", "crash"}

VARIABLES
    attempts,   \* the rows of DeliveryAttempt in the order of their creation
    hooks,      \* the rows of WebhookDelivery
    sent,       \* the alerts that fired
    channel,    \* the notification channel exists
    enabled,    \* the webhook endpoint is enabled
    leading,    \* isLeader()
    work,       \* what each poll and caller is doing
    trouble, extras

tables == <<attempts, hooks>>
world  == <<sent, channel, enabled, leading>>
deliveryVars == <<tables, world, work, trouble, extras>>

Workers == Polls \cup Callers

Row == [alert: Alerts, number: Nat \ {0},
        status: {"pending", "failed", "success"}, retry: {"never", "later", "due"}]

HookRow == [number: Nat, retry: {"never", "later", "due"},
            status: {"none", "pending", "failed", "success", "dead_letter"}]

\* What a query returned of a row: it is not read again.
AttemptItem == [row: Nat \ {0}, number: Nat \ {0}]
HookItem == [hook: Hooks, number: Nat, enabled: BOOLEAN]

Idle == [phase |-> "idle"]

Work ==
    {Idle}
      \cup [phase: {"alerts"}, batch: SUBSET AttemptItem]
      \cup [phase: {"claimed", "sending"}, batch: SUBSET AttemptItem, item: AttemptItem]
      \cup [phase: {"query"}]
      \cup [phase: {"hooks"}, batch: SUBSET HookItem]
      \cup [phase: {"calling"}, batch: SUBSET HookItem, item: HookItem]

DeliveryTypeOK ==
    /\ attempts \in Seq(Row)
    /\ hooks \in [Hooks -> HookRow]
    /\ sent \subseteq Alerts
    /\ {channel, enabled, leading} \subseteq BOOLEAN
    /\ work \in [Workers -> Work]
    /\ trouble \in TroubleCases /\ extras \in 0 .. MaxExtras

DeliveryInit ==
    /\ attempts = <<>>
    /\ hooks = [h \in Hooks |-> [status |-> "none", number |-> 0, retry |-> "never"]]
    /\ sent = {}
    /\ channel = TRUE /\ enabled = TRUE /\ leading = TRUE
    /\ work = [w \in Workers |-> Idle]
    /\ trouble \in TroubleCases /\ extras = 0

-----------------------------------------------------------------------------
Rows == DOMAIN attempts

\* Mutant of Backoff: the last delay is forgotten.
BackoffShort(number) == IF number < MaxRetries THEN "later" ELSE "never"

\* getNextRetryAt
Backoff(number) == IF number <= MaxRetries THEN "later" ELSE "never"

Fault(f) == f \in trouble

Extra(f) == Fault(f) /\ extras < MaxExtras /\ extras' = extras + 1

Do(w, job) == work' = [work EXCEPT ![w] = job]

PendingRow(a, number) ==
    [alert |-> a, number |-> number, status |-> "pending", retry |-> "never"]

(***************************************************************************)
(* trackDelivery: a pending row, then the call, then its outcome.          *)
(***************************************************************************)
CreateAttempt(w, a, number, rest) ==
    /\ attempts' = Append(attempts, PendingRow(a, number))
    /\ Do(w, [phase |-> "sending", batch |-> rest,
              item |-> [row |-> Len(attempts) + 1, number |-> number]])

\* A poll goes on with the rest of its batch and then with the webhooks.
Rest(w, batch) ==
    IF w \in Callers THEN Idle
    ELSE IF batch = {} THEN [phase |-> "query"]
    ELSE [phase |-> "alerts", batch |-> batch]

\* Delivered, or refused, or the call or the first update threw; the update
\* in the handler of that may fail as well.
Outcome(r, number) ==
    \/ attempts' = [attempts EXCEPT ![r].status = "success"]
    \/ attempts' = [attempts EXCEPT ![r].status = "failed", ![r].retry = Backoff(number)]
    \/ Fault("db") /\ UNCHANGED attempts

FinishAttempt(w) ==
    /\ work[w].phase = "sending"
    /\ Outcome(work[w].item.row, work[w].item.number)
    /\ Do(w, Rest(w, work[w].batch))
    /\ UNCHANGED <<hooks, world, trouble, extras>>

-----------------------------------------------------------------------------
\* deliverToChannels for an alert that fired
SendAlert(c, a) ==
    /\ work[c] = Idle /\ a \notin sent /\ channel
    /\ sent' = sent \cup {a}
    /\ CreateAttempt(c, a, 1, {})
    /\ UNCHANGED <<hooks, channel, enabled, leading, trouble, extras>>

\* retryDelivery: a user retries one failed attempt at once.
RetryDelivery(c, r) ==
    /\ Extra("user")
    /\ work[c] = Idle /\ attempts[r].status = "failed" /\ channel
    /\ CreateAttempt(c, attempts[r].alert, attempts[r].number + 1, {})
    /\ UNCHANGED <<hooks, world, trouble>>

\* retryAllForChannel: every failed attempt is due, whatever came after it.
RetryAllForChannel ==
    /\ Extra("user")
    /\ attempts' = [r \in Rows |->
                      IF attempts[r].status = "failed"
                      THEN [attempts[r] EXCEPT !.retry = "due"] ELSE attempts[r]]
    /\ UNCHANGED <<hooks, world, work, trouble>>

-----------------------------------------------------------------------------
(***************************************************************************)
(* RetryService.processRetries                                             *)
(***************************************************************************)
Due(r) ==
    /\ attempts[r].status = "failed" /\ attempts[r].retry = "due"
    /\ attempts[r].number < MaxRetries + 1

\* Without due attempts, or when the query fails, the poll is over.
StartPoll(p) ==
    /\ work[p] = Idle /\ leading
    /\ \E r \in Rows : Due(r)
    /\ IF \A q \in Polls : work[q] = Idle THEN UNCHANGED extras ELSE Extra("overlap")
    /\ Do(p, [phase |-> "alerts",
              batch |-> {[row |-> r, number |-> attempts[r].number] : r \in {s \in Rows : Due(s)}}])
    /\ UNCHANGED <<tables, world, trouble>>

\* Mutant of Claimed: the time of the retry is kept.
ClaimedNot(r) == UNCHANGED attempts

Claimed(r) == attempts' = [attempts EXCEPT ![r].retry = "never"]

Claim(p) ==
    /\ work[p].phase = "alerts"
    /\ \E item \in work[p].batch :
          LET rest == work[p].batch \ {item} IN
          \/ Claimed(item.row) /\ Do(p, [phase |-> "claimed", batch |-> rest, item |-> item])
          \/ Fault("db") /\ (Claimed(item.row) \/ UNCHANGED attempts) /\ Do(p, Rest(p, rest))
    /\ UNCHANGED <<hooks, world, trouble, extras>>

\* buildPayload and retryChannel up to the new row; an alert or channel that
\* is gone, or an error, ends the retries of the claimed attempt.
Retry(p) ==
    /\ work[p].phase = "claimed"
    /\ LET item == work[p].item IN
       \/ channel /\ CreateAttempt(p, attempts[item.row].alert, item.number + 1, work[p].batch)
       \/ /\ ~channel \/ Fault("db")
          /\ UNCHANGED attempts /\ Do(p, Rest(p, work[p].batch))
    /\ UNCHANGED <<hooks, world, trouble, extras>>

-----------------------------------------------------------------------------
(***************************************************************************)
(* Outbound webhooks: fireOutboundWebhooks, and processOutboundRetries at  *)
(* the end of a poll that found due attempts.                              *)
(***************************************************************************)
FireHook(c, h) ==
    /\ work[c] = Idle /\ hooks[h].status = "none" /\ enabled
    /\ hooks' = [hooks EXCEPT ![h] = [status |-> "pending", number |-> 1, retry |-> "never"]]
    /\ Do(c, [phase |-> "calling", batch |-> {},
              item |-> [hook |-> h, number |-> 0, enabled |-> TRUE]])
    /\ UNCHANGED <<attempts, world, trouble, extras>>

HookDue(h) ==
    /\ hooks[h].status = "failed" /\ hooks[h].retry = "due"
    /\ hooks[h].number < MaxRetries + 1

HookBatch ==
    {[hook |-> h, number |-> hooks[h].number, enabled |-> enabled] : h \in {k \in Hooks : HookDue(k)}}

RestHooks(w, batch) ==
    IF w \in Callers \/ batch = {} THEN Idle ELSE [phase |-> "hooks", batch |-> batch]

\* Mutant of QueryHooks: the poll ends with the last alert.
QueryHooksNever(p) ==
    /\ work[p].phase = "query"
    /\ Do(p, Idle)
    /\ UNCHANGED <<tables, world, trouble, extras>>

QueryHooks(p) ==
    /\ work[p].phase = "query"
    /\ \/ Do(p, RestHooks(p, HookBatch))
       \/ Fault("db") /\ Do(p, Idle)
    /\ UNCHANGED <<tables, world, trouble, extras>>

ClaimHook(p) ==
    /\ work[p].phase = "hooks"
    /\ \E item \in work[p].batch :
          LET rest == work[p].batch \ {item}
              claimed == [hooks EXCEPT ![item.hook].retry = "never"]
          IN  \/ /\ item.enabled
                 /\ hooks' = claimed
                 /\ Do(p, [phase |-> "calling", batch |-> rest, item |-> item])
              \/ /\ ~item.enabled
                 /\ hooks' = [claimed EXCEPT ![item.hook].status = "dead_letter"]
                 /\ Do(p, RestHooks(p, rest))
              \/ /\ Fault("db")
                 /\ hooks' \in {hooks, claimed}
                 /\ Do(p, RestHooks(p, rest))
    /\ UNCHANGED <<attempts, world, trouble, extras>>

\* deliverOutboundWebhook and the update with its result.  An update that
\* fails is only logged.
FinishHook(w) ==
    /\ work[w].phase = "calling"
    /\ LET h == work[w].item.hook
           n == work[w].item.number + 1
       IN  \/ \E status \in {"success", "dead_letter"} :
                hooks' = [hooks EXCEPT ![h].status = status, ![h].number = n]
           \/ hooks' = [hooks EXCEPT ![h] = [status |-> "failed", number |-> n, retry |-> Backoff(n)]]
           \/ Fault("db") /\ UNCHANGED hooks
    /\ Do(w, RestHooks(w, work[w].batch))
    /\ UNCHANGED <<attempts, world, trouble, extras>>

-----------------------------------------------------------------------------
BecomesDue ==
    /\ \/ \E r \in Rows : attempts[r].retry = "later" /\ attempts' = [attempts EXCEPT ![r].retry = "due"]
          /\ UNCHANGED hooks
       \/ \E h \in Hooks : hooks[h].retry = "later" /\ hooks' = [hooks EXCEPT ![h].retry = "due"]
          /\ UNCHANGED attempts
    /\ UNCHANGED <<world, work, trouble, extras>>

Demote ==
    /\ leading /\ Extra("demote")
    /\ leading' = FALSE
    /\ UNCHANGED <<tables, sent, channel, enabled, work, trouble>>

Lead ==
    /\ ~leading
    /\ leading' = TRUE
    /\ UNCHANGED <<tables, sent, channel, enabled, work, trouble, extras>>

TargetChanges ==
    /\ Extra("target")
    /\ \/ channel' = FALSE /\ UNCHANGED enabled
       \/ enabled' = ~enabled /\ UNCHANGED channel
    /\ UNCHANGED <<tables, sent, leading, work, trouble>>

DeliveryCrash ==
    /\ Extra("crash")
    /\ work' = [w \in Workers |-> Idle]
    /\ UNCHANGED <<tables, world, trouble>>

Step(w) == FinishAttempt(w) \/ FinishHook(w)

PollStep(p) == Claim(p) \/ Retry(p) \/ QueryHooks(p) \/ ClaimHook(p) \/ Step(p)

DeliveryNext ==
    \/ \E c \in Callers :
          \/ \E a \in Alerts : SendAlert(c, a)
          \/ \E h \in Hooks : FireHook(c, h)
          \/ \E r \in Rows : RetryDelivery(c, r)
          \/ Step(c)
    \/ \E p \in Polls : StartPoll(p) \/ PollStep(p)
    \/ RetryAllForChannel
    \/ BecomesDue \/ Demote \/ Lead \/ TargetChanges \/ DeliveryCrash

DeliverySpec == DeliveryInit /\ [][DeliveryNext]_deliveryVars

(***************************************************************************)
(* The timer of the poll loop fires again and again, calls end (they have  *)
(* timeouts), time passes and a process that lost the lead gets it back.   *)
(***************************************************************************)
DeliveryFairness ==
    /\ WF_deliveryVars(\E p \in Polls : StartPoll(p))
    /\ \A p \in Polls : WF_deliveryVars(PollStep(p))
    /\ \A c \in Callers : WF_deliveryVars(Step(c))
    /\ WF_deliveryVars(BecomesDue) /\ WF_deliveryVars(Lead)

DeliveryFairSpec == DeliverySpec /\ DeliveryFairness

-----------------------------------------------------------------------------
InHand(a) ==
    \E w \in Workers :
        /\ work[w].phase \in {"claimed", "sending"}
        /\ attempts[work[w].item.row].alert = a

Ended(a) ==
    \/ \E r \in Rows : attempts[r].alert = a /\
          (attempts[r].status = "success" \/ attempts[r].number > MaxRetries)
    \/ ~channel

\* Types; and as long as polls do not overlap and nobody asks for a retry,
\* the attempts to deliver an alert form one chain, numbered from 1, of at
\* most one more than the retries, whatever fails and whenever the process
\* dies: no attempt is followed by two.
AttemptsFormAChain ==
    /\ DeliveryTypeOK
    /\ trouble \subseteq {"demote", "target", "db", "crash"} =>
         \A r \in Rows :
            /\ attempts[r].number <= MaxRetries + 1
            /\ attempts[r].number = Cardinality({s \in 1 .. r : attempts[s].alert = attempts[r].alert})

\* When no query fails and no process dies, an alert or webhook that was not
\* delivered is being delivered, will be retried, or has been tried as often
\* as the schedule says, however polls and users interfere with each other.
NoDeliveryForgotten ==
    trouble \subseteq {"overlap", "user", "demote", "target"} =>
      /\ \A a \in sent :
            \/ Ended(a) \/ InHand(a)
            \/ \E r \in Rows : attempts[r].alert = a /\ attempts[r].retry # "never"
      /\ \A h \in Hooks :
            \/ hooks[h].status \in {"none", "success", "dead_letter"}
            \/ hooks[h].retry # "never" \/ hooks[h].number > MaxRetries
            \/ \E w \in Workers : work[w].phase = "calling" /\ work[w].item.hook = h

\* While no query fails and no process dies, an alert that fired is delivered
\* or tried to the end of the schedule; and a webhook that is due while a poll
\* retries alerts is retried by that poll.  (A poll that finds no alert to
\* retry does not look at webhooks.)
DeliveriesSettle ==
    /\ \A a \in Alerts :
          trouble \cap {"db", "crash"} = {} /\ a \in sent ~> Ended(a)
    /\ \A h \in Hooks :
          /\ trouble \cap {"db", "crash"} = {}
          /\ HookDue(h) /\ \E p \in Polls : work[p].phase = "alerts"
          ~> ~HookDue(h)

=============================================================================
