---------------------------- MODULE WebhookDelivery ----------------------------
(***************************************************************************)
(* Webhook deliveries of one endpoint: rows queued by the budget monitor,  *)
(* the inline sender of the test button                                    *)
(* (apps/api/src/lib/webhookDispatch.ts), and the passes of the worker     *)
(* (worker/src/jobs/webhook-delivery.ts) that drain what is PENDING.       *)
(*                                                                         *)
(* A sender works on a copy of the row, and of the endpoint, read before   *)
(* it sends.  The inline one takes up to three attempts of ten seconds; a  *)
(* worker's pass takes a row after five.  The endpoint may refuse for      *)
(* ever, be disabled, enabled again, or deleted with its deliveries.       *)
(***************************************************************************)
EXTENDS Naturals, FiniteSets

CONSTANTS
    Deliveries,     \* events of the endpoint
    Senders,        \* passes of the worker that may overlap
    MaxAttempts,    \* MAX_ATTEMPTS of the worker (6)
    MaxFailures,    \* failures in a row that disable the endpoint (10)
    MaxChanges      \* bound: changes by the user, and deaths of the worker

ASSUME WebhookAssumption ==
    MaxAttempts \in Nat /\ MaxAttempts >= 3 /\ MaxFailures \in Nat \ {0} /\ MaxChanges \in Nat

VARIABLES
    delivery,   \* event -> [status, attempts] of its row
    endpoint,   \* none yet, enabled, disabled or gone
    failures,   \* failureCount, up to MaxFailures
    inline,     \* event -> the failureCount its inline sender has read, {} or one
    copy,       \* pass -> the row it works on, as it was listed: {} or one
    accepted,   \* events the endpoint has accepted at least once
    changes     \* changes by the user, and deaths of the worker

webhookVars == <<delivery, endpoint, failures, inline, copy, accepted, changes>>

DeliveryStates == {"none", "PENDING", "DELIVERED", "FAILED"}

Copies == [event : Deliveries, attempts : 0 .. MaxAttempts, enabled : BOOLEAN]

WebhookTypeOK ==
    /\ delivery \in [Deliveries -> [status : DeliveryStates, attempts : 0 .. MaxAttempts]]
    /\ endpoint \in {"none", "enabled", "disabled", "gone"}
    /\ failures \in 0 .. MaxFailures
    /\ inline \in [Deliveries -> SUBSET (0 .. MaxFailures)]
    /\ copy \in [Senders -> SUBSET Copies]
    /\ accepted \subseteq Deliveries
    /\ changes \in 0 .. MaxChanges

WebhookInit ==
    /\ delivery = [d \in Deliveries |-> [status |-> "none", attempts |-> 0]]
    /\ endpoint = "none"
    /\ failures = 0
    /\ inline = [d \in Deliveries |-> {}]
    /\ copy = [s \in Senders |-> {}]
    /\ accepted = {}
    /\ changes = 0

Row(status, n) == [status |-> status, attempts |-> n]

Pending(d) == delivery[d].status = "PENDING"

\* An update by id of a row that was deleted throws, and so does its transaction.
There == endpoint \in {"enabled", "disabled"}

Disabled(n) == IF n >= MaxFailures THEN "disabled" ELSE endpoint
Counted(n) == IF n >= MaxFailures THEN MaxFailures ELSE n

-----------------------------------------------------------------------------
(* New deliveries, and the user's changes.                                 *)

\* POST /webhooks (two requests at the limit of ten may both pass its count).
CreateEndpoint ==
    /\ endpoint = "none" /\ endpoint' = "enabled"
    /\ UNCHANGED <<delivery, failures, inline, copy, accepted, changes>>

\* The budget monitor queues a row for an enabled endpoint: its attemptCount starts
\* at 1, by the schema's default.
QueueDelivery(d) ==
    /\ delivery[d].status = "none" /\ endpoint = "enabled"
    /\ delivery' = [delivery EXCEPT ![d] = Row("PENDING", 1)]
    /\ UNCHANGED <<endpoint, failures, inline, copy, accepted, changes>>

\* The test button: the endpoint is read, and a row is made.
TestDelivery(d) ==
    /\ delivery[d].status = "none" /\ endpoint = "enabled"
    /\ delivery' = [delivery EXCEPT ![d] = Row("PENDING", 0)]
    /\ inline' = [inline EXCEPT ![d] = {failures}]
    /\ UNCHANGED <<endpoint, failures, copy, accepted, changes>>

Change ==
    /\ There /\ changes < MaxChanges /\ changes' = changes + 1
    /\ UNCHANGED <<inline, copy, accepted>>

\* PUT: enabling resets the count.
SetEnabled ==
    /\ Change /\ UNCHANGED delivery
    /\ \/ endpoint' = "enabled" /\ failures' = 0
       \/ endpoint' = "disabled" /\ UNCHANGED failures

\* DELETE: the deliveries first, then the endpoint, in one transaction.
DeleteEndpoint ==
    /\ Change
    /\ endpoint' = "gone" /\ UNCHANGED failures
    /\ delivery' = [d \in Deliveries |-> Row("none", 0)]

-----------------------------------------------------------------------------
(* The inline sender.                                                      *)

InlineEnds(d) == inline[d] # {} /\ inline' = [inline EXCEPT ![d] = {}] /\ UNCHANGED <<copy, changes>>

\* One of its three attempts is accepted.
InlineDelivered(d) ==
    /\ InlineEnds(d)
    /\ accepted' = accepted \cup {d}
    /\ IF There
         THEN /\ \E n \in 1 .. 3 : delivery' = [delivery EXCEPT ![d] = Row("DELIVERED", n)]
              /\ failures' = 0
         ELSE UNCHANGED <<delivery, failures>>
    /\ UNCHANGED endpoint

\* None is; the failure is counted on from what was read before the first.
InlineFailed(d) ==
    /\ InlineEnds(d)
    /\ IF There
         THEN /\ delivery' = [delivery EXCEPT ![d] = Row("FAILED", 3)]
              /\ \E n \in inline[d] : failures' = Counted(n + 1) /\ endpoint' = Disabled(n + 1)
         ELSE UNCHANGED <<delivery, failures, endpoint>>
    /\ UNCHANGED accepted

\* The address is internal by now.
InlineBlocked(d) ==
    /\ InlineEnds(d)
    /\ delivery' = IF There THEN [delivery EXCEPT ![d] = Row("FAILED", 1)] ELSE delivery
    /\ UNCHANGED <<endpoint, failures, accepted>>

\* The API dies over it, before or after the endpoint has accepted.
InlineLost(d) ==
    /\ InlineEnds(d)
    /\ accepted' \in {accepted, accepted \cup {d}}
    /\ UNCHANGED <<delivery, endpoint, failures>>

-----------------------------------------------------------------------------
(* The worker.                                                             *)

\* Fault: the row is marked when it is taken up.
TakeAsDelivered(s, d) ==
    /\ copy[s] = {} /\ Pending(d)
    /\ copy' = [copy EXCEPT ![s] = {[event |-> d, attempts |-> delivery[d].attempts,
                                      enabled |-> endpoint = "enabled"]}]
    /\ delivery' = [delivery EXCEPT ![d].status = "DELIVERED"]
    /\ UNCHANGED <<endpoint, failures, inline, accepted, changes>>

\* A pass takes up a row that was PENDING when the pass listed it, and due.
TakeDelivery(s, d) ==
    /\ copy[s] = {} /\ Pending(d)
    /\ copy' = [copy EXCEPT ![s] = {[event |-> d, attempts |-> delivery[d].attempts,
                                      enabled |-> endpoint = "enabled"]}]
    /\ UNCHANGED <<delivery, endpoint, failures, inline, accepted, changes>>

Sent(s) == copy' = [copy EXCEPT ![s] = {}] /\ UNCHANGED <<inline, changes>>

\* The endpoint was disabled, its URL is none, or leads to an internal address.
Reject(s) ==
    /\ Sent(s)
    /\ \E c \in copy[s] :
         delivery' = IF There THEN [delivery EXCEPT ![c.event] = Row("FAILED", delivery[c.event].attempts)]
                              ELSE delivery
    /\ UNCHANGED <<endpoint, failures, accepted>>

Deliver(s) ==
    /\ Sent(s)
    /\ \E c \in copy[s] :
         /\ c.enabled
         /\ accepted' = accepted \cup {c.event}
         /\ delivery' = IF There THEN [delivery EXCEPT ![c.event] =
                                         Row("DELIVERED", IF c.attempts < MaxAttempts THEN c.attempts + 1
                                                          ELSE MaxAttempts)]
                                 ELSE delivery
    /\ failures' = IF There THEN 0 ELSE failures
    /\ UNCHANGED endpoint

\* Fault: the attempt is not counted.
FailUncounted(s) ==
    /\ Sent(s)
    /\ \E c \in copy[s] : c.enabled /\ delivery' =
         IF There THEN [delivery EXCEPT ![c.event] = Row("PENDING", c.attempts)] ELSE delivery
    /\ UNCHANGED <<endpoint, failures, accepted>>

\* Fault: the attempts are not limited.
FailForever(s) ==
    /\ Sent(s)
    /\ \E c \in copy[s] : c.enabled /\ delivery' =
         IF There THEN [delivery EXCEPT ![c.event] = Row("PENDING", c.attempts + 1)] ELSE delivery
    /\ UNCHANGED <<endpoint, failures, accepted>>

\* fail(): one more attempt than the copy says; the last one counts for the endpoint.
FailDelivery(s) ==
    /\ Sent(s)
    /\ \E c \in copy[s] :
         /\ c.enabled
         /\ IF ~There THEN UNCHANGED <<delivery, endpoint, failures>>
            ELSE IF c.attempts + 1 < MaxAttempts
            THEN /\ delivery' = [delivery EXCEPT ![c.event] = Row("PENDING", c.attempts + 1)]
                 /\ UNCHANGED <<endpoint, failures>>
            ELSE /\ delivery' = [delivery EXCEPT ![c.event] = Row("FAILED", MaxAttempts)]
                 /\ failures' = Counted(failures + 1)
                 /\ endpoint' = Disabled(failures + 1)
    /\ UNCHANGED accepted

\* The worker dies over it, before or after the endpoint has accepted.
SenderStops(s) ==
    /\ changes < MaxChanges /\ changes' = changes + 1
    /\ \E c \in copy[s] : accepted' \in {accepted, accepted \cup {c.event}}
    /\ copy' = [copy EXCEPT ![s] = {}]
    /\ UNCHANGED <<delivery, endpoint, failures, inline>>

-----------------------------------------------------------------------------
Attempt(s) == Reject(s) \/ Deliver(s) \/ FailDelivery(s)

Inline(d) == InlineDelivered(d) \/ InlineFailed(d) \/ InlineBlocked(d) \/ InlineLost(d)

WebhookNext ==
    \/ CreateEndpoint \/ SetEnabled \/ DeleteEndpoint
    \/ \E d \in Deliveries : QueueDelivery(d) \/ TestDelivery(d) \/ Inline(d)
    \/ \E s \in Senders : Attempt(s) \/ SenderStops(s) \/ \E d \in Deliveries : TakeDelivery(s, d)

WebhookSpec ==
    /\ WebhookInit /\ [][WebhookNext]_webhookVars
    /\ \A d \in Deliveries : WF_webhookVars(Inline(d))
    /\ \A s \in Senders :
          /\ WF_webhookVars(Attempt(s))
          /\ \A d \in Deliveries : WF_webhookVars(TakeDelivery(s, d))

-----------------------------------------------------------------------------
(* Properties.                                                             *)

\* Every delivery is at last DELIVERED or FAILED (or deleted), though a late pass may
\* set it back to PENDING with the attempts of its old copy.
DeliverySettles == \A d \in Deliveries : []<>~Pending(d)

\* A delivery the user is shown as DELIVERED was accepted by the endpoint, whichever of
\* the senders wrote the row last.
DeliveredWasAccepted ==
    \A d \in Deliveries : delivery[d].status = "DELIVERED" => d \in accepted
=============================================================================
