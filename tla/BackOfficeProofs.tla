----------------------------- MODULE BackOfficeProofs -----------------------------
(***************************************************************************)
(* Proofs about the back office: a delivery shown as delivered was         *)
(* accepted, a decision on a customer is told, no event is deleted before  *)
(* it was rolled up, the price a launch read is the price billed, the      *)
(* price formula is monotone and bounded, and a mail that was given up has *)
(* had its attempts and hardly more.  Each is proved of the component's    *)
(* own steps, and the first four are carried over to the composition.      *)
(***************************************************************************)
EXTENDS BackOffice, FiniteSetTheorems, TLAPS

-----------------------------------------------------------------------------
(* What a step of the composition is for a component.                      *)

\* The composition starts where the components do.
LEMMA BackOfficeStarts ==
  BackOfficeInit => WebhookInit /\ ApplicationInit /\ RetentionInit /\ SpotInit
  BY DEF BackOfficeInit

\* A step of the composition is a step of the webhooks, or not their business ...
LEMMA StepsWebhooks == [BackOfficeNext]_backOfficeVars => [WebhookNext]_webhookVars
  BY DEF BackOfficeNext, backOfficeVars, webhookVars

\* ... and so for the applications ...
LEMMA StepsApplications == [BackOfficeNext]_backOfficeVars => [ApplicationNext]_applicationVars
  BY DEF BackOfficeNext, backOfficeVars, applicationVars

\* ... the retention of events ...
LEMMA StepsRetention == [BackOfficeNext]_backOfficeVars => [RetentionNext]_retentionVars
  BY DEF BackOfficeNext, backOfficeVars, retentionVars

\* ... and the prices.
LEMMA StepsPrices == [BackOfficeNext]_backOfficeVars => [SpotNext]_spotVars
  BY DEF BackOfficeNext, backOfficeVars, spotVars

-----------------------------------------------------------------------------
(* Event retention.                                                        *)

\* The retention starts well typed.
LEMMA RetentionTypeInitially == RetentionInit => RetentionTypeOK
  BY RetentionAssumption DEF RetentionInit, RetentionTypeOK

\* A step of the retention keeps its types.
LEMMA RetentionTypeKept == RetentionTypeOK /\ [RetentionNext]_retentionVars => RetentionTypeOK'
  <1> SUFFICES ASSUME RetentionTypeOK, [RetentionNext]_retentionVars PROVE RetentionTypeOK'
    OBVIOUS
  <1> USE RetentionAssumption DEF RetentionTypeOK
  <1>1. CASE StartRetention BY <1>1 DEF StartRetention, Window
  <1>2. CASE DeleteOldEvents BY <1>2 DEF DeleteOldEvents
  <1>3. CASE RetentionStops BY <1>3 DEF RetentionStops
  <1>4. CASE WorkerStartsAtNight BY <1>4 DEF WorkerStartsAtNight
  <1>5. CASE NextDay BY <1>5 DEF NextDay
  <1>6. ASSUME NEW g \in Groups, AddRollup(g) PROVE RetentionTypeOK'
    <2>1. nightly \in [at : {"adding"}, todo : SUBSET Groups] BY <1>6 DEF AddRollup
    <2>2. nightly' = [nightly EXCEPT !.todo = @ \ {g}] BY <1>6 DEF AddRollup
    <2>3. nightly' \in [at : {"adding"}, todo : SUBSET Groups] BY <2>1, <2>2
    <2>4. QED BY <1>6, <2>3 DEF AddRollup
  <1>7. CASE UNCHANGED retentionVars BY <1>7 DEF retentionVars
  <1>8. QED BY <1>1, <1>2, <1>3, <1>4, <1>5, <1>6, <1>7 DEF RetentionNext

\* How old an event may be that is not in a rollup: it is younger than the window after a
\* complete pass, and at most a day older for every night since, the missed ones counted.
\* A pass that adds has the rest of them still to do.
UnrolledIsYoung ==
    /\ \A g \in Groups \ rolled : Age(g) <= RollupAge + missed + 1
    /\ nightly.at = "complete" => \A g \in Groups \ rolled : Age(g) <= RollupAge
    /\ nightly.at = "adding" =>
          \A g \in Groups \ rolled : g \notin nightly.todo => Age(g) <= RollupAge

RetentionInv == RetentionTypeOK /\ UnrolledIsYoung /\ DeletedWasRolledUp

\* The invariant of the retention holds at first.
LEMMA RetentionInvInitially == RetentionInit => RetentionInv
  <1> SUFFICES ASSUME RetentionInit PROVE RetentionInv
    OBVIOUS
  <1>1. RetentionTypeOK BY RetentionTypeInitially
  <1>2. UnrolledIsYoung BY RetentionAssumption DEF RetentionInit, UnrolledIsYoung, Age
  <1>3. DeletedWasRolledUp BY DEF RetentionInit, DeletedWasRolledUp
  <1>4. QED BY <1>1, <1>2, <1>3 DEF RetentionInv

\* Every step of the retention keeps the invariant.
LEMMA RetentionInvKept == RetentionInv /\ [RetentionNext]_retentionVars => RetentionInv'
  <1> SUFFICES ASSUME RetentionInv, [RetentionNext]_retentionVars PROVE RetentionInv'
    OBVIOUS
  <1>t. RetentionTypeOK /\ RetentionTypeOK' BY RetentionTypeKept DEF RetentionInv
  <1>g. /\ today \in Nat /\ missed \in Nat /\ missed <= MaxMissed
        /\ RollupAge \in Nat /\ DeleteAge \in Nat /\ MaxMissed \in Nat
        /\ RollupAge + MaxMissed < DeleteAge
        /\ \A g \in Groups : Age(g) \in Int
    BY <1>t, RetentionAssumption DEF RetentionTypeOK, Age
  <1>i. UnrolledIsYoung /\ DeletedWasRolledUp BY DEF RetentionInv
  <1>a. ASSUME UnrolledIsYoung', DeletedWasRolledUp' PROVE RetentionInv'
    BY <1>a, <1>t DEF RetentionInv
  <1>1. CASE StartRetention
    <2>1. UNCHANGED <<today, stored, rolled, missed>> /\ nightly' = [at |-> "adding", todo |-> Window]
      BY <1>1 DEF StartRetention
    <2>2. \A g \in Groups : Age(g)' = Age(g) BY <2>1 DEF Age
    <2>3. ASSUME NEW g \in Groups \ rolled, g \notin Window PROVE Age(g) <= RollupAge
      <3>1. g \in stored BY <1>i DEF DeletedWasRolledUp
      <3>2. Age(g) <= RollupAge + missed + 1 BY <1>i DEF UnrolledIsYoung
      <3>3. Age(g) <= DeleteAge BY <3>2, <1>g
      <3>4. ~(RollupAge < Age(g)) BY <2>3, <3>1, <3>3 DEF Window
      <3>5. QED BY <3>4, <1>g
    <2>4. UnrolledIsYoung' BY <1>i, <2>1, <2>2, <2>3 DEF UnrolledIsYoung
    <2>5. DeletedWasRolledUp' BY <1>i, <2>1 DEF DeletedWasRolledUp
    <2>6. QED BY <2>4, <2>5, <1>a
  <1>2. CASE DeleteOldEvents
    <2>1. /\ nightly.at = "adding" /\ nightly.todo = {} /\ nightly' = [at |-> "complete"]
          /\ stored' = {g \in stored : Age(g) < DeleteAge} /\ UNCHANGED <<today, rolled, missed>>
      BY <1>2 DEF DeleteOldEvents
    <2>2. \A g \in Groups : Age(g)' = Age(g) BY <2>1 DEF Age
    <2>3. \A g \in Groups \ rolled : Age(g) <= RollupAge BY <1>i, <2>1 DEF UnrolledIsYoung
    <2>4. UnrolledIsYoung' BY <1>i, <2>1, <2>2, <2>3 DEF UnrolledIsYoung
    <2>5. \A g \in Groups \ rolled : g \in stored' BY <1>i, <1>g, <2>1, <2>3 DEF DeletedWasRolledUp
    <2>6. DeletedWasRolledUp' BY <2>1, <2>5 DEF DeletedWasRolledUp
    <2>7. QED BY <2>4, <2>6, <1>a
  <1>3. CASE RetentionStops
    <2>1. UNCHANGED <<today, stored, rolled, missed>> /\ nightly' = [at |-> "stopped"]
      BY <1>3 DEF RetentionStops
    <2>2. UnrolledIsYoung' BY <1>i, <2>1 DEF UnrolledIsYoung, Age
    <2>3. DeletedWasRolledUp' BY <1>i, <2>1 DEF DeletedWasRolledUp
    <2>4. QED BY <2>2, <2>3, <1>a
  <1>4. CASE WorkerStartsAtNight
    <2>1. UNCHANGED <<today, stored, rolled, missed>> /\ nightly' = [at |-> "due"]
      BY <1>4 DEF WorkerStartsAtNight
    <2>2. UnrolledIsYoung' BY <1>i, <2>1 DEF UnrolledIsYoung, Age
    <2>3. DeletedWasRolledUp' BY <1>i, <2>1 DEF DeletedWasRolledUp
    <2>4. QED BY <2>2, <2>3, <1>a
  <1>5. CASE NextDay
    <2>1. /\ nightly.at # "adding" /\ today' = today + 1 /\ nightly' = [at |-> "due"]
          /\ missed' = IF nightly.at = "complete" THEN 0 ELSE missed + 1
          /\ UNCHANGED <<stored, rolled>>
      BY <1>5 DEF NextDay
    <2>2. \A g \in Groups : Age(g)' = Age(g) + 1 BY <1>g, <2>1 DEF Age
    <2>3. ASSUME NEW g \in Groups \ rolled PROVE Age(g)' <= RollupAge + missed' + 1
      <3>1. CASE nightly.at = "complete"
        <4>1. Age(g) <= RollupAge /\ missed' = 0 BY <1>i, <2>1, <3>1 DEF UnrolledIsYoung
        <4>2. QED BY <4>1, <2>2, <1>g
      <3>2. CASE nightly.at # "complete"
        <4>1. Age(g) <= RollupAge + missed + 1 /\ missed' = missed + 1
          BY <1>i, <2>1, <3>2 DEF UnrolledIsYoung
        <4>2. QED BY <4>1, <2>2, <1>g
      <3>3. QED BY <3>1, <3>2
    <2>4. UnrolledIsYoung' BY <2>1, <2>3 DEF UnrolledIsYoung
    <2>5. DeletedWasRolledUp' BY <1>i, <2>1 DEF DeletedWasRolledUp
    <2>6. QED BY <2>4, <2>5, <1>a
  <1>6. ASSUME NEW g \in Groups, AddRollup(g) PROVE RetentionInv'
    <2>1. /\ nightly.at = "adding" /\ rolled' = rolled \cup {g} /\ UNCHANGED <<today, stored, missed>>
          /\ nightly' = [nightly EXCEPT !.todo = @ \ {g}]
      BY <1>6 DEF AddRollup
    <2>2. nightly \in [at : {"adding"}, todo : SUBSET Groups] BY <2>1, <1>t DEF RetentionTypeOK
    <2>3. nightly'.at = "adding" /\ nightly'.todo = nightly.todo \ {g} BY <2>1, <2>2
    <2>4. \A h \in Groups : Age(h)' = Age(h) BY <2>1 DEF Age
    <2>5. UnrolledIsYoung' BY <1>i, <2>1, <2>3, <2>4 DEF UnrolledIsYoung
    <2>6. DeletedWasRolledUp' BY <1>i, <2>1 DEF DeletedWasRolledUp
    <2>7. QED BY <2>5, <2>6, <1>a
  <1>7. CASE UNCHANGED retentionVars
    <2>1. UNCHANGED <<today, stored, rolled, nightly, missed>> BY <1>7 DEF retentionVars
    <2>2. UnrolledIsYoung' BY <1>i, <2>1 DEF UnrolledIsYoung, Age
    <2>3. DeletedWasRolledUp' BY <1>i, <2>1 DEF DeletedWasRolledUp
    <2>4. QED BY <2>2, <2>3, <1>a
  <1>8. QED BY <1>1, <1>2, <1>3, <1>4, <1>5, <1>6, <1>7 DEF RetentionNext

\* No event is deleted before it is in a rollup, for any window longer than the nights in
\* a row without a complete pass, any number of days, and passes that stop anywhere.
THEOREM DeletedEventsAreRolledUp == RetentionSpec => []DeletedWasRolledUp
  <1>1. RetentionInit => RetentionInv BY RetentionInvInitially
  <1>2. RetentionInv /\ [RetentionNext]_retentionVars => RetentionInv' BY RetentionInvKept
  <1>3. RetentionInv => DeletedWasRolledUp BY DEF RetentionInv
  <1>4. QED BY <1>1, <1>2, <1>3, PTL DEF RetentionSpec

\* ... and in the composition, which the run checks.
THEOREM DeletedEventsAreRolledUpInBackOffice == BackOfficeSpec => []DeletedWasRolledUp
  <1>1. BackOfficeInit => RetentionInv BY BackOfficeStarts, RetentionInvInitially
  <1>2. RetentionInv /\ [BackOfficeNext]_backOfficeVars => RetentionInv'
    BY StepsRetention, RetentionInvKept
  <1>3. RetentionInv => DeletedWasRolledUp BY DEF RetentionInv
  <1>4. QED BY <1>1, <1>2, <1>3, PTL DEF BackOfficeSpec

-----------------------------------------------------------------------------
(* Webhooks.                                                               *)

\* The webhooks start well typed.
LEMMA WebhookTypeInitially == WebhookInit => WebhookTypeOK
  BY WebhookAssumption DEF WebhookInit, WebhookTypeOK, DeliveryStates

DeliveryRow == [status : DeliveryStates, attempts : 0 .. MaxAttempts]

\* A row written for one event leaves a well-typed table.
LEMMA RowWritten ==
  ASSUME WebhookTypeOK, NEW d \in Deliveries, NEW status \in DeliveryStates, NEW n \in 0 .. MaxAttempts
  PROVE  [delivery EXCEPT ![d] = Row(status, n)] \in [Deliveries -> DeliveryRow]
  BY DEF WebhookTypeOK, Row, DeliveryRow

\* The counter of failures and the state they put the endpoint in are well typed.
LEMMA FailureCounted ==
  ASSUME WebhookTypeOK, NEW n \in Nat
  PROVE  Counted(n) \in 0 .. MaxFailures /\ Disabled(n) \in {"none", "enabled", "disabled", "gone"}
  BY WebhookAssumption DEF WebhookTypeOK, Counted, Disabled

WebhookInv == WebhookTypeOK /\ DeliveredWasAccepted

\* The invariant of the webhooks holds at first.
LEMMA WebhookInvInitially == WebhookInit => WebhookInv
  BY WebhookTypeInitially DEF WebhookInit, WebhookInv, DeliveredWasAccepted

\* A step writes one event's row, or none; when it writes DELIVERED the endpoint has
\* accepted the event.
LEMMA OneRowKeeps ==
  ASSUME DeliveredWasAccepted, WebhookTypeOK, accepted \subseteq accepted',
         \/ delivery' = delivery
         \/ \E d \in Deliveries, status \in DeliveryStates, n \in 0 .. MaxAttempts :
              /\ delivery' = [delivery EXCEPT ![d] = Row(status, n)]
              /\ status = "DELIVERED" => d \in accepted'
  PROVE  DeliveredWasAccepted' /\ delivery' \in [Deliveries -> DeliveryRow]
  <1>1. CASE delivery' = delivery
    BY <1>1 DEF DeliveredWasAccepted, WebhookTypeOK, DeliveryRow
  <1>2. ASSUME NEW d \in Deliveries, NEW status \in DeliveryStates, NEW n \in 0 .. MaxAttempts,
               delivery' = [delivery EXCEPT ![d] = Row(status, n)],
               status = "DELIVERED" => d \in accepted'
        PROVE  DeliveredWasAccepted' /\ delivery' \in [Deliveries -> DeliveryRow]
    <2>1. delivery' \in [Deliveries -> DeliveryRow] BY <1>2, RowWritten
    <2>2. delivery'[d].status = status /\ \A e \in Deliveries \ {d} : delivery'[e] = delivery[e]
      BY <1>2 DEF WebhookTypeOK, Row
    <2>3. DeliveredWasAccepted' BY <1>2, <2>2 DEF DeliveredWasAccepted
    <2>4. QED BY <2>1, <2>3
  <1>3. QED BY <1>1, <1>2

\* Every step of the webhooks keeps the invariant.
LEMMA WebhookInvKept == WebhookInv /\ [WebhookNext]_webhookVars => WebhookInv'
  <1> SUFFICES ASSUME WebhookInv, [WebhookNext]_webhookVars PROVE WebhookInv'
    OBVIOUS
  <1> USE WebhookAssumption DEF DeliveryStates
  <1>t. WebhookTypeOK /\ DeliveredWasAccepted BY DEF WebhookInv
  <1>a. ASSUME DeliveredWasAccepted', delivery' \in [Deliveries -> DeliveryRow],
               endpoint' \in {"none", "enabled", "disabled", "gone"}, failures' \in 0 .. MaxFailures,
               inline' \in [Deliveries -> SUBSET (0 .. MaxFailures)], copy' \in [Senders -> SUBSET Copies],
               accepted' \subseteq Deliveries, changes' \in 0 .. MaxChanges
        PROVE  WebhookInv'
    BY <1>a DEF WebhookInv, WebhookTypeOK, DeliveryRow
  <1>c. \A s \in Senders : \A c \in copy[s] :
          c.event \in Deliveries /\ c.attempts \in 0 .. MaxAttempts
    BY <1>t DEF WebhookTypeOK, Copies
  <1>e. \A s \in Senders : copy' = [copy EXCEPT ![s] = {}] => copy' \in [Senders -> SUBSET Copies]
    BY <1>t DEF WebhookTypeOK
  <1>n. \A d \in Deliveries : inline' = [inline EXCEPT ![d] = {}]
          => inline' \in [Deliveries -> SUBSET (0 .. MaxFailures)]
    BY <1>t DEF WebhookTypeOK
  <1>f. \A d \in Deliveries : delivery[d].attempts \in 0 .. MaxAttempts BY <1>t DEF WebhookTypeOK
  <1>w. ASSUME NEW d \in Deliveries, NEW status \in DeliveryStates, NEW n \in 0 .. MaxAttempts,
               accepted \subseteq accepted', status # "DELIVERED",
               delivery' = delivery \/ delivery' = [delivery EXCEPT ![d] = Row(status, n)]
        PROVE  DeliveredWasAccepted' /\ delivery' \in [Deliveries -> DeliveryRow]
    BY <1>w, <1>t, OneRowKeeps
  <1>z. 0 \in 0 .. MaxAttempts /\ 1 \in 0 .. MaxAttempts
    OBVIOUS
  <1>1. CASE CreateEndpoint
    BY <1>1, <1>t DEF CreateEndpoint, WebhookInv, WebhookTypeOK, DeliveredWasAccepted
  <1>2. CASE SetEnabled
    <2>1. WebhookTypeOK' BY <1>2, <1>t DEF SetEnabled, Change, WebhookTypeOK
    <2>2. DeliveredWasAccepted' BY <1>2, <1>t DEF SetEnabled, Change, DeliveredWasAccepted
    <2>3. QED BY <2>1, <2>2 DEF WebhookInv
  <1>3. CASE DeleteEndpoint
    <2>1. WebhookTypeOK' BY <1>3, <1>t DEF DeleteEndpoint, Change, WebhookTypeOK, Row
    <2>2. DeliveredWasAccepted' BY <1>3 DEF DeleteEndpoint, DeliveredWasAccepted, Row
    <2>3. QED BY <2>1, <2>2 DEF WebhookInv
  <1>4. ASSUME NEW d \in Deliveries, QueueDelivery(d) PROVE WebhookInv'
    <2>1. DeliveredWasAccepted' /\ delivery' \in [Deliveries -> DeliveryRow]
      BY <1>4, <1>w, <1>z DEF QueueDelivery
    <2>2. QED BY <1>4, <1>t, <2>1, <1>a DEF QueueDelivery, WebhookTypeOK
  <1>5. ASSUME NEW d \in Deliveries, TestDelivery(d) PROVE WebhookInv'
    <2>1. DeliveredWasAccepted' /\ delivery' \in [Deliveries -> DeliveryRow]
      BY <1>5, <1>w, <1>z DEF TestDelivery
    <2>2. QED BY <1>5, <1>t, <2>1, <1>a DEF TestDelivery, WebhookTypeOK
  <1>6. ASSUME NEW d \in Deliveries, InlineDelivered(d) PROVE WebhookInv'
    <2>1. accepted' = accepted \cup {d} BY <1>6 DEF InlineDelivered
    <2>2. \/ delivery' = delivery
          \/ \E n \in 1 .. 3 : delivery' = [delivery EXCEPT ![d] = Row("DELIVERED", n)]
      BY <1>6 DEF InlineDelivered
    <2>3. DeliveredWasAccepted' /\ delivery' \in [Deliveries -> DeliveryRow]
      BY <2>1, <2>2, <1>t, OneRowKeeps
    <2>4. QED BY <1>6, <1>t, <1>n, <2>1, <2>3, <1>a DEF InlineDelivered, InlineEnds, WebhookTypeOK
  <1>7. ASSUME NEW d \in Deliveries, InlineFailed(d) PROVE WebhookInv'
    <2>1. delivery' = delivery \/ delivery' = [delivery EXCEPT ![d] = Row("FAILED", 3)]
      BY <1>7 DEF InlineFailed
    <2>2. DeliveredWasAccepted' /\ delivery' \in [Deliveries -> DeliveryRow]
      BY <1>7, <2>1, <1>t, OneRowKeeps DEF InlineFailed
    <2>3. \A n \in inline[d] : n + 1 \in Nat BY <1>t DEF WebhookTypeOK
    <2>4. failures' \in 0 .. MaxFailures /\ endpoint' \in {"none", "enabled", "disabled", "gone"}
      BY <1>7, <2>3, <1>t, FailureCounted DEF InlineFailed, WebhookTypeOK
    <2>5. QED BY <1>7, <1>t, <1>n, <2>2, <2>4, <1>a DEF InlineFailed, InlineEnds, WebhookTypeOK
  <1>8. ASSUME NEW d \in Deliveries, InlineBlocked(d) PROVE WebhookInv'
    <2>1. delivery' = delivery \/ delivery' = [delivery EXCEPT ![d] = Row("FAILED", 1)]
      BY <1>8 DEF InlineBlocked
    <2>2. DeliveredWasAccepted' /\ delivery' \in [Deliveries -> DeliveryRow]
      BY <1>8, <2>1, <1>w, <1>z DEF InlineBlocked
    <2>3. QED BY <1>8, <1>t, <1>n, <2>2, <1>a DEF InlineBlocked, InlineEnds, WebhookTypeOK
  <1>9. ASSUME NEW d \in Deliveries, InlineLost(d) PROVE WebhookInv'
    <2>1. DeliveredWasAccepted' /\ delivery' \in [Deliveries -> DeliveryRow]
      BY <1>9, <1>t, OneRowKeeps DEF InlineLost
    <2>2. QED BY <1>9, <1>t, <1>n, <2>1, <1>a DEF InlineLost, InlineEnds, WebhookTypeOK
  <1>10. ASSUME NEW s \in Senders, Reject(s) PROVE WebhookInv'
    <2>1. PICK c \in copy[s] : \/ delivery' = delivery
                               \/ delivery' = [delivery EXCEPT ![c.event] =
                                                 Row("FAILED", delivery[c.event].attempts)]
      BY <1>10 DEF Reject
    <2>2. DeliveredWasAccepted' /\ delivery' \in [Deliveries -> DeliveryRow]
      BY <1>10, <2>1, <1>t, <1>c, <1>f, OneRowKeeps DEF Reject
    <2>3. QED BY <1>10, <1>t, <1>e, <2>2, <1>a DEF Reject, Sent, WebhookTypeOK
  <1>11. ASSUME NEW s \in Senders, Deliver(s) PROVE WebhookInv'
    <2>1. PICK c \in copy[s] :
            /\ accepted' = accepted \cup {c.event}
            /\ \/ delivery' = delivery
               \/ delivery' = [delivery EXCEPT ![c.event] =
                                 Row("DELIVERED", IF c.attempts < MaxAttempts THEN c.attempts + 1
                                                  ELSE MaxAttempts)]
      BY <1>11 DEF Deliver
    <2>2. (IF c.attempts < MaxAttempts THEN c.attempts + 1 ELSE MaxAttempts) \in 0 .. MaxAttempts
      BY <1>c
    <2>3. DeliveredWasAccepted' /\ delivery' \in [Deliveries -> DeliveryRow]
      BY <2>1, <2>2, <1>t, <1>c, OneRowKeeps
    <2>4. accepted' \subseteq Deliveries BY <2>1, <1>c, <1>t DEF WebhookTypeOK
    <2>5. QED BY <1>11, <1>t, <1>e, <2>3, <2>4, <1>a DEF Deliver, Sent, WebhookTypeOK
  <1>12. ASSUME NEW s \in Senders, FailDelivery(s) PROVE WebhookInv'
    <2>1. PICK c \in copy[s] :
            IF ~There THEN UNCHANGED <<delivery, endpoint, failures>>
            ELSE IF c.attempts + 1 < MaxAttempts
            THEN /\ delivery' = [delivery EXCEPT ![c.event] = Row("PENDING", c.attempts + 1)]
                 /\ UNCHANGED <<endpoint, failures>>
            ELSE /\ delivery' = [delivery EXCEPT ![c.event] = Row("FAILED", MaxAttempts)]
                 /\ failures' = Counted(failures + 1)
                 /\ endpoint' = Disabled(failures + 1)
      BY <1>12 DEF FailDelivery
    <2>2. \/ delivery' = delivery
          \/ c.attempts + 1 \in 0 .. MaxAttempts
             /\ delivery' = [delivery EXCEPT ![c.event] = Row("PENDING", c.attempts + 1)]
          \/ delivery' = [delivery EXCEPT ![c.event] = Row("FAILED", MaxAttempts)]
      BY <2>1, <1>c
    <2>3. MaxAttempts \in 0 .. MaxAttempts /\ c.event \in Deliveries BY <1>c
    <2>4. DeliveredWasAccepted' /\ delivery' \in [Deliveries -> DeliveryRow]
      BY <1>12, <2>2, <2>3, <1>t, OneRowKeeps DEF FailDelivery
    <2>5. failures + 1 \in Nat BY <1>t DEF WebhookTypeOK
    <2>6. failures' \in 0 .. MaxFailures /\ endpoint' \in {"none", "enabled", "disabled", "gone"}
      BY <2>1, <2>5, <1>t, FailureCounted DEF WebhookTypeOK
    <2>7. QED BY <1>12, <1>t, <1>e, <2>4, <2>6, <1>a DEF FailDelivery, Sent, WebhookTypeOK
  <1>13. ASSUME NEW s \in Senders, SenderStops(s) PROVE WebhookInv'
    <2>1. PICK c \in copy[s] : accepted' \in {accepted, accepted \cup {c.event}}
      BY <1>13 DEF SenderStops
    <2>2. accepted \subseteq accepted' /\ accepted' \subseteq Deliveries
      BY <2>1, <1>c, <1>t DEF WebhookTypeOK
    <2>3. DeliveredWasAccepted' /\ delivery' \in [Deliveries -> DeliveryRow]
      BY <1>13, <2>2, <1>t, OneRowKeeps DEF SenderStops
    <2>4. QED BY <1>13, <1>t, <1>e, <2>2, <2>3, <1>a DEF SenderStops, WebhookTypeOK
  <1>14. ASSUME NEW s \in Senders, NEW d \in Deliveries, TakeDelivery(s, d) PROVE WebhookInv'
    <2>1. [event |-> d, attempts |-> delivery[d].attempts, enabled |-> endpoint = "enabled"] \in Copies
      BY <1>f DEF Copies
    <2>2. copy' \in [Senders -> SUBSET Copies] BY <1>14, <2>1, <1>t DEF TakeDelivery, WebhookTypeOK
    <2>3. DeliveredWasAccepted' /\ delivery' \in [Deliveries -> DeliveryRow]
      BY <1>14, <1>t, OneRowKeeps DEF TakeDelivery
    <2>4. QED BY <1>14, <1>t, <2>2, <2>3, <1>a DEF TakeDelivery, WebhookTypeOK
  <1>15. CASE UNCHANGED webhookVars
    BY <1>15, <1>t DEF webhookVars, WebhookInv, WebhookTypeOK, DeliveredWasAccepted
  <1>16. QED
    BY <1>1, <1>2, <1>3, <1>4, <1>5, <1>6, <1>7, <1>8, <1>9, <1>10, <1>11, <1>12, <1>13, <1>14, <1>15
    DEF WebhookNext, Inline, Attempt

\* A delivery shown as DELIVERED was accepted by the endpoint, for any number of events,
\* of passes that overlap, of attempts and of changes to the endpoint.
THEOREM DeliveredIsAccepted == WebhookSpec => []DeliveredWasAccepted
  <1>1. WebhookInit => WebhookInv BY WebhookInvInitially
  <1>2. WebhookInv /\ [WebhookNext]_webhookVars => WebhookInv' BY WebhookInvKept
  <1>3. WebhookInv => DeliveredWasAccepted BY DEF WebhookInv
  <1>4. QED BY <1>1, <1>2, <1>3, PTL DEF WebhookSpec

\* ... and in the composition, which the run checks.
THEOREM DeliveredIsAcceptedInBackOffice == BackOfficeSpec => []DeliveredWasAccepted
  <1>1. BackOfficeInit => WebhookInv BY BackOfficeStarts, WebhookInvInitially
  <1>2. WebhookInv /\ [BackOfficeNext]_backOfficeVars => WebhookInv' BY StepsWebhooks, WebhookInvKept
  <1>3. WebhookInv => DeliveredWasAccepted BY DEF WebhookInv
  <1>4. QED BY <1>1, <1>2, <1>3, PTL DEF BackOfficeSpec

-----------------------------------------------------------------------------
(* Applications.                                                           *)

\* The applications start well typed.
LEMMA ApplicationTypeInitially == ApplicationInit => ApplicationTypeOK
  BY ApplicationAssumption DEF ApplicationInit, ApplicationTypeOK

Deciding == {"read", "fresh", "allow"}

\* Until the sign-up has opened an application, nobody decides on one.
UndecidedBefore ==
    \A c \in Customers : signup[c] \in {"none", "user"} =>
        /\ decision[c] = "none"
        /\ \A r \in Reviews : review[r].at \in Deciding => review[r].of # c

ApplicationInv == ApplicationTypeOK /\ UndecidedBefore /\ DecisionIsTold

\* The invariant of the applications holds at first.
LEMMA ApplicationInvInitially == ApplicationInit => ApplicationInv
  BY ApplicationTypeInitially
  DEF ApplicationInit, ApplicationInv, UndecidedBefore, DecisionIsTold, Verdicts, Deciding

ReviewUnderWay ==
    [at : {"read", "fresh", "allow", "allowAccount"}, of : Customers, verdict : Verdicts]

\* A review that is under way says whom it is about, and its verdict.
LEMMA ReviewIsOf ==
  ASSUME ApplicationTypeOK, NEW r \in Reviews, review[r].at \in Deciding \cup {"allowAccount"}
  PROVE  review[r] \in ReviewUnderWay
  BY DEF ApplicationTypeOK, Deciding, ReviewUnderWay

\* A review that ends, or writes nothing, leaves well-typed reviews.
LEMMA ReviewEnds ==
  ASSUME ApplicationTypeOK, NEW r \in Reviews, review' = [review EXCEPT ![r] = [at |-> "done"]]
  PROVE  /\ review' \in [Reviews -> [at : {"idle", "done"}] \cup ReviewUnderWay]
         /\ \A q \in Reviews : review'[q].at \in Deciding => review'[q] = review[q]
  BY DEF ApplicationTypeOK, Deciding, ReviewUnderWay

\* A decision keeps the invariant: account, application and mail change together.
LEMMA DecideKeeps ==
  ASSUME ApplicationInv, NEW r \in Reviews, NEW c \in Customers, NEW v \in Verdicts,
         signup[c] \notin {"none", "user"}, Decide(r, c, v)
  PROVE  ApplicationInv'
  <1>t. ApplicationTypeOK /\ UndecidedBefore /\ DecisionIsTold BY DEF ApplicationInv
  <1>1. /\ review' \in [Reviews -> [at : {"idle", "done"}] \cup ReviewUnderWay]
        /\ \A q \in Reviews : review'[q].at \in Deciding => review'[q] = review[q]
    BY <1>t, ReviewEnds DEF Decide
  <1>2. /\ access' \in [Customers -> {"none", "PENDING_REVIEW", "APPROVED", "REJECTED", "SUSPENDED"}]
        /\ decision' \in [Customers -> {"none", "open"} \cup Verdicts]
        /\ mails' \subseteq Customers \X ({"IN_REVIEW"} \cup Verdicts)
        /\ UNCHANGED <<signup, suspensions>>
    BY <1>t DEF Decide, ApplicationTypeOK, Verdicts
  <1>3. ApplicationTypeOK' BY <1>t, <1>1, <1>2 DEF ApplicationTypeOK, ReviewUnderWay
  <1>4. /\ access'[c] = v /\ decision'[c] = v /\ <<c, v>> \in mails' /\ mails \subseteq mails'
        /\ \A d \in Customers \ {c} : access'[d] = access[d] /\ decision'[d] = decision[d]
    BY <1>t DEF Decide, ApplicationTypeOK
  <1>5. UndecidedBefore' BY <1>t, <1>1, <1>2, <1>4 DEF UndecidedBefore
  <1>6. DecisionIsTold' BY <1>t, <1>4 DEF DecisionIsTold
  <1>7. QED BY <1>3, <1>5, <1>6 DEF ApplicationInv

\* A step that changes no review and no decision, and refuses nobody.
LEMMA UndecidedKeeps ==
  ASSUME ApplicationInv, ApplicationTypeOK', UNCHANGED <<decision, review>>, mails \subseteq mails',
         \A c \in Customers : access'[c] = "REJECTED" => access[c] = "REJECTED",
         \A c \in Customers : signup'[c] \in {"none", "user"} => signup[c] \in {"none", "user"}
  PROVE  ApplicationInv'
  <1>1. UndecidedBefore' BY DEF ApplicationInv, UndecidedBefore
  <1>2. DecisionIsTold' BY DEF ApplicationInv, DecisionIsTold
  <1>3. QED BY <1>1, <1>2 DEF ApplicationInv

\* Every step of the applications keeps the invariant.
LEMMA ApplicationInvKept == ApplicationInv /\ [ApplicationNext]_applicationVars => ApplicationInv'
  <1> SUFFICES ASSUME ApplicationInv, [ApplicationNext]_applicationVars PROVE ApplicationInv'
    OBVIOUS
  <1> USE ApplicationAssumption
  <1>t. ApplicationTypeOK /\ UndecidedBefore /\ DecisionIsTold BY DEF ApplicationInv
  <1>1. ASSUME NEW c \in Customers, CreateCustomer(c) PROVE ApplicationInv'
    <2>1. ApplicationTypeOK' BY <1>1, <1>t DEF CreateCustomer, ApplicationTypeOK
    <2>2. \A d \in Customers : /\ access'[d] = "REJECTED" => access[d] = "REJECTED"
                               /\ signup'[d] \in {"none", "user"} => signup[d] \in {"none", "user"}
      BY <1>1, <1>t DEF CreateCustomer, ApplicationTypeOK
    <2>3. QED BY <1>1, <2>1, <2>2, UndecidedKeeps DEF CreateCustomer
  <1>2. ASSUME NEW c \in Customers, CreateApplication(c) PROVE ApplicationInv'
    <2>1. ApplicationTypeOK' BY <1>2, <1>t DEF CreateApplication, ApplicationTypeOK
    <2>2. /\ signup'[c] = "application" /\ decision'[c] = "open" /\ decision[c] = "none"
          /\ \A d \in Customers \ {c} : signup'[d] = signup[d] /\ decision'[d] = decision[d]
          /\ UNCHANGED <<access, mails, review>>
      BY <1>2, <1>t DEF CreateApplication, ApplicationTypeOK, UndecidedBefore
    <2>3. UndecidedBefore' BY <1>t, <2>2 DEF UndecidedBefore
    <2>4. DecisionIsTold' BY <1>t, <2>2 DEF DecisionIsTold, Verdicts
    <2>5. QED BY <2>1, <2>3, <2>4 DEF ApplicationInv
  <1>3. ASSUME NEW c \in Customers, QueueReceived(c) PROVE ApplicationInv'
    <2>1. ApplicationTypeOK' BY <1>3, <1>t DEF QueueReceived, ApplicationTypeOK
    <2>2. \A d \in Customers : signup'[d] \in {"none", "user"} => signup[d] \in {"none", "user"}
      BY <1>3, <1>t DEF QueueReceived, ApplicationTypeOK
    <2>3. QED BY <1>3, <2>1, <2>2, UndecidedKeeps DEF QueueReceived
  <1>4. ASSUME NEW c \in Customers, SignupStops(c) PROVE ApplicationInv'
    <2>1. ApplicationTypeOK' BY <1>4, <1>t DEF SignupStops, ApplicationTypeOK
    <2>2. \A d \in Customers : signup'[d] \in {"none", "user"} => signup[d] \in {"none", "user"}
      BY <1>4, <1>t DEF SignupStops, ApplicationTypeOK
    <2>3. QED BY <1>4, <2>1, <2>2, UndecidedKeeps DEF SignupStops
  <1>5. ASSUME NEW c \in Customers, ResendReceived(c) PROVE ApplicationInv'
    <2>1. ApplicationTypeOK' BY <1>5, <1>t DEF ResendReceived, ApplicationTypeOK
    <2>2. QED BY <1>5, <2>1, UndecidedKeeps DEF ResendReceived
  <1>6. ASSUME NEW c \in Customers, Suspend(c) PROVE ApplicationInv'
    <2>1. ApplicationTypeOK' BY <1>6, <1>t DEF Suspend, ApplicationTypeOK
    <2>2. \A d \in Customers : access'[d] = "REJECTED" => access[d] = "REJECTED"
      BY <1>6, <1>t DEF Suspend, ApplicationTypeOK
    <2>3. QED BY <1>6, <2>1, <2>2, UndecidedKeeps DEF Suspend
  <1>7. ASSUME NEW c \in Customers, Unsuspend(c) PROVE ApplicationInv'
    <2>1. ApplicationTypeOK' BY <1>7, <1>t DEF Unsuspend, ApplicationTypeOK
    <2>2. \A d \in Customers : access'[d] = "REJECTED" => access[d] = "REJECTED"
      BY <1>7, <1>t DEF Unsuspend, ApplicationTypeOK
    <2>3. QED BY <1>7, <2>1, <2>2, UndecidedKeeps DEF Unsuspend
  <1>8. ASSUME NEW r \in Reviews, NEW c \in Customers, NEW v \in Verdicts, ReadApplication(r, c, v)
        PROVE  ApplicationInv'
    <2>1. [at |-> "read", of |-> c, verdict |-> v] \in ReviewUnderWay BY DEF ReviewUnderWay
    <2>2. ApplicationTypeOK'
      BY <1>8, <1>t, <2>1 DEF ReadApplication, ApplicationTypeOK, ReviewUnderWay
    <2>3. signup[c] \notin {"none", "user"} BY <1>8, <1>t DEF ReadApplication, UndecidedBefore
    <2>4. review'[r].of = c /\ \A q \in Reviews \ {r} : review'[q] = review[q]
      BY <1>8, <1>t DEF ReadApplication, ApplicationTypeOK
    <2>5. UndecidedBefore' BY <1>8, <1>t, <2>3, <2>4 DEF ReadApplication, UndecidedBefore
    <2>6. DecisionIsTold' BY <1>8, <1>t DEF ReadApplication, DecisionIsTold
    <2>7. QED BY <2>2, <2>5, <2>6 DEF ApplicationInv
  <1>9. ASSUME NEW r \in Reviews, NEW c \in Customers, ReadAllow(r, c) PROVE ApplicationInv'
    <2> DEFINE at == IF decision[c] = "open" THEN "allow" ELSE "allowAccount"
    <2>1. [at |-> at, of |-> c, verdict |-> "APPROVED"] \in ReviewUnderWay
      BY DEF ReviewUnderWay, Verdicts
    <2>2. at \in Deciding => signup[c] \notin {"none", "user"}
      BY <1>t DEF UndecidedBefore, Deciding
    <2>3. review' = [review EXCEPT ![r] = [at |-> at, of |-> c, verdict |-> "APPROVED"]]
          /\ UNCHANGED <<access, decision, mails, signup, suspensions>>
      BY <1>9 DEF ReadAllow
    <2> HIDE DEF at
    <2>4. ApplicationTypeOK' BY <1>t, <2>1, <2>3 DEF ApplicationTypeOK, ReviewUnderWay
    <2>5. review'[r].of = c /\ review'[r].at = at /\ \A q \in Reviews \ {r} : review'[q] = review[q]
      BY <1>t, <2>3 DEF ApplicationTypeOK
    <2>6. UndecidedBefore' BY <1>t, <2>2, <2>3, <2>5 DEF UndecidedBefore
    <2>7. DecisionIsTold' BY <1>t, <2>3 DEF DecisionIsTold
    <2>8. QED BY <2>4, <2>6, <2>7 DEF ApplicationInv
  <1>10. ASSUME NEW r \in Reviews, RecheckApplication(r) PROVE ApplicationInv'
    <2>1. review[r].at = "read" /\ review[r] \in ReviewUnderWay
      BY <1>10, <1>t, ReviewIsOf DEF RecheckApplication, Deciding
    <2> DEFINE again == [review[r] EXCEPT !.at = "fresh"]
    <2>2. again \in ReviewUnderWay /\ again.of = review[r].of BY <2>1 DEF ReviewUnderWay
    <2>3. \/ review' = [review EXCEPT ![r] = again]
          \/ review' = [review EXCEPT ![r] = [at |-> "done"]]
      BY <1>10 DEF RecheckApplication
    <2> HIDE DEF again
    <2>4. UNCHANGED <<access, decision, mails, signup, suspensions>>
      BY <1>10 DEF RecheckApplication
    <2>5. review' \in [Reviews -> [at : {"idle", "done"}] \cup ReviewUnderWay]
      BY <1>t, <2>2, <2>3 DEF ApplicationTypeOK, ReviewUnderWay
    <2>6. ApplicationTypeOK' BY <1>t, <2>4, <2>5 DEF ApplicationTypeOK, ReviewUnderWay
    <2>7. \A q \in Reviews : review'[q].at \in Deciding =>
            review[q].at \in Deciding /\ review'[q].of = review[q].of
      BY <1>t, <2>1, <2>2, <2>3 DEF ApplicationTypeOK, Deciding
    <2>8. UndecidedBefore' BY <1>t, <2>4, <2>7 DEF UndecidedBefore
    <2>9. DecisionIsTold' BY <1>t, <2>4 DEF DecisionIsTold
    <2>10. QED BY <2>6, <2>8, <2>9 DEF ApplicationInv
  <1>11. ASSUME NEW r \in Reviews, CommitReview(r) PROVE ApplicationInv'
    <2>1. review[r] \in ReviewUnderWay BY <1>11, <1>t, ReviewIsOf DEF CommitReview, Deciding
    <2>2. review[r].of \in Customers /\ review[r].verdict \in Verdicts
      BY <2>1 DEF ReviewUnderWay
    <2>3. signup[review[r].of] \notin {"none", "user"}
      BY <1>11, <1>t, <2>2 DEF CommitReview, UndecidedBefore, Deciding
    <2>4. QED BY <1>11, <2>2, <2>3, DecideKeeps DEF CommitReview
  <1>12. ASSUME NEW r \in Reviews, CommitAllow(r) PROVE ApplicationInv'
    <2>1. review[r] \in ReviewUnderWay BY <1>12, <1>t, ReviewIsOf DEF CommitAllow, Deciding
    <2>2. review[r].of \in Customers /\ "APPROVED" \in Verdicts
      BY <2>1 DEF ReviewUnderWay, Verdicts
    <2>3. signup[review[r].of] \notin {"none", "user"}
      BY <1>12, <1>t, <2>2 DEF CommitAllow, UndecidedBefore, Deciding
    <2>4. QED BY <1>12, <2>2, <2>3, DecideKeeps DEF CommitAllow
  <1>13. ASSUME NEW r \in Reviews, CommitAllowAccount(r) PROVE ApplicationInv'
    <2>1. review[r] \in ReviewUnderWay BY <1>13, <1>t, ReviewIsOf DEF CommitAllowAccount
    <2>2. review[r].of \in Customers BY <2>1 DEF ReviewUnderWay
    <2>3. /\ review' \in [Reviews -> [at : {"idle", "done"}] \cup ReviewUnderWay]
          /\ \A q \in Reviews : review'[q].at \in Deciding => review'[q] = review[q]
      BY <1>13, <1>t, ReviewEnds DEF CommitAllowAccount
    <2>4. access' = [access EXCEPT ![review[r].of] = "APPROVED"]
          /\ UNCHANGED <<decision, mails, signup, suspensions>>
      BY <1>13 DEF CommitAllowAccount
    <2>5. ApplicationTypeOK' BY <1>t, <2>2, <2>3, <2>4 DEF ApplicationTypeOK, ReviewUnderWay
    <2>6. UndecidedBefore' BY <1>t, <2>3, <2>4 DEF UndecidedBefore
    <2>7. DecisionIsTold' BY <1>t, <2>2, <2>4 DEF DecisionIsTold, ApplicationTypeOK
    <2>8. QED BY <2>5, <2>6, <2>7 DEF ApplicationInv
  <1>14. CASE UNCHANGED applicationVars
    BY <1>14, <1>t
    DEF applicationVars, ApplicationInv, ApplicationTypeOK, UndecidedBefore, DecisionIsTold
  <1>15. QED
    BY <1>1, <1>2, <1>3, <1>4, <1>5, <1>6, <1>7, <1>8, <1>9, <1>10, <1>11, <1>12, <1>13, <1>14
    DEF ApplicationNext

\* A refused account has an application that says so, and a decided application its mail,
\* for any number of customers and of reviews that pass the same check together.
THEOREM DecisionsAreTold == ApplicationSpec => []DecisionIsTold
  <1>1. ApplicationInit => ApplicationInv BY ApplicationInvInitially
  <1>2. ApplicationInv /\ [ApplicationNext]_applicationVars => ApplicationInv' BY ApplicationInvKept
  <1>3. ApplicationInv => DecisionIsTold BY DEF ApplicationInv
  <1>4. QED BY <1>1, <1>2, <1>3, PTL DEF ApplicationSpec

\* ... and in the composition, which the run checks.
THEOREM DecisionsAreToldInBackOffice == BackOfficeSpec => []DecisionIsTold
  <1>1. BackOfficeInit => ApplicationInv BY BackOfficeStarts, ApplicationInvInitially
  <1>2. ApplicationInv /\ [BackOfficeNext]_backOfficeVars => ApplicationInv'
    BY StepsApplications, ApplicationInvKept
  <1>3. ApplicationInv => DecisionIsTold BY DEF ApplicationInv
  <1>4. QED BY <1>1, <1>2, <1>3, PTL DEF BackOfficeSpec

-----------------------------------------------------------------------------
(* Prices: the formula.                                                    *)

\* Rounding to the nearest keeps whole bounds ...
LEMMA RoundedAtLeast ==
  ASSUME NEW n \in Nat, NEW d \in Nat \ {0}, NEW b \in Nat, b * d <= n
  PROVE  b <= Rounded(n, d)
  BY Z3 DEF Rounded

LEMMA RoundedAtMost ==
  ASSUME NEW n \in Nat, NEW d \in Nat \ {0}, NEW b \in Nat, n <= b * d
  PROVE  Rounded(n, d) <= b
  BY Z3 DEF Rounded

\* ... and the order.
LEMMA RoundedMonotone ==
  ASSUME NEW m \in Nat, NEW n \in Nat, NEW d \in Nat \ {0}, m <= n
  PROVE  Rounded(m, d) <= Rounded(n, d)
  BY Z3 DEF Rounded

\* Rounding a quotient of naturals gives a natural.
LEMMA RoundedIsNat ==
  ASSUME NEW n \in Nat, NEW d \in Nat \ {0}
  PROVE  Rounded(n, d) \in Nat
  BY Z3 DEF Rounded

\* The idle discount leaves a share of the price.
LEMMA PercentIsShare ==
  ASSUME NEW ago \in Idleness
  PROVE  Percent(ago) \in 0 .. 100
  BY DEF Percent, Idleness, Never, Lately

\* The surge factor of a pool that is less than half free, over twice the goal: it
\* falls with the free stock, from three halves, and is never below one.
LEMMA SurgeFactor ==
  ASSUME NEW goal \in Nat, NEW s \in Nat, NEW t \in Nat, s <= t, 2 * t < goal
  PROVE  /\ 3 * goal - 2 * s \in Nat /\ 3 * goal - 2 * t \in Nat
         /\ 2 * goal <= 3 * goal - 2 * t
         /\ 3 * goal - 2 * t <= 3 * goal - 2 * s
  OBVIOUS

\* The raw price is a natural, at least the base price while the pool is not full and at
\* most the base price when it is half free.
LEMMA RawCentsBounds ==
  ASSUME NEW goal \in Nat, NEW ago \in Idleness, NEW s \in Nat
  PROVE  /\ RawCents(s, goal, ago) \in Nat
         /\ goal # 0 /\ s < goal => BasePrice <= RawCents(s, goal, ago)
         /\ goal = 0 \/ goal <= 2 * s => RawCents(s, goal, ago) <= BasePrice
  <1>b. BasePrice \in Nat BY PriceAssumption
  <1>1. CASE goal = 0 \/ s >= goal
    <2>1. RawCents(s, goal, ago) = Rounded(BasePrice * Percent(ago), 100)
      BY <1>1 DEF RawCents
    <2>2. Percent(ago) \in Nat /\ Percent(ago) <= 100 BY PercentIsShare
    <2>3. BasePrice * Percent(ago) \in Nat /\ BasePrice * Percent(ago) <= BasePrice * 100
      BY <1>b, <2>2, Z3
    <2>4. Rounded(BasePrice * Percent(ago), 100) \in Nat
          /\ Rounded(BasePrice * Percent(ago), 100) <= BasePrice
      BY <1>b, <2>3, RoundedIsNat, RoundedAtMost
    <2>5. QED BY <1>1, <2>1, <2>4
  <1>2. CASE goal # 0 /\ s < goal /\ 2 * s < goal
    <2>1. RawCents(s, goal, ago) = Rounded(BasePrice * (3 * goal - 2 * s), 2 * goal)
      BY <1>2 DEF RawCents
    <2>2. 3 * goal - 2 * s \in Nat /\ 2 * goal <= 3 * goal - 2 * s /\ 2 * goal \in Nat \ {0}
      BY <1>2
    <2>3. BasePrice * (3 * goal - 2 * s) \in Nat
          /\ BasePrice * (2 * goal) <= BasePrice * (3 * goal - 2 * s)
      BY <1>b, <2>2, Z3
    <2>4. Rounded(BasePrice * (3 * goal - 2 * s), 2 * goal) \in Nat
          /\ BasePrice <= Rounded(BasePrice * (3 * goal - 2 * s), 2 * goal)
      BY <1>b, <2>2, <2>3, RoundedIsNat, RoundedAtLeast
    <2>5. QED BY <1>2, <2>1, <2>4
  <1>3. CASE goal # 0 /\ s < goal /\ ~(2 * s < goal)
    BY <1>3, <1>b DEF RawCents
  <1>4. QED BY <1>1, <1>2, <1>3

\* The raw price falls as the free stock grows.
LEMMA RawCentsMonotone ==
  ASSUME NEW goal \in Nat, NEW ago \in Idleness, NEW s \in Nat, NEW t \in Nat, s <= t
  PROVE  RawCents(t, goal, ago) <= RawCents(s, goal, ago)
  <1>b. BasePrice \in Nat BY PriceAssumption
  <1>1. CASE goal = 0 \/ s >= goal
    <2>1. RawCents(t, goal, ago) = RawCents(s, goal, ago) BY <1>1 DEF RawCents
    <2>2. QED BY <2>1, RawCentsBounds
  <1>2. CASE goal # 0 /\ s < goal /\ goal <= 2 * t
    <2>1. RawCents(t, goal, ago) <= BasePrice /\ RawCents(t, goal, ago) \in Nat
      BY <1>2, RawCentsBounds
    <2>2. BasePrice <= RawCents(s, goal, ago) /\ RawCents(s, goal, ago) \in Nat
      BY <1>2, RawCentsBounds
    <2>3. QED BY <1>b, <2>1, <2>2
  <1>3. CASE goal # 0 /\ s < goal /\ 2 * t < goal
    <2>1. /\ RawCents(t, goal, ago) = Rounded(BasePrice * (3 * goal - 2 * t), 2 * goal)
          /\ RawCents(s, goal, ago) = Rounded(BasePrice * (3 * goal - 2 * s), 2 * goal)
      BY <1>3 DEF RawCents
    <2>2. 3 * goal - 2 * s \in Nat /\ 3 * goal - 2 * t \in Nat /\ 3 * goal - 2 * t <= 3 * goal - 2 * s
          /\ 2 * goal \in Nat \ {0}
      BY <1>3, SurgeFactor
    <2>3. BasePrice * (3 * goal - 2 * t) \in Nat /\ BasePrice * (3 * goal - 2 * s) \in Nat
          /\ BasePrice * (3 * goal - 2 * t) <= BasePrice * (3 * goal - 2 * s)
      BY <1>b, <2>2, Z3
    <2>4. QED BY <2>1, <2>2, <2>3, RoundedMonotone
  <1>4. QED BY <1>1, <1>2, <1>3

\* A pool with more of its target free is never dearer, and a price keeps within the
\* floor and the ceiling, for every base price, target and stock.
THEOREM SpotPricesSound == SpotPriceSound
  <1> SUFFICES ASSUME NEW goal \in 0 .. MaxTarget, NEW ago \in Idleness,
                      NEW s \in 0 .. MaxStock, NEW t \in 0 .. MaxStock
               PROVE  /\ Floor <= SpotCents(s, goal, ago) /\ SpotCents(s, goal, ago) <= Ceiling
                      /\ s <= t => SpotCents(t, goal, ago) <= SpotCents(s, goal, ago)
    BY DEF SpotPriceSound
  <1>1. goal \in Nat /\ s \in Nat /\ t \in Nat /\ Ceiling \in Nat /\ 40 <= Ceiling
    BY PriceAssumption
  <1>2. RawCents(s, goal, ago) \in Nat /\ RawCents(t, goal, ago) \in Nat
    BY <1>1, RawCentsBounds
  <1>3. s <= t => RawCents(t, goal, ago) <= RawCents(s, goal, ago)
    BY <1>1, RawCentsMonotone
  <1>4. QED BY <1>1, <1>2, <1>3 DEF SpotCents, Least, Floor

-----------------------------------------------------------------------------
(* Prices: the launches.                                                   *)

\* A price within the bounds is a natural.
LEMMA SpotCentsIsNat ==
  ASSUME NEW goal \in Nat, NEW ago \in Idleness, NEW s \in Nat
  PROVE  SpotCents(s, goal, ago) \in Nat
  <1>1. RawCents(s, goal, ago) \in Nat BY RawCentsBounds
  <1>2. QED BY <1>1, PriceAssumption DEF SpotCents, Least, Floor

\* The prices start well typed.
LEMMA SpotTypeInitially == SpotInit => SpotTypeOK
  BY PriceAssumption DEF SpotInit, SpotTypeOK, Idleness, Never, Least

\* A step of the prices keeps their types.
LEMMA SpotTypeKept == SpotTypeOK /\ [SpotNext]_spotVars => SpotTypeOK'
  <1> SUFFICES ASSUME SpotTypeOK, [SpotNext]_spotVars PROVE SpotTypeOK'
    OBVIOUS
  <1> USE PriceAssumption
  <1>t. SpotTypeOK OBVIOUS
  <1>1. CASE ListConfigs BY <1>1, <1>t DEF ListConfigs, SpotTypeOK
  <1>2. ASSUME NEW r \in Regions, PriceRegion(r) PROVE SpotTypeOK'
    <2>1. PICK stock \in 0 .. MaxStock :
            price' = [price EXCEPT ![r] = SpotCents(stock, pricing.target[r], pricing.ago[r])]
      BY <1>2 DEF PriceRegion
    <2>2. pricing.target[r] \in Nat /\ pricing.ago[r] \in Idleness /\ stock \in Nat
      BY <1>t DEF SpotTypeOK
    <2>3. SpotCents(stock, pricing.target[r], pricing.ago[r]) \in Nat BY <2>2, SpotCentsIsNat
    <2>4. price' \in [Regions -> Nat] BY <2>1, <2>3, <1>t DEF SpotTypeOK
    <2>5. pricing' \in [todo : SUBSET Regions, ago : [Regions -> Idleness],
                        target : [Regions -> 0 .. MaxTarget]]
      BY <1>2, <1>t DEF PriceRegion, SpotTypeOK
    <2>6. QED BY <1>2, <2>4, <2>5, <1>t DEF PriceRegion, SpotTypeOK
  <1>3. ASSUME NEW r \in Regions, TimeWithoutRental(r) PROVE SpotTypeOK'
    BY <1>3, <1>t DEF TimeWithoutRental, SpotTypeOK, Idleness, Lately, Never
  <1>4. ASSUME NEW r \in Regions, UpdateWarmPool(r) PROVE SpotTypeOK'
    BY <1>4, <1>t DEF UpdateWarmPool, SpotTypeOK
  <1>5. ASSUME NEW w \in Rentals, NEW path \in {"cold", "warm"}, ReadPrice(w, path) PROVE SpotTypeOK'
    BY <1>5, <1>t DEF ReadPrice, SpotTypeOK, Idleness
  <1>6. ASSUME NEW w \in Rentals, rental[w].at \in {"cold", "warm", "booting"},
               NEW at \in {"booting", "running"}, rental' = [rental EXCEPT ![w].at = at],
               UNCHANGED <<price, rentedAgo, target, pricing>>
        PROVE  SpotTypeOK'
    <2>1. rental[w] \in [at : {"cold", "warm", "booting", "running"}, cents : Nat]
      BY <1>6, <1>t DEF SpotTypeOK
    <2>2. [rental[w] EXCEPT !.at = at] \in [at : {"cold", "warm", "booting", "running"}, cents : Nat]
      BY <2>1
    <2>3. rental' \in [Rentals -> [at : {"none"}] \cup
                                  [at : {"cold", "warm", "booting", "running"}, cents : Nat]]
      BY <1>6, <2>2, <1>t DEF SpotTypeOK
    <2>4. QED BY <1>6, <2>3, <1>t DEF SpotTypeOK
  <1>7. ASSUME NEW w \in Rentals, CreateColdWorkspace(w) PROVE SpotTypeOK'
    BY <1>6, <1>7 DEF CreateColdWorkspace
  <1>8. ASSUME NEW w \in Rentals, StartColdSession(w) PROVE SpotTypeOK'
    BY <1>6, <1>8 DEF StartColdSession
  <1>9. ASSUME NEW w \in Rentals, StartWarmSession(w) PROVE SpotTypeOK'
    BY <1>6, <1>9 DEF StartWarmSession
  <1>10. ASSUME NEW w \in Rentals, EndRental(w) PROVE SpotTypeOK'
    BY <1>10, <1>t DEF EndRental, SpotTypeOK
  <1>11. CASE UNCHANGED spotVars BY <1>11, <1>t DEF spotVars, SpotTypeOK
  <1>12. QED BY <1>1, <1>2, <1>3, <1>4, <1>5, <1>7, <1>8, <1>9, <1>10, <1>11 DEF SpotNext

\* What a step may not do to a rental.
KeptStep ==
    \A w \in Rentals :
        rental[w].at # "none" /\ rental'[w].at # "none" => rental'[w].cents = rental[w].cents

\* No step between the read of a price and the end of its rental changes the cents.
LEMMA PriceKeptByStep == SpotTypeOK /\ [SpotNext]_spotVars => KeptStep
  <1> SUFFICES ASSUME SpotTypeOK, [SpotNext]_spotVars, NEW v \in Rentals,
                      rental[v].at # "none", rental'[v].at # "none"
               PROVE  rental'[v].cents = rental[v].cents
    BY DEF KeptStep
  <1>t. rental \in [Rentals -> [at : {"none"}] \cup
                               [at : {"cold", "warm", "booting", "running"}, cents : Nat]]
    BY DEF SpotTypeOK
  <1>1. CASE UNCHANGED rental BY <1>1
  <1>2. ASSUME NEW w \in Rentals, NEW path \in {"cold", "warm"}, ReadPrice(w, path)
        PROVE  rental'[v].cents = rental[v].cents
    BY <1>2, <1>t DEF ReadPrice
  <1>3. ASSUME NEW w \in Rentals, NEW at, rental' = [rental EXCEPT ![w].at = at]
        PROVE  rental'[v].cents = rental[v].cents
    BY <1>3, <1>t
  <1>4. ASSUME NEW w \in Rentals, EndRental(w) PROVE rental'[v].cents = rental[v].cents
    BY <1>4, <1>t DEF EndRental
  <1>5. QED
    BY <1>1, <1>2, <1>3, <1>4
    DEF SpotNext, spotVars, ListConfigs, PriceRegion, TimeWithoutRental, UpdateWarmPool,
        CreateColdWorkspace, StartColdSession, StartWarmSession

\* The price a launch read is the price its session is billed at, for any number of
\* regions and rentals and any interleaving with the passes that change the price.
THEOREM PricesAreKept == SpotSpec => PriceReadIsKept
  <1>1. SpotInit => SpotTypeOK BY SpotTypeInitially
  <1>2. SpotTypeOK /\ [SpotNext]_spotVars => SpotTypeOK' BY SpotTypeKept
  <1>3. SpotTypeOK /\ [SpotNext]_spotVars => [KeptStep]_spotVars BY PriceKeptByStep
  <1>4. [][KeptStep]_spotVars => PriceReadIsKept BY PTL DEF PriceReadIsKept, KeptStep
  <1>5. QED BY <1>1, <1>2, <1>3, <1>4, PTL DEF SpotSpec

\* ... and in the composition, which the run checks.
THEOREM PricesAreKeptInBackOffice == BackOfficeSpec => PriceReadIsKept
  <1>1. BackOfficeInit => SpotTypeOK BY BackOfficeStarts, SpotTypeInitially
  <1>2. SpotTypeOK /\ [BackOfficeNext]_backOfficeVars => SpotTypeOK' BY StepsPrices, SpotTypeKept
  <1>3. SpotTypeOK /\ [BackOfficeNext]_backOfficeVars => [KeptStep]_spotVars
    BY StepsPrices, PriceKeptByStep
  <1>4. [][KeptStep]_spotVars => PriceReadIsKept BY PTL DEF PriceReadIsKept, KeptStep
  <1>5. QED BY <1>1, <1>2, <1>3, <1>4, PTL DEF BackOfficeSpec
-----------------------------------------------------------------------------
(* Mails and budgets: types.                                               *)

\* A step of the composition is a step of the mails, or not their business ...
LEMMA StepsMails == [BackOfficeNext]_backOfficeVars => [EmailNext]_emailVars
  BY DEF BackOfficeNext, backOfficeVars, emailVars

\* ... and so for the budgets.
LEMMA StepsBudgets == [BackOfficeNext]_backOfficeVars => [BudgetNext]_budgetVars
  BY DEF BackOfficeNext, backOfficeVars, budgetVars

\* The mails start well typed.
LEMMA EmailTypeInitially == EmailInit => EmailTypeOK
  BY EmailAssumption DEF EmailInit, EmailTypeOK, EmailStates

Listed == [at : {"listed"}, row : Emails, tries : 0 .. MaxTries]
Sending == [at : {"sending"}, row : Emails, tries : 0 .. MaxTries]

\* What a pass that is not idle has in hand.
LEMMA MailInHand ==
  ASSUME EmailTypeOK, NEW m \in Mailers, mailer[m].at # "idle"
  PROVE  /\ mailer[m].row \in Emails
         /\ [mailer[m] EXCEPT !.at = "sending"] \in Sending
  <1>1. mailer[m] \in [at : {"listed", "sending"}, row : Emails, tries : 0 .. MaxTries]
    BY DEF EmailTypeOK
  <1>2. QED BY <1>1 DEF Sending

\* Writing one row, or dropping what a pass has in hand, keeps the types.
LEMMA OutcomeType ==
  ASSUME EmailTypeOK, NEW m \in Mailers, NEW status \in EmailStates, Outcome(m, status)
  PROVE  EmailTypeOK'
  <1>1. mailer[m].row \in Emails BY MailInHand DEF Outcome
  <1>2. email' \in [Emails -> [status : EmailStates, tries : Nat]]
    BY <1>1 DEF Outcome, EmailTypeOK
  <1>3. QED BY <1>2 DEF Outcome, EmailTypeOK

\* A step of the mails keeps their types.
LEMMA EmailTypeKept == EmailTypeOK /\ [EmailNext]_emailVars => EmailTypeOK'
  <1> SUFFICES ASSUME EmailTypeOK, [EmailNext]_emailVars PROVE EmailTypeOK'
    OBVIOUS
  <1>1. ASSUME NEW e \in Emails, QueueEmail(e) PROVE EmailTypeOK'
    BY <1>1 DEF QueueEmail, EmailTypeOK, EmailStates
  <1>2. ASSUME NEW e \in Emails, RecoverEmail(e) PROVE EmailTypeOK'
    BY <1>2 DEF RecoverEmail, EmailTypeOK, EmailStates
  <1>3. ASSUME NEW m \in Mailers, NEW e \in Emails, ListEmail(m, e) PROVE EmailTypeOK'
    <2>1. email[e].tries \in 0 .. MaxTries BY <1>3, EmailAssumption DEF ListEmail, EmailTypeOK
    <2>2. [at |-> "listed", row |-> e, tries |-> email[e].tries]
             \in [at : {"listed", "sending"}, row : Emails, tries : 0 .. MaxTries]
      BY <2>1
    <2>3. QED BY <1>3, <2>2 DEF ListEmail, EmailTypeOK
  <1>4. ASSUME NEW m \in Mailers, ClaimEmail(m) PROVE EmailTypeOK'
    <2>1. mailer[m].row \in Emails /\ [mailer[m] EXCEPT !.at = "sending"] \in Sending
      BY <1>4, MailInHand DEF ClaimEmail
    <2>2. email' \in [Emails -> [status : EmailStates, tries : Nat]]
      BY <1>4, <2>1 DEF ClaimEmail, EmailTypeOK, EmailStates
    <2>3. [mailer[m] EXCEPT !.at = "sending"]
             \in [at : {"listed", "sending"}, row : Emails, tries : 0 .. MaxTries]
      BY <2>1 DEF Sending
    <2>4. QED BY <1>4, <2>2, <2>3 DEF ClaimEmail, EmailTypeOK
  <1>5. ASSUME NEW m \in Mailers, EmailSent(m) PROVE EmailTypeOK'
    BY <1>5, OutcomeType DEF EmailSent, EmailStates
  <1>6. ASSUME NEW m \in Mailers, EmailRefused(m) PROVE EmailTypeOK'
    BY <1>6, OutcomeType DEF EmailRefused, EmailStates
  <1>7. ASSUME NEW m \in Mailers, MailerStops(m) PROVE EmailTypeOK'
    BY <1>7, EmailAssumption DEF MailerStops, EmailTypeOK
  <1>8. CASE UNCHANGED emailVars BY <1>8 DEF emailVars, EmailTypeOK
  <1>9. QED
    BY <1>1, <1>2, <1>3, <1>4, <1>5, <1>6, <1>7, <1>8 DEF EmailNext, MailerStep

-----------------------------------------------------------------------------
(* Mails: attempts.                                                        *)

\* A pass has a number of attempts that the row has had as well, and one more once the
\* pass has claimed it, whatever others have done to the row since.
CopiesAreBehind ==
  \A m \in Mailers : mailer[m].at # "idle" =>
    /\ mailer[m].tries <= email[mailer[m].row].tries
    /\ mailer[m].at = "sending" => mailer[m].tries < email[mailer[m].row].tries

\* Passes that have listed an email and not yet claimed it.
AboutToClaim(e) == {m \in Mailers : mailer[m].at = "listed" /\ mailer[m].row = e}

\* An attempt yet to be counted is one of a pass that listed the email when it had some left.
ClaimsAreFew ==
  \A e \in Emails :
    email[e].tries + Cardinality(AboutToClaim(e)) < MaxTries + Cardinality(Mailers)

\* What a pass has in hand has a number of attempts.
LEMMA CopyHasTries ==
  ASSUME EmailTypeOK, NEW m \in Mailers, mailer[m].at # "idle"
  PROVE  mailer[m].row \in Emails /\ mailer[m].tries \in Nat
  <1>1. mailer[m] \in [at : {"listed", "sending"}, row : Emails, tries : 0 .. MaxTries]
    BY DEF EmailTypeOK
  <1>2. mailer[m].tries \in 0 .. MaxTries BY <1>1
  <1>3. QED BY <1>1, <1>2, EmailAssumption

\* Attempts are never uncounted.
LEMMA TriesGrow ==
  ASSUME EmailTypeOK, [EmailNext]_emailVars
  PROVE  \A e \in Emails : email'[e].tries >= email[e].tries
  <1>1. ASSUME NEW m \in Mailers, NEW status, Outcome(m, status)
        PROVE  \A e \in Emails : email'[e].tries >= email[e].tries
    BY <1>1 DEF Outcome, EmailTypeOK
  <1>2. ASSUME NEW m \in Mailers, ClaimEmail(m)
        PROVE  \A e \in Emails : email'[e].tries >= email[e].tries
    BY <1>2, MailInHand DEF ClaimEmail, EmailTypeOK
  <1>3. ASSUME email' = email PROVE \A e \in Emails : email'[e].tries >= email[e].tries
    BY <1>3 DEF EmailTypeOK
  <1>4. ASSUME NEW e \in Emails, QueueEmail(e) \/ RecoverEmail(e)
        PROVE  \A f \in Emails : email'[f].tries >= email[f].tries
    BY <1>4 DEF QueueEmail, RecoverEmail, EmailTypeOK
  <1>5. QED
    BY <1>1, <1>2, <1>3, <1>4 DEF EmailNext, MailerStep, EmailSent, EmailRefused, ListEmail,
       MailerStops, emailVars

\* The copies stay behind the rows.
LEMMA CopiesStayBehind ==
  EmailTypeOK /\ CopiesAreBehind /\ [EmailNext]_emailVars => CopiesAreBehind'
  <1> SUFFICES ASSUME EmailTypeOK, CopiesAreBehind, [EmailNext]_emailVars PROVE CopiesAreBehind'
    OBVIOUS
  <1>1. \A e \in Emails : email[e].tries \in Nat /\ email'[e].tries \in Nat
    BY EmailTypeKept DEF EmailTypeOK
  <1>2. \A m \in Mailers : mailer[m].at # "idle" =>
          mailer[m].row \in Emails /\ mailer[m].tries \in Nat
    BY CopyHasTries
  <1>3. ASSUME NEW m \in Mailers, mailer'[m] = mailer[m], mailer[m].at # "idle"
        PROVE  /\ mailer'[m].tries <= email'[mailer'[m].row].tries
               /\ mailer'[m].at = "sending" => mailer'[m].tries < email'[mailer'[m].row].tries
    BY <1>1, <1>2, <1>3, TriesGrow DEF CopiesAreBehind
  <1>4. ASSUME NEW m \in Mailers, NEW e \in Emails, ListEmail(m, e) PROVE CopiesAreBehind'
    <2>1. mailer'[m] = [at |-> "listed", row |-> e, tries |-> email[e].tries]
          /\ email' = email
          /\ \A n \in Mailers \ {m} : mailer'[n] = mailer[n]
      BY <1>4 DEF ListEmail, EmailTypeOK
    <2>2. QED BY <1>1, <1>3, <2>1 DEF CopiesAreBehind
  <1>5. ASSUME NEW m \in Mailers, ClaimEmail(m) PROVE CopiesAreBehind'
    <2>1. mailer[m].row \in Emails /\ mailer[m].at = "listed" /\ mailer[m].tries \in Nat
      BY <1>2, <1>5 DEF ClaimEmail
    <2>2. /\ mailer'[m].row = mailer[m].row /\ mailer'[m].tries = mailer[m].tries
          /\ \A n \in Mailers \ {m} : mailer'[n] = mailer[n]
      BY <1>5, MailInHand DEF ClaimEmail, EmailTypeOK, Sending
    <2>3. email'[mailer[m].row].tries = email[mailer[m].row].tries + 1
      BY <1>5, <2>1 DEF ClaimEmail, EmailTypeOK
    <2>4. QED BY <1>1, <1>3, <2>1, <2>2, <2>3 DEF CopiesAreBehind
  <1>6. ASSUME NEW m \in Mailers, mailer' = [mailer EXCEPT ![m] = [at |-> "idle"]]
        PROVE  CopiesAreBehind'
    <2>1. mailer'[m].at = "idle" /\ \A n \in Mailers \ {m} : mailer'[n] = mailer[n]
      BY <1>6 DEF EmailTypeOK
    <2>2. QED BY <1>3, <2>1 DEF CopiesAreBehind
  <1>7. ASSUME mailer' = mailer PROVE CopiesAreBehind'
    BY <1>3, <1>7 DEF CopiesAreBehind
  <1>8. QED
    BY <1>4, <1>5, <1>6, <1>7 DEF EmailNext, MailerStep, EmailSent, EmailRefused, Outcome,
       MailerStops, QueueEmail, RecoverEmail, emailVars

\* Only a pass at its last attempt writes FAILED, and the row has had all of them by then.
LEMMA GivenUpStaysTried ==
  EmailTypeOK /\ CopiesAreBehind /\ GivenUpWasTried /\ [EmailNext]_emailVars => GivenUpWasTried'
  <1> SUFFICES ASSUME EmailTypeOK, CopiesAreBehind, GivenUpWasTried, [EmailNext]_emailVars,
                      NEW e \in Emails, email'[e].status = "FAILED"
               PROVE  email'[e].tries >= MaxTries
    BY DEF GivenUpWasTried
  <1>1. email[e].tries \in Nat /\ email'[e].tries \in Nat /\ email'[e].tries >= email[e].tries
    BY EmailTypeKept, TriesGrow DEF EmailTypeOK
  <1>2. CASE email[e].status = "FAILED"
    BY <1>1, <1>2, EmailAssumption DEF GivenUpWasTried
  <1>3. CASE email[e].status # "FAILED"
    <2>1. PICK m \in Mailers : EmailRefused(m) /\ mailer[m].row = e
      <3>1. ASSUME NEW m \in Mailers, ClaimEmail(m) PROVE FALSE
        <4>1. mailer[m].row \in Emails BY <3>1, CopyHasTries DEF ClaimEmail
        <4>2. QED BY <1>3, <3>1, <4>1 DEF ClaimEmail, EmailTypeOK
      <3>2. ASSUME NEW m \in Mailers, NEW status \in EmailStates, Outcome(m, status)
            PROVE  mailer[m].row = e /\ status = "FAILED"
        <4>1. mailer[m].row \in Emails BY <3>2, CopyHasTries DEF Outcome
        <4>2. QED BY <1>3, <3>2, <4>1 DEF Outcome, EmailTypeOK
      <3>3. ASSUME NEW f \in Emails, QueueEmail(f) \/ RecoverEmail(f) PROVE FALSE
        BY <1>3, <3>3 DEF QueueEmail, RecoverEmail, EmailTypeOK
      <3>4. ASSUME email' = email PROVE FALSE BY <1>3, <3>4
      <3>5. ASSUME NEW m \in Mailers, EmailSent(m) PROVE FALSE
        BY <3>2, <3>5 DEF EmailSent, EmailStates
      <3>6. ASSUME NEW m \in Mailers, EmailRefused(m) PROVE mailer[m].row = e
        BY <3>2, <3>6 DEF EmailRefused, EmailStates
      <3>7. QED
        BY <3>1, <3>3, <3>4, <3>5, <3>6 DEF EmailNext, MailerStep, ListEmail, MailerStops, emailVars
    <2>2. mailer[m].tries \in Nat BY <2>1, CopyHasTries DEF EmailRefused
    <2>3. mailer[m].tries + 1 >= MaxTries
      <3>1. CASE ~(mailer[m].tries + 1 >= MaxTries)
        <4>1. mailer[m].row \in Emails /\ Outcome(m, "PENDING")
          BY <2>1, <3>1, CopyHasTries DEF EmailRefused
        <4>2. QED BY <2>1, <4>1 DEF Outcome, EmailTypeOK
      <3>2. QED BY <3>1
    <2>4. mailer[m].tries < email[e].tries BY <2>1 DEF EmailRefused, CopiesAreBehind
    <2>5. QED BY <1>1, <2>2, <2>3, <2>4, EmailAssumption
  <1>4. QED BY <1>2, <1>3

\* An email is listed only with attempts left, and then there are at most as many claims to
\* come as there are passes; a claim is one attempt more and one claim to come less.
LEMMA FewClaims ==
  EmailTypeOK /\ IsFiniteSet(Mailers) /\ ClaimsAreFew /\ [EmailNext]_emailVars => ClaimsAreFew'
  <1> SUFFICES ASSUME EmailTypeOK, IsFiniteSet(Mailers), ClaimsAreFew, [EmailNext]_emailVars
               PROVE  ClaimsAreFew'
    OBVIOUS
  <1>1. \A e \in Emails : /\ IsFiniteSet(AboutToClaim(e)) /\ Cardinality(AboutToClaim(e)) \in Nat
                          /\ IsFiniteSet(AboutToClaim(e)') /\ Cardinality(AboutToClaim(e)') \in Nat
    BY FS_Subset, FS_CardinalityType DEF AboutToClaim
  <1>2. \A e \in Emails : email[e].tries \in Nat /\ email'[e].tries \in Nat
    BY EmailTypeKept DEF EmailTypeOK
  <1>3. Cardinality(Mailers) \in Nat BY FS_CardinalityType
  <1>4. ASSUME NEW e \in Emails, email'[e].tries = email[e].tries,
               AboutToClaim(e)' \subseteq AboutToClaim(e)
        PROVE  email'[e].tries + Cardinality(AboutToClaim(e)') < MaxTries + Cardinality(Mailers)
    <2>1. Cardinality(AboutToClaim(e)') <= Cardinality(AboutToClaim(e)) BY <1>1, <1>4, FS_Subset
    <2>2. QED BY <1>1, <1>2, <1>3, <1>4, <2>1, EmailAssumption DEF ClaimsAreFew
  <1>5. ASSUME NEW m \in Mailers, NEW e \in Emails, ListEmail(m, e) PROVE ClaimsAreFew'
    <2>1. /\ mailer'[m] = [at |-> "listed", row |-> e, tries |-> email[e].tries]
          /\ \A n \in Mailers \ {m} : mailer'[n] = mailer[n]
          /\ email' = email /\ mailer[m].at = "idle"
      BY <1>5 DEF ListEmail, EmailTypeOK
    <2>2. \A f \in Emails \ {e} : AboutToClaim(f)' \subseteq AboutToClaim(f)
      BY <2>1 DEF AboutToClaim
    <2>3. Cardinality(AboutToClaim(e)') <= Cardinality(Mailers)
      BY FS_Subset DEF AboutToClaim
    <2>4. email[e].tries < MaxTries BY <1>5 DEF ListEmail
    <2>5. email'[e].tries + Cardinality(AboutToClaim(e)') < MaxTries + Cardinality(Mailers)
      BY <1>1, <1>2, <1>3, <2>1, <2>3, <2>4, EmailAssumption
    <2>6. QED BY <1>4, <2>1, <2>2, <2>5 DEF ClaimsAreFew
  <1>6. ASSUME NEW m \in Mailers, ClaimEmail(m) PROVE ClaimsAreFew'
    <2>1. PICK e \in Emails : mailer[m].row = e /\ mailer[m].at = "listed"
      BY <1>6, CopyHasTries DEF ClaimEmail
    <2>2. mailer'[m].at = "sending" /\ \A n \in Mailers \ {m} : mailer'[n] = mailer[n]
      BY <1>6, MailInHand DEF ClaimEmail, EmailTypeOK, Sending
    <2>3. /\ email'[e].tries = email[e].tries + 1
          /\ \A f \in Emails \ {e} : email'[f] = email[f]
      BY <1>6, <2>1 DEF ClaimEmail, EmailTypeOK
    <2>4. AboutToClaim(e)' = AboutToClaim(e) \ {m} /\ m \in AboutToClaim(e)
      BY <2>1, <2>2 DEF AboutToClaim
    <2>5. Cardinality(AboutToClaim(e)') = Cardinality(AboutToClaim(e)) - 1
      BY <1>1, <2>1, <2>4, FS_RemoveElement
    <2>6. email'[e].tries + Cardinality(AboutToClaim(e)') < MaxTries + Cardinality(Mailers)
      BY <1>1, <1>2, <1>3, <2>1, <2>3, <2>5, EmailAssumption DEF ClaimsAreFew
    <2>7. \A f \in Emails \ {e} : AboutToClaim(f)' \subseteq AboutToClaim(f)
      BY <2>2 DEF AboutToClaim
    <2>8. QED BY <1>4, <2>3, <2>6, <2>7 DEF ClaimsAreFew
  <1>7. ASSUME NEW m \in Mailers, mailer' = [mailer EXCEPT ![m] = [at |-> "idle"]],
               \A e \in Emails : email'[e].tries = email[e].tries
        PROVE  ClaimsAreFew'
    <2>1. mailer'[m].at = "idle" /\ \A n \in Mailers \ {m} : mailer'[n] = mailer[n]
      BY <1>7 DEF EmailTypeOK
    <2>2. \A e \in Emails : AboutToClaim(e)' \subseteq AboutToClaim(e)
      BY <2>1 DEF AboutToClaim
    <2>3. QED BY <1>4, <1>7, <2>2 DEF ClaimsAreFew
  <1>8. ASSUME mailer' = mailer, \A e \in Emails : email'[e].tries = email[e].tries
        PROVE  ClaimsAreFew'
    <2>1. \A e \in Emails : AboutToClaim(e)' \subseteq AboutToClaim(e) BY <1>8 DEF AboutToClaim
    <2>2. QED BY <1>4, <1>8, <2>1 DEF ClaimsAreFew
  <1>9. ASSUME NEW m \in Mailers, NEW status, Outcome(m, status) PROVE ClaimsAreFew'
    <2>1. \A e \in Emails : email'[e].tries = email[e].tries
      <3>1. mailer[m].row \in Emails BY <1>9, CopyHasTries DEF Outcome
      <3>2. QED BY <1>9, <3>1 DEF Outcome, EmailTypeOK
    <2>2. QED BY <1>7, <1>9, <2>1 DEF Outcome
  <1>10. ASSUME NEW e \in Emails, QueueEmail(e) \/ RecoverEmail(e) PROVE ClaimsAreFew'
    <2>1. mailer' = mailer /\ \A f \in Emails : email'[f].tries = email[f].tries
      BY <1>10 DEF QueueEmail, RecoverEmail, EmailTypeOK
    <2>2. QED BY <1>8, <2>1
  <1>11. QED
    BY <1>5, <1>6, <1>7, <1>8, <1>9, <1>10 DEF EmailNext, MailerStep, EmailSent, EmailRefused,
       MailerStops, emailVars

\* A mail that was given up has had all its attempts, for any number of passes that overlap
\* and die at any step, though the pass that gives it up goes by an old copy.
THEOREM GivenUpMeansTried == EmailSpec => []GivenUpWasTried
  <1>1. EmailInit => EmailTypeOK /\ CopiesAreBehind /\ GivenUpWasTried
    BY EmailTypeInitially DEF EmailInit, CopiesAreBehind, GivenUpWasTried
  <1>2. EmailTypeOK /\ CopiesAreBehind /\ GivenUpWasTried /\ [EmailNext]_emailVars
          => (EmailTypeOK /\ CopiesAreBehind /\ GivenUpWasTried)'
    BY EmailTypeKept, CopiesStayBehind, GivenUpStaysTried
  <1>3. QED BY <1>1, <1>2, PTL DEF EmailSpec

\* MAX_ATTEMPTS is exceeded by as many attempts as there are further passes at most, for
\* any finite number of passes that overlap.
THEOREM AttemptsAreBounded ==
  ASSUME IsFiniteSet(Mailers)
  PROVE  EmailSpec => []AttemptsBounded
  <1>1. EmailInit => EmailTypeOK /\ ClaimsAreFew
    <2>1. EmailInit => \A e \in Emails : AboutToClaim(e) = {} /\ email[e].tries = 0
      BY DEF EmailInit, AboutToClaim
    <2>2. Cardinality(Mailers) \in Nat /\ Cardinality({}) = 0
      BY FS_CardinalityType, FS_EmptySet
    <2>3. EmailInit => ClaimsAreFew
      BY <2>1, <2>2, EmailAssumption DEF ClaimsAreFew
    <2>4. QED BY <2>3, EmailTypeInitially
  <1>2. EmailTypeOK /\ ClaimsAreFew /\ [EmailNext]_emailVars => (EmailTypeOK /\ ClaimsAreFew)'
    BY EmailTypeKept, FewClaims
  <1>3. EmailTypeOK /\ ClaimsAreFew => AttemptsBounded
    <2> SUFFICES ASSUME EmailTypeOK, ClaimsAreFew, NEW e \in Emails
                 PROVE  email[e].tries < MaxTries + Cardinality(Mailers)
      BY DEF AttemptsBounded
    <2>1. Cardinality(AboutToClaim(e)) \in Nat /\ Cardinality(Mailers) \in Nat
      BY FS_Subset, FS_CardinalityType DEF AboutToClaim
    <2>2. email[e].tries \in Nat BY DEF EmailTypeOK
    <2>3. QED BY <2>1, <2>2, EmailAssumption DEF ClaimsAreFew
  <1>4. QED BY <1>1, <1>2, <1>3, PTL DEF EmailSpec

\* The budgets start well typed.
LEMMA BudgetTypeInitially == BudgetInit => BudgetTypeOK
  BY BudgetAssumption DEF BudgetInit, BudgetTypeOK, Accounts, Levels, Idle

Checking == [at : {"check"}, acct : Accounts, auto : BOOLEAN, cooled : BOOLEAN]
Warning == [at : {"warn"}, acct : Accounts, level : {"warn", "over"}]
Stopping == [at : {"stop"}, acct : Accounts, todo : SUBSET Offices]
Marking == [at : {"mark"}, acct : Accounts]
Turn == {Idle, [at |-> "orgs"]} \cup Checking \cup Warning \cup Stopping \cup Marking

\* Where a pass is says what it has in hand.
LEMMA TurnInHand ==
  ASSUME BudgetTypeOK, NEW p \in BudgetPasses
  PROVE  /\ pass[p] \in Turn
         /\ pass[p].at = "check" => pass[p] \in Checking
         /\ pass[p].at = "warn" => pass[p] \in Warning
         /\ pass[p].at = "stop" => pass[p] \in Stopping
         /\ pass[p].at = "mark" => pass[p] \in Marking
  <1>1. pass[p] \in Turn BY DEF BudgetTypeOK, Turn, Checking, Warning, Stopping, Marking
  <1>2. QED BY <1>1 DEF Turn, Checking, Warning, Stopping, Marking, Idle

\* A pass that goes on, with everything else well typed.
LEMMA TurnType ==
  ASSUME BudgetTypeOK, NEW p \in BudgetPasses, NEW turn \in Turn,
         pass' = [pass EXCEPT ![p] = turn]
  PROVE  pass' \in [BudgetPasses -> Turn]
  BY DEF BudgetTypeOK, Turn, Checking, Warning, Stopping, Marking

\* After an account comes the next half of the pass, or its end.
LEMMA AfterAccountType == ASSUME NEW p PROVE AfterAccount(p) \in Turn
  BY DEF AfterAccount, Turn

\* A step of the budgets keeps their types.
LEMMA BudgetTypeKept == BudgetTypeOK /\ [BudgetNext]_budgetVars => BudgetTypeOK'
  <1> SUFFICES ASSUME BudgetTypeOK, [BudgetNext]_budgetVars PROVE BudgetTypeOK'
    OBVIOUS
  <1> DEFINE Budget == [level : Levels, auto : BOOLEAN, cooled : BOOLEAN]
  <1>a. ASSUME pass' \in [BudgetPasses -> Turn],
               UNCHANGED <<warned, office, moves, launches, budgetDeaths>>,
               budget' \in [Accounts -> Budget]
        PROVE  BudgetTypeOK'
    BY <1>a DEF BudgetTypeOK, Turn, Checking, Warning, Stopping, Marking
  <1>b. budget \in [Accounts -> Budget] BY DEF BudgetTypeOK
  <1>1. ASSUME NEW a \in Accounts, MoveBudget(a) PROVE BudgetTypeOK'
    BY <1>1, BudgetAssumption DEF MoveBudget, BudgetTypeOK
  <1>2. ASSUME NEW a \in Accounts, CooldownEnds(a) PROVE BudgetTypeOK'
    BY <1>2 DEF CooldownEnds, BudgetTypeOK
  <1>3. ASSUME NEW o \in Offices, LaunchOffice(o) PROVE BudgetTypeOK'
    BY <1>3, BudgetAssumption DEF LaunchOffice, BudgetTypeOK
  <1>4. ASSUME NEW o \in Offices, CloseOffice(o) PROVE BudgetTypeOK'
    BY <1>4 DEF CloseOffice, BudgetTypeOK
  <1>5. ASSUME NEW p \in BudgetPasses, ListAccounts(p) PROVE BudgetTypeOK'
    <2>1. \A a \in Accounts :
             [at |-> "check", acct |-> a, auto |-> budget[a].auto, cooled |-> budget[a].cooled]
                \in Turn
      BY DEF BudgetTypeOK, Turn, Checking
    <2>2. "user" \in Accounts /\ "org" \in Accounts BY DEF Accounts
    <2>3. QED BY <1>5, <1>a, <1>b, <2>1, <2>2, TurnType DEF ListAccounts
  <1>6. ASSUME NEW p \in BudgetPasses, CheckBudget(p) PROVE BudgetTypeOK'
    <2> DEFINE a == pass[p].acct
               active == {o \in OfficesOf(a) : office[o] = "active"}
    <2>1. a \in Accounts /\ budget[a].level \in Levels
      BY <1>6, TurnInHand DEF CheckBudget, Checking, BudgetTypeOK
    <2>2. active \in SUBSET Offices BY BudgetAssumption DEF OfficesOf
    <2>3. [at |-> "stop", acct |-> a, todo |-> active] \in Turn
      BY <2>1, <2>2 DEF Turn, Stopping
    <2>4. budget[a].level # "ok" => [at |-> "warn", acct |-> a, level |-> budget[a].level] \in Turn
      BY <2>1 DEF Turn, Warning, Levels
    <2>5. AfterAccount(p) \in Turn BY AfterAccountType
    <2> HIDE DEF active
    <2>6. PICK turn \in Turn : pass' = [pass EXCEPT ![p] = turn]
      <3>1. CASE pass' = [pass EXCEPT ![p] = IF active = {} THEN AfterAccount(p)
                             ELSE [at |-> "stop", acct |-> a, todo |-> active]]
        BY <3>1, <2>3, <2>5
      <3>2. CASE pass' = [pass EXCEPT ![p] =
                   IF budget[a].level # "ok" /\ ~pass[p].cooled
                   THEN [at |-> "warn", acct |-> a, level |-> budget[a].level]
                   ELSE AfterAccount(p)]
        BY <3>2, <2>4, <2>5
      <3>3. QED BY <1>6, <3>1, <3>2 DEF CheckBudget, active
    <2>7. QED BY <1>6, <1>a, <1>b, <2>6, TurnType DEF CheckBudget
  <1>7. ASSUME NEW p \in BudgetPasses, NEW o \in Offices, StopOffice(p, o) PROVE BudgetTypeOK'
    <2>1. pass[p] \in Stopping BY <1>7, TurnInHand DEF StopOffice
    <2>2. [at |-> "mark", acct |-> pass[p].acct] \in Turn
      BY <2>1 DEF Turn, Marking, Stopping
    <2>3. [pass[p] EXCEPT !.todo = @ \ {o}] \in Turn
      BY <2>1 DEF Turn, Stopping
    <2>4. pass' \in [BudgetPasses -> Turn]
      BY <1>7, <2>2, <2>3, TurnType DEF StopOffice
    <2>5. QED
      BY <1>7, <2>4 DEF StopOffice, BudgetTypeOK, Turn, Checking, Warning, Stopping, Marking
  <1>8. ASSUME NEW p \in BudgetPasses, QueueWarning(p) PROVE BudgetTypeOK'
    <2>1. pass[p] \in Warning BY <1>8, TurnInHand DEF QueueWarning
    <2>2. [at |-> "mark", acct |-> pass[p].acct] \in Turn BY <2>1 DEF Turn, Marking, Warning
    <2>3. pass' \in [BudgetPasses -> Turn] BY <1>8, <2>2, TurnType DEF QueueWarning
    <2>4. warned' \subseteq Accounts \X {"warn", "over"}
      BY <1>8, <2>1 DEF QueueWarning, Warning, BudgetTypeOK
    <2>5. QED
      BY <1>8, <2>3, <2>4
         DEF QueueWarning, BudgetTypeOK, Turn, Checking, Warning, Stopping, Marking
  <1>9. ASSUME NEW p \in BudgetPasses, MarkAlerted(p) PROVE BudgetTypeOK'
    <2>1. pass' \in [BudgetPasses -> Turn]
      BY <1>9, AfterAccountType, TurnType DEF MarkAlerted
    <2>2. budget' \in [Accounts -> Budget]
      BY <1>9, <1>b, TurnInHand DEF MarkAlerted, Marking
    <2>3. QED BY <1>9, <1>a, <2>1, <2>2 DEF MarkAlerted
  <1>10. ASSUME NEW p \in BudgetPasses, BudgetStops(p) PROVE BudgetTypeOK'
    <2>1. Idle \in Turn BY DEF Turn
    <2>2. pass' \in [BudgetPasses -> Turn] BY <1>10, <2>1, TurnType DEF BudgetStops
    <2>3. QED
      BY <1>10, <2>2, BudgetAssumption
         DEF BudgetStops, BudgetTypeOK, Turn, Checking, Warning, Stopping, Marking
  <1>11. CASE UNCHANGED budgetVars BY <1>11 DEF budgetVars, BudgetTypeOK
  <1>12. QED
    BY <1>1, <1>2, <1>3, <1>4, <1>5, <1>6, <1>7, <1>8, <1>9, <1>10, <1>11
       DEF BudgetNext, BudgetStep

-----------------------------------------------------------------------------
(* The composition.                                                        *)

BackOfficeTypeInv ==
    desk \in Desks /\ WebhookInv /\ EmailTypeOK /\ ApplicationInv /\ BudgetTypeOK
    /\ RetentionTypeOK /\ SpotTypeOK

\* Every variable of the back office stays well typed: a mail never has a status of none,
\* a pass of the budgets has in hand what its place in the code needs.
THEOREM BackOfficeTypeCorrect == BackOfficeSpec => []BackOfficeTypeOK
  <1>1. BackOfficeInit => BackOfficeTypeInv
    BY BackOfficeStarts, WebhookInvInitially, EmailTypeInitially, ApplicationInvInitially,
       BudgetTypeInitially, RetentionTypeInitially, SpotTypeInitially
       DEF BackOfficeInit, BackOfficeTypeInv
  <1>2. BackOfficeTypeInv /\ [BackOfficeNext]_backOfficeVars => BackOfficeTypeInv'
    <2>1. desk \in Desks /\ [BackOfficeNext]_backOfficeVars => (desk \in Desks)'
      BY DEF BackOfficeNext, backOfficeVars
    <2>2. QED
      BY <2>1, StepsWebhooks, StepsMails, StepsApplications, StepsBudgets, StepsRetention,
         StepsPrices, WebhookInvKept, EmailTypeKept, ApplicationInvKept, BudgetTypeKept,
         RetentionTypeKept, SpotTypeKept DEF BackOfficeTypeInv
  <1>3. BackOfficeTypeInv => BackOfficeTypeOK
    BY DEF BackOfficeTypeInv, BackOfficeTypeOK, WebhookInv, ApplicationInv
  <1>4. QED BY <1>1, <1>2, <1>3, PTL DEF BackOfficeSpec
=============================================================================
