------------------------- MODULE UsageBillingProofs -------------------------
(* Proofs about UsageBilling, for every set of workspaces and threads.      *)
EXTENDS UsageBilling, TLAPS

-----------------------------------------------------------------------------
(* What the steps do, stated once.                                          *)

\* An insert either changes nothing or makes an unused session of a workspace
\* that has no RUNNING one RUNNING.
LEMMA CreateEffect ==
  ASSUME TypeOK, NEW o \in Opener, CreateSession(o)
  PROVE  /\ opener' \in [Opener -> SUBSET Insert]
         /\ session' \in [Session -> SessionRow]
         /\ UNCHANGED <<clock, outbox, metered, closer, meter, aborts>>
         /\ \/ UNCHANGED session
            \/ \E s \in Session, n \in Nat :
                 /\ session[s].status = "none"
                 /\ \A t \in Session :
                      WorkspaceOf(t) = WorkspaceOf(s) => session[t].status # "RUNNING"
                 /\ session' = [session EXCEPT ![s] = [@ EXCEPT !.status = "RUNNING",
                                                             !.startTime = n]]
<1>1. PICK r \in opener[o] :
        /\ \/ UNCHANGED session
           \/ /\ RunningSessions(r.ws) = {}
              /\ \E s \in UnusedSessions(r.ws) :
                   session' = [session EXCEPT ![s] = [@ EXCEPT !.status = "RUNNING",
                                                              !.startTime = r.startTime]]
        /\ opener' = [opener EXCEPT ![o] = {}]
        /\ UNCHANGED <<clock, outbox, metered, closer, meter, aborts>>
  BY DEF CreateSession
<1>2. r \in Insert
  BY DEF TypeOK
<1>3. r.startTime \in Nat
  BY <1>2 DEF Insert
<1>4. opener' \in [Opener -> SUBSET Insert]
  BY <1>1 DEF TypeOK
<1>5. CASE UNCHANGED session
  BY <1>1, <1>4, <1>5 DEF TypeOK
<1>6. CASE RunningSessions(r.ws) = {} /\ ~UNCHANGED session
  <2>1. PICK s \in UnusedSessions(r.ws) :
          session' = [session EXCEPT ![s] = [@ EXCEPT !.status = "RUNNING",
                                                     !.startTime = r.startTime]]
    BY <1>1, <1>6
  <2>2. s \in Session /\ session[s].status = "none" /\ WorkspaceOf(s) = r.ws
    BY DEF UnusedSessions
  <2>3. \A t \in Session : WorkspaceOf(t) = r.ws => session[t].status # "RUNNING"
    BY <1>6 DEF RunningSessions
  <2>4. session \in [Session -> SessionRow]
    BY DEF TypeOK
  <2>5. session' \in [Session -> SessionRow]
    BY <1>3, <2>1, <2>2, <2>4 DEF SessionRow
  <2> QED
    BY <1>1, <1>3, <1>4, <2>1, <2>2, <2>3, <2>5
<1> QED
  BY <1>1, <1>5, <1>6

\* A closer either changes no table or ends a RUNNING session and enqueues the
\* very seconds it stored.
LEMMA CloseEffect ==
  ASSUME TypeOK, NEW c \in Closer, CommitClose(c)
  PROVE  /\ closer' \in [Closer -> [todo : SUBSET Session, cur : SUBSET Closing]]
         /\ session' \in [Session -> SessionRow]
         /\ outbox' \in [Session -> OutboxRow]
         /\ UNCHANGED <<clock, metered, opener, meter, aborts>>
         /\ \/ UNCHANGED <<session, outbox>>
            \/ \E s \in Session, n \in Nat :
                 /\ session[s].status = "RUNNING"
                 /\ session' = [session EXCEPT ![s] = [@ EXCEPT !.status = "ENDED",
                                                             !.totalSeconds = n]]
                 /\ outbox' = [outbox EXCEPT ![s] = [@ EXCEPT !.status = "PENDING",
                                                            !.valueSeconds = n,
                                                            !.due = TRUE]]
<1>1. PICK r \in closer[c].cur :
        /\ \/ UNCHANGED <<session, outbox>>
           \/ /\ session[r.id].status = "RUNNING"
              /\ session' = [session EXCEPT ![r.id] = [@ EXCEPT !.status = "ENDED",
                                                    !.totalSeconds = r.totalSeconds]]
              /\ outbox' = [outbox EXCEPT ![r.id] = [@ EXCEPT !.status = "PENDING",
                                                   !.valueSeconds = r.totalSeconds,
                                                   !.due = TRUE]]
        /\ closer' = [closer EXCEPT ![c].cur = {}]
        /\ UNCHANGED <<clock, metered, opener, meter, aborts>>
  BY DEF CommitClose
<1>2. r \in Closing
  BY DEF TypeOK
<1>3. r.id \in Session /\ r.totalSeconds \in Nat
  BY <1>2 DEF Closing
<1>4. closer' \in [Closer -> [todo : SUBSET Session, cur : SUBSET Closing]]
  BY <1>1 DEF TypeOK
<1>5. session \in [Session -> SessionRow] /\ outbox \in [Session -> OutboxRow]
  BY DEF TypeOK
<1>6. CASE UNCHANGED <<session, outbox>>
  BY <1>1, <1>4, <1>5, <1>6
<1>7. CASE ~UNCHANGED <<session, outbox>>
  <2>1. /\ session[r.id].status = "RUNNING"
        /\ session' = [session EXCEPT ![r.id] = [@ EXCEPT !.status = "ENDED",
                                              !.totalSeconds = r.totalSeconds]]
        /\ outbox' = [outbox EXCEPT ![r.id] = [@ EXCEPT !.status = "PENDING",
                                             !.valueSeconds = r.totalSeconds,
                                             !.due = TRUE]]
    BY <1>1, <1>7
  <2>2. session' \in [Session -> SessionRow]
    BY <1>3, <1>5, <2>1 DEF SessionRow
  <2>3. outbox' \in [Session -> OutboxRow]
    BY <1>3, <1>5, <2>1 DEF OutboxRow
  <2> QED
    BY <1>1, <1>3, <1>4, <2>1, <2>2, <2>3
<1> QED
  BY <1>6, <1>7

\* The end of an attempt settles or reschedules the row of the event in hand.
LEMMA MarkEffect ==
  ASSUME TypeOK, NEW m \in Meter, MarkSent(m) \/ MarkFailedAttempt(m)
  PROVE  /\ outbox' \in [Session -> OutboxRow]
         /\ session' \in [Session -> SessionRow]
         /\ meter' = [meter EXCEPT ![m] = [@ EXCEPT !.cur = {}, !.pc = "idle"]]
         /\ UNCHANGED <<clock, metered, opener, closer, aborts>>
         /\ \E e \in Event, status \in {"SENT", "RETRY", "FAILED"}, n \in Nat :
              /\ e \in meter[m].cur
              /\ outbox' = [outbox EXCEPT ![e.id] = [@ EXCEPT !.status = status,
                                             !.attemptCount = n, !.due = FALSE]]
              /\ \/ UNCHANGED session /\ status # "SENT"
                 \/ /\ session' = [session EXCEPT ![e.id].stripeMeterEventId = TRUE]
                    /\ meter[m].pc = "accepted"
<1> DEFINE Marked(e, status) ==
      /\ outbox' = [outbox EXCEPT ![e.id] = [@ EXCEPT !.status = status,
                       !.attemptCount = outbox[e.id].attemptCount + 1, !.due = FALSE]]
      /\ \/ UNCHANGED session /\ status # "SENT"
         \/ /\ session' = [session EXCEPT ![e.id].stripeMeterEventId = TRUE]
            /\ meter[m].pc = "accepted"
<1>1. PICK e \in meter[m].cur, status \in {"SENT", "RETRY", "FAILED"} : Marked(e, status)
  BY DEF MarkSent, MarkFailedAttempt
<1>2. e \in Event
  BY DEF TypeOK
<1>3. e.id \in Session
  BY <1>2 DEF Event
<1>4. session \in [Session -> SessionRow] /\ outbox \in [Session -> OutboxRow]
  BY DEF TypeOK
<1>5. outbox[e.id].attemptCount + 1 \in Nat
  BY <1>3, <1>4 DEF OutboxRow
<1>6. outbox' \in [Session -> OutboxRow]
  BY <1>1, <1>3, <1>4, <1>5, ZenonT(30) DEF OutboxRow
<1>7. session' \in [Session -> SessionRow]
  <2>1. session[e.id] \in SessionRow
    BY <1>3, <1>4
  <2>2. [session[e.id] EXCEPT !.stripeMeterEventId = TRUE] \in SessionRow
    BY <2>1 DEF SessionRow
  <2>3. \/ session' = session
        \/ session' = [session EXCEPT ![e.id] = [session[e.id] EXCEPT !.stripeMeterEventId = TRUE]]
    BY <1>1
  <2> QED
    BY <1>3, <1>4, <2>2, <2>3
<1>8. /\ meter' = [meter EXCEPT ![m] = [@ EXCEPT !.cur = {}, !.pc = "idle"]]
      /\ UNCHANGED <<clock, metered, opener, closer, aborts>>
  BY DEF MarkSent, MarkFailedAttempt
<1> QED
  BY <1>1, <1>2, <1>5, <1>6, <1>7, <1>8

\* A POST takes one row of the pass's batch; Stripe has it if it was answered.
LEMMA PostEffect ==
  ASSUME TypeOK, NEW m \in Meter, PostMeterEvent(m)
  PROVE  /\ UNCHANGED <<clock, session, outbox, opener, closer, aborts>>
         /\ \E e \in Event, pc \in {"accepted", "failed"} :
              /\ e \in meter[m].batch
              /\ meter' = [meter EXCEPT ![m] =
                             [batch |-> @.batch \ {e}, cur |-> {e}, pc |-> pc]]
              /\ Accept(e) \/ (pc = "failed" /\ UNCHANGED metered)
<1>1. PICK e \in meter[m].batch, pc \in {"accepted", "failed"} :
        /\ meter' = [meter EXCEPT ![m] =
                       [batch |-> @.batch \ {e}, cur |-> {e}, pc |-> pc]]
        /\ Accept(e) \/ (pc = "failed" /\ UNCHANGED metered)
  BY DEF PostMeterEvent
<1>2. e \in Event
  BY DEF TypeOK
<1> QED
  BY <1>1, <1>2 DEF PostMeterEvent

\* What Stripe does with an event: the first one of a session counts.
LEMMA AcceptEffect ==
  ASSUME TypeOK, NEW e \in Event, Accept(e)
  PROVE  /\ metered' \in [Session -> Metered]
         /\ e.id \in Session /\ e.valueSeconds \in Nat
         /\ metered'[e.id].count > 0
         /\ \/ metered[e.id].count > 0 /\ metered' = metered
            \/ /\ metered[e.id].count = 0
               /\ metered' = [metered EXCEPT ![e.id] =
                                [count |-> 1, seconds |-> e.valueSeconds]]
<1>1. e.id \in Session /\ e.valueSeconds \in Nat
  BY DEF Event
<1>2. metered \in [Session -> Metered] /\ metered[e.id].count \in Nat
  BY <1>1 DEF TypeOK, Metered
<1>3. CASE metered[e.id].count > 0
  BY <1>1, <1>2, <1>3 DEF Accept
<1>4. CASE metered[e.id].count = 0
  BY <1>1, <1>2, <1>4 DEF Accept, Metered
<1> QED
  BY <1>2, <1>3, <1>4

-----------------------------------------------------------------------------
(* Type correctness.                                                        *)

\* Each table, request and batch keeps its type, whatever thread moves.
LEMMA TypeInit == Init => TypeOK
  BY DEF Init, TypeOK, SessionRow, OutboxRow, Metered, IdleCloser, IdleMeter

\* The same, for one step.
LEMMA TypeNext == TypeOK /\ [Next]_vars => TypeOK'
<1> SUFFICES ASSUME TypeOK, [Next]_vars PROVE TypeOK'
  OBVIOUS
<1>1. ASSUME NEW o \in Opener, NEW w \in Workspace,
             StartUsageSessionForColdWorkspace(o, w) \/ StartUsageSessionWithStatus(o, w)
      PROVE  TypeOK'
  BY <1>1 DEF TypeOK, StartUsageSessionForColdWorkspace, StartUsageSessionWithStatus, Insert
<1>2. ASSUME NEW o \in Opener, CreateSession(o) PROVE TypeOK'
  BY <1>2, CreateEffect DEF TypeOK
<1>3. ASSUME NEW c \in Closer, NEW w \in Workspace,
             EndUsageSession(c, w) \/ FinalizeUsageSessions(c, w)
      PROVE  TypeOK'
  BY <1>3 DEF TypeOK, EndUsageSession, FinalizeUsageSessions, RunningSessions
<1>4. ASSUME NEW c \in Closer, StampClose(c) PROVE TypeOK'
  BY <1>4 DEF TypeOK, StampClose, Closing, SessionRow
<1>5. ASSUME NEW c \in Closer, CommitClose(c) PROVE TypeOK'
  BY <1>5, CloseEffect DEF TypeOK
<1>6. ASSUME NEW m \in Meter, MeterRead(m) PROVE TypeOK'
  <2> DEFINE Read == {[id |-> s, valueSeconds |-> outbox[s].valueSeconds,
                       attemptCount |-> outbox[s].attemptCount] : s \in DueRows}
  <2>1. Read \in SUBSET Event
    BY DEF TypeOK, DueRows, Event, OutboxRow
  <2>2. /\ meter' = [meter EXCEPT ![m].batch = Read]
        /\ UNCHANGED <<clock, session, outbox, metered, opener, closer, aborts>>
    BY <1>6 DEF MeterRead
  <2> HIDE DEF Read
  <2> QED
    BY <2>1, <2>2 DEF TypeOK
<1>7. ASSUME NEW m \in Meter, PostMeterEvent(m) PROVE TypeOK'
  <2>1. PICK e \in Event, pc \in {"accepted", "failed"} :
          /\ meter' = [meter EXCEPT ![m] =
                         [batch |-> @.batch \ {e}, cur |-> {e}, pc |-> pc]]
          /\ Accept(e) \/ UNCHANGED metered
    BY <1>7, PostEffect
  <2>2. metered' \in [Session -> Metered]
    BY <2>1, AcceptEffect DEF TypeOK
  <2> QED
    BY <1>7, <2>1, <2>2, PostEffect DEF TypeOK
<1>8. ASSUME NEW m \in Meter, MarkSent(m) \/ MarkFailedAttempt(m) PROVE TypeOK'
  <2>1. meter' = [meter EXCEPT ![m] = [@ EXCEPT !.cur = {}, !.pc = "idle"]]
    BY <1>8, MarkEffect
  <2>2. meter' \in [Meter -> [batch : SUBSET Event, cur : SUBSET Event,
                              pc : {"idle", "accepted", "failed"}]]
    BY <2>1 DEF TypeOK
  <2>3. /\ outbox' \in [Session -> OutboxRow]
        /\ session' \in [Session -> SessionRow]
        /\ UNCHANGED <<clock, metered, opener, closer, aborts>>
    BY <1>8, MarkEffect
  <2> QED
    BY <2>2, <2>3 DEF TypeOK
<1>9. ASSUME NEW s \in Session, BackoffElapses(s) PROVE TypeOK'
  BY <1>9, ZenonT(30) DEF TypeOK, BackoffElapses, OutboxRow
<1>10. CASE Tick
  BY <1>10 DEF TypeOK, Tick
<1>11. CASE Abort
  BY <1>11 DEF TypeOK, Abort, IdleCloser, IdleMeter
<1>12. CASE UNCHANGED vars
  BY <1>12 DEF TypeOK, vars
<1> QED
  BY <1>1, <1>2, <1>3, <1>4, <1>5, <1>6, <1>7, <1>8, <1>9, <1>10, <1>11, <1>12
     DEF Next

\* The tables and the threads' local copies always have their types.
THEOREM TypeCorrect == Spec => []TypeOK
  BY TypeInit, TypeNext, PTL DEF Spec

-----------------------------------------------------------------------------
(* The safety invariants.  None of them is inductive without what is known  *)
(* of the copies the passes work on.                                        *)

\* What a pass has read of a row stays true while the pass holds it: the
\* session is ENDED and its seconds are the stored ones.
CopiesAgree ==
  \A m \in Meter : \A e \in meter[m].batch \cup meter[m].cur :
    /\ session[e.id].status = "ENDED"
    /\ e.valueSeconds = session[e.id].totalSeconds

\* A pass that got an answer holds an event Stripe has.
AcceptedWasCharged ==
  \A m \in Meter : meter[m].pc = "accepted" =>
    \A e \in meter[m].cur : metered[e.id].count > 0

IInv ==
  /\ TypeOK
  /\ OneRunningSession
  /\ EndedIffEnqueued
  /\ ChargedOnceForStoredTotal
  /\ SentWasCharged
  /\ CopiesAgree
  /\ AcceptedWasCharged

\* No session, no row, no charge, no pass under way.
LEMMA IInvInit == Init => IInv
<1> SUFFICES ASSUME Init PROVE IInv
  OBVIOUS
<1>1. TypeOK
  BY TypeInit
<1>2. \A m \in Meter : meter[m].batch = {} /\ meter[m].cur = {}
  BY DEF Init, IdleMeter
<1>3. \A s \in Session : /\ session[s].status = "none" /\ ~session[s].stripeMeterEventId
                         /\ outbox[s].status = "none"
                         /\ metered[s].count = 0
  BY DEF Init
<1> QED
  BY <1>1, <1>2, <1>3 DEF IInv, OneRunningSession, EndedIffEnqueued,
     ChargedOnceForStoredTotal, SentWasCharged, CopiesAgree, AcceptedWasCharged

\* Threads that only move in memory disturb nothing but the passes' copies.
LEMMA IInvLocal ==
  ASSUME IInv, TypeOK', UNCHANGED <<session, metered>>,
         \A s \in Session : /\ outbox'[s].valueSeconds = outbox[s].valueSeconds
                            /\ outbox'[s].status = "none" <=> outbox[s].status = "none"
                            /\ outbox'[s].status = "SENT" => outbox[s].status = "SENT",
         CopiesAgree', AcceptedWasCharged'
  PROVE  IInv'
  BY DEF IInv, OneRunningSession, EndedIffEnqueued, ChargedOnceForStoredTotal,
     SentWasCharged, RunningSessions

\* A step that leaves the ENDED sessions alone leaves the copies true.
LEMMA CopiesKept ==
  ASSUME IInv, UNCHANGED meter,
         \A s \in Session : session[s].status = "ENDED" =>
            /\ session'[s].status = "ENDED"
            /\ session'[s].totalSeconds = session[s].totalSeconds
  PROVE  CopiesAgree'
<1> SUFFICES ASSUME NEW m \in Meter, NEW e \in meter[m].batch \cup meter[m].cur
             PROVE  /\ session'[e.id].status = "ENDED"
                    /\ e.valueSeconds = session'[e.id].totalSeconds
  BY DEF CopiesAgree
<1>1. e \in Event
  BY DEF IInv, TypeOK
<1>2. e.id \in Session
  BY <1>1 DEF Event
<1>3. session[e.id].status = "ENDED" /\ e.valueSeconds = session[e.id].totalSeconds
  BY DEF IInv, CopiesAgree
<1> QED
  BY <1>2, <1>3

\* Opening.  A RUNNING session is neither enqueued, nor charged, nor in a batch.
LEMMA IInvCreate ==
  ASSUME IInv, TypeOK', NEW o \in Opener, CreateSession(o)
  PROVE  IInv'
<1>1. /\ UNCHANGED <<outbox, metered, meter>>
      /\ TypeOK
  BY CreateEffect DEF IInv
<1>2. CASE UNCHANGED session
  BY <1>1, <1>2 DEF IInv, OneRunningSession, EndedIffEnqueued,
     ChargedOnceForStoredTotal, SentWasCharged, CopiesAgree, AcceptedWasCharged
<1>3. CASE ~UNCHANGED session
  <2>1. PICK s \in Session, n \in Nat :
          /\ session[s].status = "none"
          /\ \A t \in Session :
               WorkspaceOf(t) = WorkspaceOf(s) => session[t].status # "RUNNING"
          /\ session' = [session EXCEPT ![s] = [@ EXCEPT !.status = "RUNNING",
                                                      !.startTime = n]]
    BY <1>1, <1>3, CreateEffect
  <2>2. \A t \in Session : t # s => session'[t] = session[t]
    BY <1>1, <2>1 DEF TypeOK
  <2>3. /\ session'[s].status = "RUNNING"
        /\ session'[s].stripeMeterEventId = session[s].stripeMeterEventId
    BY <1>1, <2>1 DEF TypeOK, SessionRow
  <2>4. OneRunningSession'
    BY <2>1, <2>2, <2>3 DEF IInv, OneRunningSession
  <2>5. EndedIffEnqueued'
    BY <1>1, <2>1, <2>2, <2>3 DEF IInv, EndedIffEnqueued
  <2>6. ChargedOnceForStoredTotal'
    BY <1>1, <2>1, <2>2 DEF IInv, ChargedOnceForStoredTotal
  <2>7. SentWasCharged'
    BY <1>1, <2>2, <2>3 DEF IInv, SentWasCharged
  <2>8. CopiesAgree'
    BY <1>1, <2>1, <2>2, CopiesKept
  <2>9. AcceptedWasCharged'
    BY <1>1 DEF IInv, AcceptedWasCharged
  <2> QED
    BY <2>4, <2>5, <2>6, <2>7, <2>8, <2>9 DEF IInv
<1> QED
  BY <1>2, <1>3

\* Closing.  The same, for the session that stops RUNNING.
LEMMA IInvClose ==
  ASSUME IInv, TypeOK', NEW c \in Closer, CommitClose(c)
  PROVE  IInv'
<1>1. /\ UNCHANGED <<metered, meter>>
      /\ TypeOK
  BY CloseEffect DEF IInv
<1>2. CASE UNCHANGED <<session, outbox>>
  BY <1>1, <1>2 DEF IInv, OneRunningSession, EndedIffEnqueued,
     ChargedOnceForStoredTotal, SentWasCharged, CopiesAgree, AcceptedWasCharged
<1>3. CASE ~UNCHANGED <<session, outbox>>
  <2>1. PICK s \in Session, n \in Nat :
          /\ session[s].status = "RUNNING"
          /\ session' = [session EXCEPT ![s] = [@ EXCEPT !.status = "ENDED",
                                                      !.totalSeconds = n]]
          /\ outbox' = [outbox EXCEPT ![s] = [@ EXCEPT !.status = "PENDING",
                                                     !.valueSeconds = n,
                                                     !.due = TRUE]]
    BY <1>1, <1>3, CloseEffect
  <2>2. \A t \in Session : t # s => session'[t] = session[t] /\ outbox'[t] = outbox[t]
    BY <1>1, <2>1 DEF TypeOK
  <2>3. /\ session'[s].status = "ENDED"
        /\ session'[s].totalSeconds = n
        /\ session'[s].stripeMeterEventId = session[s].stripeMeterEventId
    BY <1>1, <2>1 DEF TypeOK, SessionRow
  <2>4. outbox'[s].status = "PENDING" /\ outbox'[s].valueSeconds = n
    BY <1>1, <2>1 DEF TypeOK, OutboxRow
  <2>5. OneRunningSession'
    BY <2>2, <2>3 DEF IInv, OneRunningSession
  <2>6. EndedIffEnqueued'
    BY <2>2, <2>3, <2>4 DEF IInv, EndedIffEnqueued
  <2>7. ChargedOnceForStoredTotal'
    BY <1>1, <2>1, <2>2 DEF IInv, ChargedOnceForStoredTotal
  <2>8. SentWasCharged'
    BY <1>1, <2>2, <2>3, <2>4 DEF IInv, SentWasCharged
  <2>9. CopiesAgree'
    BY <1>1, <2>1, <2>2, CopiesKept
  <2>10. AcceptedWasCharged'
    BY <1>1 DEF IInv, AcceptedWasCharged
  <2> QED
    BY <2>5, <2>6, <2>7, <2>8, <2>9, <2>10 DEF IInv
<1> QED
  BY <1>2, <1>3

\* Charging.  The event in hand says what the session says, so the one Stripe
\* keeps does; a second event of the session is not counted.
LEMMA IInvPost ==
  ASSUME IInv, TypeOK', NEW m \in Meter, PostMeterEvent(m)
  PROVE  IInv'
<1>1. UNCHANGED <<session, outbox>> /\ TypeOK
  BY PostEffect DEF IInv
<1>2. PICK e \in Event, pc \in {"accepted", "failed"} :
        /\ e \in meter[m].batch
        /\ meter' = [meter EXCEPT ![m] =
                       [batch |-> @.batch \ {e}, cur |-> {e}, pc |-> pc]]
        /\ Accept(e) \/ (pc = "failed" /\ UNCHANGED metered)
  BY <1>1, PostEffect
<1>3. /\ e.id \in Session
      /\ session[e.id].status = "ENDED"
      /\ e.valueSeconds = session[e.id].totalSeconds
  BY <1>2 DEF IInv, CopiesAgree, Event
<1>4. /\ pc = "accepted" => metered'[e.id].count > 0
      /\ \/ UNCHANGED metered
         \/ metered' = [metered EXCEPT ![e.id] = [count |-> 1, seconds |-> e.valueSeconds]]
  BY <1>1, <1>2, AcceptEffect
<1>5. \A s \in Session : metered[s].count > 0 => metered'[s].count > 0
  <2>1. metered \in [Session -> Metered]
    BY <1>1 DEF TypeOK
  <2>2. CASE metered' = [metered EXCEPT ![e.id] = [count |-> 1, seconds |-> e.valueSeconds]]
    BY <1>3, <2>1, <2>2
  <2> QED
    BY <1>4, <2>2
<1>6. ChargedOnceForStoredTotal'
  BY <1>1, <1>3, <1>4 DEF IInv, TypeOK, ChargedOnceForStoredTotal
<1>7. SentWasCharged'
  BY <1>1, <1>5 DEF IInv, SentWasCharged
<1>8. ASSUME NEW n \in Meter
      PROVE  meter'[n].batch \cup meter'[n].cur \subseteq meter[n].batch \cup meter[n].cur
  BY <1>1, <1>2 DEF TypeOK
<1>9. CopiesAgree'
  BY <1>1, <1>8 DEF IInv, CopiesAgree
<1>10. AcceptedWasCharged'
  <2>1. SUFFICES ASSUME NEW n \in Meter, meter'[n].pc = "accepted", NEW f \in meter'[n].cur
                 PROVE  metered'[f.id].count > 0
    BY DEF AcceptedWasCharged
  <2>2. CASE n = m
    BY <1>1, <1>2, <1>4, <2>1, <2>2 DEF TypeOK
  <2>3. CASE n # m
    <3>1. meter'[n] = meter[n]
      BY <1>1, <1>2, <2>3 DEF TypeOK
    <3>2. f \in Event
      BY <1>1, <2>1, <3>1 DEF TypeOK
    <3>3. f.id \in Session /\ metered[f.id].count > 0
      BY <2>1, <3>1, <3>2 DEF IInv, AcceptedWasCharged, Event
    <3> QED
      BY <1>5, <3>3
  <2> QED
    BY <2>2, <2>3
<1> QED
  BY <1>1, <1>6, <1>7, <1>9, <1>10 DEF IInv, OneRunningSession, EndedIffEnqueued

\* Settling.  A row becomes SENT only in the hands of a pass that got an answer.
LEMMA IInvMark ==
  ASSUME IInv, TypeOK', NEW m \in Meter, MarkSent(m) \/ MarkFailedAttempt(m)
  PROVE  IInv'
<1>1. /\ UNCHANGED metered /\ TypeOK
      /\ meter' = [meter EXCEPT ![m] = [@ EXCEPT !.cur = {}, !.pc = "idle"]]
  BY MarkEffect DEF IInv
<1>2. PICK e \in Event, status \in {"SENT", "RETRY", "FAILED"}, count \in Nat :
        /\ e \in meter[m].cur
        /\ outbox' = [outbox EXCEPT ![e.id] = [@ EXCEPT !.status = status,
                                       !.attemptCount = count, !.due = FALSE]]
        /\ \/ UNCHANGED session /\ status # "SENT"
           \/ /\ session' = [session EXCEPT ![e.id].stripeMeterEventId = TRUE]
              /\ meter[m].pc = "accepted"
  BY <1>1, MarkEffect
<1>3. e.id \in Session /\ session[e.id].status = "ENDED"
  BY <1>2 DEF IInv, CopiesAgree, Event
<1>4. \A s \in Session :
        /\ session'[s].status = session[s].status
        /\ session'[s].totalSeconds = session[s].totalSeconds
  <2>1. session \in [Session -> SessionRow]
    BY <1>1 DEF TypeOK
  <2>2. CASE session' = [session EXCEPT ![e.id].stripeMeterEventId = TRUE]
    BY <1>3, <2>1, <2>2 DEF SessionRow
  <2> QED
    BY <1>2, <2>2
<1>5. \A s \in Session : s # e.id => session'[s] = session[s] /\ outbox'[s] = outbox[s]
  BY <1>1, <1>2, <1>3 DEF TypeOK
<1>6. outbox'[e.id].status = status /\ outbox'[e.id].valueSeconds = outbox[e.id].valueSeconds
  BY <1>1, <1>2, <1>3 DEF TypeOK, OutboxRow
<1>7. OneRunningSession'
  BY <1>4 DEF IInv, OneRunningSession
<1>8. EndedIffEnqueued'
  BY <1>3, <1>4, <1>5, <1>6 DEF IInv, EndedIffEnqueued
<1>9. ChargedOnceForStoredTotal'
  BY <1>1, <1>4 DEF IInv, ChargedOnceForStoredTotal
<1>10. SentWasCharged'
  <2>1. meter[m].pc = "accepted" => metered[e.id].count > 0
    BY <1>2 DEF IInv, AcceptedWasCharged
  <2>2. CASE UNCHANGED session /\ status # "SENT"
    BY <1>1, <1>5, <1>6, <2>2 DEF IInv, SentWasCharged
  <2>3. CASE meter[m].pc = "accepted"
    BY <1>1, <1>5, <2>1, <2>3 DEF IInv, SentWasCharged
  <2> QED
    BY <1>2, <2>2, <2>3
<1>11. ASSUME NEW n \in Meter
       PROVE  /\ meter'[n].batch \cup meter'[n].cur \subseteq meter[n].batch \cup meter[n].cur
              /\ meter'[n].pc = "accepted" => meter'[n] = meter[n]
  BY <1>1 DEF TypeOK
<1>12. CopiesAgree'
  <2> SUFFICES ASSUME NEW n \in Meter, NEW f \in meter'[n].batch \cup meter'[n].cur
               PROVE  /\ session'[f.id].status = "ENDED"
                      /\ f.valueSeconds = session'[f.id].totalSeconds
    BY DEF CopiesAgree
  <2>1. f \in meter[n].batch \cup meter[n].cur
    BY <1>11
  <2>2. f.id \in Session
    BY <1>1, <2>1 DEF TypeOK, Event
  <2> QED
    BY <1>4, <2>1, <2>2 DEF IInv, CopiesAgree
<1>13. AcceptedWasCharged'
  BY <1>1, <1>11 DEF IInv, AcceptedWasCharged
<1> QED
  BY <1>7, <1>8, <1>9, <1>10, <1>12, <1>13 DEF IInv

\* Every step of every thread preserves the invariant.
LEMMA IInvNext == IInv /\ [Next]_vars => IInv'
<1> SUFFICES ASSUME IInv, [Next]_vars PROVE IInv'
  OBVIOUS
<1>1. TypeOK /\ TypeOK'
  BY TypeNext DEF IInv
<1>2. ASSUME NEW o \in Opener, CreateSession(o) PROVE IInv'
  BY <1>1, <1>2, IInvCreate
<1>3. ASSUME NEW c \in Closer, CommitClose(c) PROVE IInv'
  BY <1>1, <1>3, IInvClose
<1>4. ASSUME NEW m \in Meter, PostMeterEvent(m) PROVE IInv'
  BY <1>1, <1>4, IInvPost
<1>5. ASSUME NEW m \in Meter, MarkSent(m) \/ MarkFailedAttempt(m) PROVE IInv'
  BY <1>1, <1>5, IInvMark
<1>6. CASE UNCHANGED <<session, outbox, metered, meter>>
  BY <1>1, <1>6, IInvLocal DEF IInv, CopiesAgree, AcceptedWasCharged
<1>7. ASSUME NEW m \in Meter, MeterRead(m) PROVE IInv'
  <2> DEFINE Read == {[id |-> s, valueSeconds |-> outbox[s].valueSeconds,
                       attemptCount |-> outbox[s].attemptCount] : s \in DueRows}
  <2>1. /\ meter' = [meter EXCEPT ![m].batch = Read]
        /\ UNCHANGED <<session, outbox, metered>>
        /\ meter[m].cur = {} /\ meter[m].pc = "idle"
    BY <1>7 DEF MeterRead, IdleMeter
  <2>2. \A e \in Read : session[e.id].status = "ENDED" /\ e.valueSeconds = session[e.id].totalSeconds
    BY DEF DueRows, IInv, EndedIffEnqueued
  <2> HIDE DEF Read
  <2>3. \A n \in Meter : /\ n # m => meter'[n] = meter[n]
                         /\ n = m => /\ meter'[n].batch = Read
                                     /\ meter'[n].cur = {} /\ meter'[n].pc = "idle"
    BY <1>1, <2>1 DEF TypeOK
  <2>4. CopiesAgree'
    BY <2>1, <2>2, <2>3 DEF IInv, CopiesAgree
  <2>5. AcceptedWasCharged'
    BY <2>1, <2>3 DEF IInv, AcceptedWasCharged
  <2> QED
    BY <1>1, <2>1, <2>4, <2>5, IInvLocal
<1>8. ASSUME NEW s \in Session, BackoffElapses(s) PROVE IInv'
  <2>1. /\ UNCHANGED <<session, metered, meter>>
        /\ outbox' = [outbox EXCEPT ![s].due = TRUE]
    BY <1>8 DEF BackoffElapses
  <2>2. outbox \in [Session -> OutboxRow]
    BY <1>1 DEF TypeOK
  <2>3. \A t \in Session : /\ outbox'[t].valueSeconds = outbox[t].valueSeconds
                           /\ outbox'[t].status = outbox[t].status
    BY <2>1, <2>2 DEF OutboxRow
  <2>4. CopiesAgree' /\ AcceptedWasCharged'
    BY <2>1 DEF IInv, CopiesAgree, AcceptedWasCharged
  <2> QED
    BY <1>1, <2>1, <2>3, <2>4, IInvLocal
<1>9. CASE Abort
  <2>1. UNCHANGED <<session, outbox, metered>>
    BY <1>9 DEF Abort
  <2>2. \A n \in Meter : meter'[n] = meter[n] \/ meter'[n] = IdleMeter
    BY <1>1, <1>9 DEF Abort, TypeOK
  <2>3. CopiesAgree'
    BY <2>1, <2>2 DEF IInv, CopiesAgree, IdleMeter
  <2>4. AcceptedWasCharged'
    BY <2>1, <2>2 DEF IInv, AcceptedWasCharged, IdleMeter
  <2> QED
    BY <1>1, <2>1, <2>3, <2>4, IInvLocal
<1> QED
  BY <1>2, <1>3, <1>4, <1>5, <1>6, <1>7, <1>8, <1>9
     DEF Next, vars, StartUsageSessionForColdWorkspace, StartUsageSessionWithStatus,
         EndUsageSession, FinalizeUsageSessions, StampClose, Tick

\* The invariant holds for ever, whatever the number of threads and crashes.
LEMMA Invariant == Spec => []IInv
  BY IInvInit, IInvNext, PTL DEF Spec

\* However openers race, a workspace has at most one RUNNING session.
THEOREM OneSessionAtATime == Spec => []OneRunningSession
  BY Invariant, PTL DEF IInv

\* A session is ENDED exactly when its outbox row exists, with its seconds.
THEOREM NoCloseIsLost == Spec => []EndedIffEnqueued
  BY Invariant, PTL DEF IInv

\* However passes overlap and retry, Stripe has one event of a session, only of
\* an ENDED one, with the seconds stored.
THEOREM NoDoubleCharge == Spec => []ChargedOnceForStoredTotal
  BY Invariant, PTL DEF IInv

\* What is marked SENT was accepted by Stripe.
THEOREM NoFalseSent == Spec => []SentWasCharged
  BY Invariant, PTL DEF IInv

\* One step leaves an ENDED session ENDED and its seconds alone.
LEMMA EndedStep ==
  IInv /\ IInv' /\ [Next]_vars =>
    \A s \in Session : session[s].status = "ENDED" =>
        /\ session'[s].status = "ENDED"
        /\ session'[s].totalSeconds = session[s].totalSeconds
<1> SUFFICES ASSUME IInv, [Next]_vars, NEW s \in Session, session[s].status = "ENDED"
             PROVE  /\ session'[s].status = "ENDED"
                    /\ session'[s].totalSeconds = session[s].totalSeconds
  OBVIOUS
<1>1. session \in [Session -> SessionRow] /\ TypeOK
  BY DEF IInv, TypeOK
<1>2. ASSUME NEW o \in Opener, CreateSession(o) PROVE session'[s] = session[s]
  BY <1>1, <1>2, CreateEffect
<1>3. ASSUME NEW c \in Closer, CommitClose(c) PROVE session'[s] = session[s]
  BY <1>1, <1>3, CloseEffect
<1>4. ASSUME NEW m \in Meter, MarkSent(m) \/ MarkFailedAttempt(m)
      PROVE  /\ session'[s].status = session[s].status
             /\ session'[s].totalSeconds = session[s].totalSeconds
  <2>1. ASSUME NEW t \in Session, session' = [session EXCEPT ![t].stripeMeterEventId = TRUE]
        PROVE  /\ session'[s].status = session[s].status
               /\ session'[s].totalSeconds = session[s].totalSeconds
    BY <1>1, <2>1 DEF SessionRow
  <2> QED
    BY <1>1, <1>4, <2>1, MarkEffect DEF Event
<1>5. CASE UNCHANGED session
  BY <1>5
<1> QED
  BY <1>2, <1>3, <1>4, <1>5
     DEF Next, vars, StartUsageSessionForColdWorkspace, StartUsageSessionWithStatus,
         EndUsageSession, FinalizeUsageSessions, StampClose, MeterRead, PostMeterEvent,
         BackoffElapses, Tick, Abort

\* Of the racing closers one ends the session; nothing changes its total later.
THEOREM ClosedOnce == Spec => EndedIsFinal
<1>1. IInv /\ IInv' /\ [Next]_vars =>
        [\A s \in Session : session[s].status = "ENDED" =>
           /\ session'[s].status = "ENDED"
           /\ session'[s].totalSeconds = session[s].totalSeconds]_vars
  BY EndedStep
<1> QED
  BY <1>1, Invariant, PTL DEF Spec, EndedIsFinal

-----------------------------------------------------------------------------
(* Refinement: the tables and Stripe, taken together, are a ledger.         *)

\* Before anything happened every entry of the ledger is unused.
LEMMA LedgerStart == Init => Ledger!LedgerInit
  BY DEF Init, Ledger!LedgerInit, LedgerView, Ledger!Session, Session

\* A ledger that differs in one entry, the phase of that entry.
LEMMA LedgerPhase ==
  ASSUME NEW s \in Session, NEW p, NEW q, NEW n,
         \A t \in Session : t # s => LedgerView'[t] = LedgerView[t],
         LedgerView[s] = [phase |-> p, seconds |-> n],
         LedgerView'[s] = [phase |-> q, seconds |-> n]
  PROVE  LedgerView' = [LedgerView EXCEPT ![s].phase = q]
<1>1. LedgerView = [t \in Session |-> LedgerView[t]]
  BY DEF LedgerView
<1>2. LedgerView' = [t \in Session |-> LedgerView'[t]]
  BY DEF LedgerView
<1>3. [LedgerView[s] EXCEPT !.phase = q] = [phase |-> q, seconds |-> n]
  OBVIOUS
<1> HIDE DEF LedgerView
<1> QED
  BY <1>1, <1>2, <1>3, Zenon

\* An insert opens an entry of the ledger or leaves it alone.
LEMMA LedgerOpen ==
  ASSUME IInv, NEW o \in Opener, CreateSession(o)
  PROVE  UNCHANGED LedgerView \/ \E s \in Session : Ledger!Open(s)
<1>1. UNCHANGED metered /\ TypeOK
  BY CreateEffect DEF IInv
<1>2. CASE UNCHANGED session
  BY <1>1, <1>2 DEF LedgerView
<1>3. CASE ~UNCHANGED session
  <2>1. PICK s \in Session, n \in Nat :
          /\ session[s].status = "none"
          /\ \A t \in Session :
               WorkspaceOf(t) = WorkspaceOf(s) => session[t].status # "RUNNING"
          /\ session' = [session EXCEPT ![s] = [@ EXCEPT !.status = "RUNNING",
                                                      !.startTime = n]]
    BY <1>1, <1>3, CreateEffect
  <2>2. \A t \in Session : t # s => session'[t] = session[t]
    BY <1>1, <2>1 DEF TypeOK
  <2>3. /\ session'[s].status = "RUNNING"
        /\ session'[s].totalSeconds = session[s].totalSeconds
    BY <1>1, <2>1 DEF TypeOK, SessionRow
  <2>4. ~(metered[s].count > 0)
    BY <2>1 DEF IInv, ChargedOnceForStoredTotal
  <2>5. LedgerView[s] = [phase |-> "unused", seconds |-> session[s].totalSeconds]
    BY <2>1, <2>4 DEF LedgerView
  <2>6. /\ LedgerView'[s] = [phase |-> "open", seconds |-> session[s].totalSeconds]
        /\ \A t \in Session : t # s => LedgerView'[t] = LedgerView[t]
    BY <1>1, <2>2, <2>3, <2>4 DEF LedgerView
  <2>7. LedgerView' = [LedgerView EXCEPT ![s].phase = "open"]
    BY <2>5, <2>6, LedgerPhase
  <2>8. \A t \in Session : WorkspaceOf(t) = WorkspaceOf(s) => LedgerView[t].phase # "open"
    BY <2>1 DEF LedgerView
  <2>9. LedgerView[s].phase = "unused"
    BY <2>5
  <2>10. Ledger!Open(s)
    BY <2>7, <2>8, <2>9 DEF Ledger!Open, Ledger!Session, Session,
       Ledger!WorkspaceOf, WorkspaceOf
  <2> QED
    BY <2>10
<1> QED
  BY <1>2, <1>3

\* A commit of a closer closes an entry or leaves the ledger alone.
LEMMA LedgerClose ==
  ASSUME IInv, NEW c \in Closer, CommitClose(c)
  PROVE  UNCHANGED LedgerView \/ \E s \in Session : Ledger!Close(s)
<1>1. UNCHANGED metered /\ TypeOK
  BY CloseEffect DEF IInv
<1>2. CASE UNCHANGED session
  BY <1>1, <1>2 DEF LedgerView
<1>3. CASE ~UNCHANGED session
  <2>1. PICK s \in Session, n \in Nat :
          /\ session[s].status = "RUNNING"
          /\ session' = [session EXCEPT ![s] = [@ EXCEPT !.status = "ENDED",
                                                      !.totalSeconds = n]]
    BY <1>1, <1>3, CloseEffect
  <2>2. \A t \in Session : t # s => session'[t] = session[t]
    BY <1>1, <2>1 DEF TypeOK
  <2>3. session'[s].status = "ENDED" /\ session'[s].totalSeconds = n
    BY <1>1, <2>1 DEF TypeOK, SessionRow
  <2>4. ~(metered[s].count > 0)
    BY <2>1 DEF IInv, ChargedOnceForStoredTotal
  <2>5. LedgerView[s].phase = "open"
    BY <2>1, <2>4 DEF LedgerView
  <2>6. LedgerView' = [LedgerView EXCEPT ![s] = [phase |-> "closed", seconds |-> n]]
    BY <1>1, <2>2, <2>3, <2>4 DEF LedgerView
  <2>7. LedgerView'[s].seconds = n
    BY <2>6 DEF LedgerView
  <2> QED
    BY <2>5, <2>6, <2>7 DEF Ledger!Close
<1> QED
  BY <1>2, <1>3

\* A POST charges a closed entry or leaves the ledger alone.
LEMMA LedgerCharge ==
  ASSUME IInv, NEW m \in Meter, PostMeterEvent(m)
  PROVE  UNCHANGED LedgerView \/ \E s \in Session : Ledger!Charge(s)
<1>1. UNCHANGED session /\ TypeOK
  BY PostEffect DEF IInv
<1>2. CASE UNCHANGED metered
  BY <1>1, <1>2 DEF LedgerView
<1>3. CASE ~UNCHANGED metered
  <2>1. PICK e \in Event : e \in meter[m].batch /\ Accept(e)
    BY <1>1, <1>3, PostEffect
  <2>2. /\ e.id \in Session
        /\ session[e.id].status = "ENDED"
        /\ e.valueSeconds = session[e.id].totalSeconds
    BY <2>1 DEF IInv, CopiesAgree, Event
  <2>3. /\ metered[e.id].count = 0
        /\ metered' = [metered EXCEPT ![e.id] = [count |-> 1, seconds |-> e.valueSeconds]]
    BY <1>1, <1>3, <2>1, AcceptEffect
  <2>4. metered \in [Session -> Metered]
    BY <1>1 DEF TypeOK
  <2>5. \A t \in Session : t # e.id => metered'[t] = metered[t]
    BY <2>2, <2>3, <2>4
  <2>6. metered'[e.id] = [count |-> 1, seconds |-> e.valueSeconds]
    BY <2>2, <2>3, <2>4
  <2>7. LedgerView[e.id] = [phase |-> "closed", seconds |-> e.valueSeconds]
    BY <2>2, <2>3 DEF LedgerView
  <2>8. /\ LedgerView'[e.id] = [phase |-> "charged", seconds |-> e.valueSeconds]
        /\ \A t \in Session : t # e.id => LedgerView'[t] = LedgerView[t]
    BY <1>1, <2>2, <2>5, <2>6 DEF LedgerView
  <2>9. LedgerView' = [LedgerView EXCEPT ![e.id].phase = "charged"]
    BY <2>2, <2>7, <2>8, LedgerPhase
  <2>10. LedgerView[e.id].phase = "closed"
    BY <2>7
  <2>11. Ledger!Charge(e.id)
    BY <2>9, <2>10 DEF Ledger!Charge
  <2> QED
    BY <2>2, <2>11
<1> QED
  BY <1>2, <1>3

\* Every step of the threads is a step of the ledger or changes nothing of it.
LEMMA LedgerStep == IInv /\ IInv' /\ [Next]_vars => [Ledger!LedgerNext]_LedgerView
<1> SUFFICES ASSUME IInv, [Next]_vars PROVE [Ledger!LedgerNext]_LedgerView
  OBVIOUS
<1>1. ASSUME NEW o \in Opener, CreateSession(o) PROVE [Ledger!LedgerNext]_LedgerView
  BY <1>1, LedgerOpen DEF Ledger!LedgerNext, Ledger!Session, Session
<1>2. ASSUME NEW c \in Closer, CommitClose(c) PROVE [Ledger!LedgerNext]_LedgerView
  BY <1>2, LedgerClose DEF Ledger!LedgerNext, Ledger!Session, Session
<1>3. ASSUME NEW m \in Meter, PostMeterEvent(m) PROVE [Ledger!LedgerNext]_LedgerView
  BY <1>3, LedgerCharge DEF Ledger!LedgerNext, Ledger!Session, Session
<1>4. ASSUME NEW m \in Meter, MarkSent(m) \/ MarkFailedAttempt(m)
      PROVE  UNCHANGED LedgerView
  <2>1. session \in [Session -> SessionRow] /\ TypeOK
    BY DEF IInv, TypeOK
  <2>2. ASSUME NEW t \in Session, session' = [session EXCEPT ![t].stripeMeterEventId = TRUE]
        PROVE  \A s \in Session : /\ session'[s].status = session[s].status
                                  /\ session'[s].totalSeconds = session[s].totalSeconds
    BY <2>1, <2>2 DEF SessionRow
  <2>3. \A s \in Session : /\ session'[s].status = session[s].status
                           /\ session'[s].totalSeconds = session[s].totalSeconds
    BY <1>4, <2>1, <2>2, MarkEffect DEF Event
  <2>4. UNCHANGED metered
    BY <1>4, <2>1, MarkEffect
  <2> QED
    BY <2>3, <2>4 DEF LedgerView
<1>5. CASE UNCHANGED <<session, metered>>
  BY <1>5 DEF LedgerView
<1> QED
  BY <1>1, <1>2, <1>3, <1>4, <1>5
     DEF Next, vars, StartUsageSessionForColdWorkspace, StartUsageSessionWithStatus,
         EndUsageSession, FinalizeUsageSessions, StampClose, MeterRead, BackoffElapses,
         Tick, Abort

\* Usage billing implements the ledger: with any number of requests, passes,
\* retries and crashes a session is opened, closed and charged in that order,
\* each at most once, and charged the seconds it was closed with.
THEOREM BillingIsALedger == Spec => ImplementsLedger
<1>1. Init => Ledger!LedgerInit
  BY LedgerStart
<1>2. IInv /\ IInv' /\ [Next]_vars => [Ledger!LedgerNext]_LedgerView
  BY LedgerStep
<1> QED
  BY <1>1, <1>2, Invariant, PTL DEF Spec, ImplementsLedger, Ledger!LedgerSpec
=============================================================================
