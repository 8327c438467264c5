---------------------------- MODULE UsageBilling ----------------------------
(***************************************************************************)
(* Usage sessions, the meter-event outbox and the metering job.            *)
(*                                                                         *)
(* Every await of the code is a step of its own, and every database        *)
(* transaction is one step.  The threads are requests of the API and       *)
(* passes of the worker's jobs; leaderTick has no re-entrancy guard, so a  *)
(* job may have several passes under way in one worker.  Any thread may    *)
(* stop between two of its steps (Abort): a crash, or a database error     *)
(* that leaves the function.                                               *)
(***************************************************************************)
EXTENDS Integers

CONSTANTS Workspace,     \* workspaces
          MaxSessions,   \* bound: usage sessions per workspace
          Opener,        \* threads that start a usage session
          Closer,        \* threads that close usage sessions
          Meter,         \* passes of processWorkspaceMeterEvents
          MaxAttempts,   \* maxAttempts of an outbox row
          MaxTime,       \* bound on the clock
          MaxAborts      \* bound on the aborted threads

ASSUME BillingAssumption ==
  /\ MaxSessions \in Nat
  /\ MaxAttempts \in Nat \ {0}
  /\ MaxTime \in Nat
  /\ MaxAborts \in Nat

Session == Workspace \X (1..MaxSessions)
WorkspaceOf(s) == s[1]

VARIABLES clock,     \* whole seconds
          session,   \* table usage_sessions
          outbox,    \* table workspace_meter_event_outbox, one row per session
          metered,   \* what Stripe has accepted for the identifier of a session
          opener,    \* per thread: the session it is about to insert
          closer,    \* per thread: sessions still to close, and the one stamped
          meter,     \* per pass: rows still to send, and the one being sent
          aborts     \* threads aborted so far

vars == <<clock, session, outbox, metered, opener, closer, meter, aborts>>

SessionRow == [status : {"none", "RUNNING", "ENDED"}, startTime : Nat,
               totalSeconds : Nat, stripeMeterEventId : BOOLEAN]
OutboxRow  == [status : {"none", "PENDING", "RETRY", "SENT", "FAILED"},
               valueSeconds : Nat, attemptCount : Nat, due : BOOLEAN]
Metered    == [count : Nat, seconds : Nat]
Insert     == [ws : Workspace, startTime : Nat]
Closing    == [id : Session, totalSeconds : Nat]
Event      == [id : Session, valueSeconds : Nat, attemptCount : Nat]

IdleCloser == [todo |-> {}, cur |-> {}]
IdleMeter  == [batch |-> {}, cur |-> {}, pc |-> "idle"]

TypeOK ==
  /\ clock \in Nat
  /\ session \in [Session -> SessionRow]
  /\ outbox \in [Session -> OutboxRow]
  /\ metered \in [Session -> Metered]
  /\ opener \in [Opener -> SUBSET Insert]
  /\ closer \in [Closer -> [todo : SUBSET Session, cur : SUBSET Closing]]
  /\ meter \in [Meter -> [batch : SUBSET Event, cur : SUBSET Event,
                          pc : {"idle", "accepted", "failed"}]]
  /\ aborts \in Nat

Init ==
  /\ clock = 0
  /\ session = [s \in Session |-> [status |-> "none", startTime |-> 0,
                                   totalSeconds |-> 0, stripeMeterEventId |-> FALSE]]
  /\ outbox = [s \in Session |-> [status |-> "none", valueSeconds |-> 0,
                                  attemptCount |-> 0, due |-> FALSE]]
  /\ metered = [s \in Session |-> [count |-> 0, seconds |-> 0]]
  /\ opener = [o \in Opener |-> {}]
  /\ closer = [c \in Closer |-> IdleCloser]
  /\ meter = [m \in Meter |-> IdleMeter]
  /\ aborts = 0

RunningSessions(w) == {s \in Session : WorkspaceOf(s) = w /\ session[s].status = "RUNNING"}
UnusedSessions(w)  == {s \in Session : WorkspaceOf(s) = w /\ session[s].status = "none"}

-----------------------------------------------------------------------------
(* Opening.  startTime is stamped before the insert is sent.               *)

\* Cold workspaces: the findFirst guard, then the insert is prepared.
StartUsageSessionForColdWorkspace(o, w) ==
  /\ opener[o] = {}
  /\ UnusedSessions(w) # {}
  /\ RunningSessions(w) = {}
  /\ opener' = [opener EXCEPT ![o] = {[ws |-> w, startTime |-> clock]}]
  /\ UNCHANGED <<clock, session, outbox, metered, closer, meter, aborts>>

\* Warm workspaces: no guard, the partial unique index is the only one.
StartUsageSessionWithStatus(o, w) ==
  /\ opener[o] = {}
  /\ UnusedSessions(w) # {}
  /\ opener' = [opener EXCEPT ![o] = {[ws |-> w, startTime |-> clock]}]
  /\ UNCHANGED <<clock, session, outbox, metered, closer, meter, aborts>>

\* Fault: no partial unique index.
CreateSessionNoIndex(o) ==
  \E r \in opener[o] :
    /\ \E s \in UnusedSessions(r.ws) :
         session' = [session EXCEPT ![s] = [@ EXCEPT !.status = "RUNNING",
                                                     !.startTime = r.startTime]]
    /\ opener' = [opener EXCEPT ![o] = {}]
    /\ UNCHANGED <<clock, outbox, metered, closer, meter, aborts>>

\* The insert.  A RUNNING session of the workspace makes it fail with P2002,
\* which both callers swallow.
CreateSession(o) ==
  \E r \in opener[o] :
    /\ IF RunningSessions(r.ws) # {}
       THEN UNCHANGED session
       ELSE \E s \in UnusedSessions(r.ws) :
              session' = [session EXCEPT ![s] = [@ EXCEPT !.status = "RUNNING",
                                                          !.startTime = r.startTime]]
    /\ opener' = [opener EXCEPT ![o] = {}]
    /\ UNCHANGED <<clock, outbox, metered, closer, meter, aborts>>

-----------------------------------------------------------------------------
(* Closing.                                                                *)

IsIdleCloser(c) == closer[c] = IdleCloser

\* API: findFirst of a RUNNING session.
EndUsageSession(c, w) ==
  /\ IsIdleCloser(c)
  /\ \E s \in RunningSessions(w) : closer' = [closer EXCEPT ![c].todo = {s}]
  /\ UNCHANGED <<clock, session, outbox, metered, opener, meter, aborts>>

\* Worker (cleanup job and warm-pool shrink): findMany of the RUNNING sessions.
FinalizeUsageSessions(c, w) ==
  /\ IsIdleCloser(c)
  /\ RunningSessions(w) # {}
  /\ closer' = [closer EXCEPT ![c].todo = RunningSessions(w)]
  /\ UNCHANGED <<clock, session, outbox, metered, opener, meter, aborts>>

\* endTime = now and the total are computed before the transaction is sent.
\* The startTime used is the one read; a session's startTime never changes.
StampClose(c) ==
  /\ closer[c].cur = {}
  /\ \E s \in closer[c].todo :
       LET total == IF session[s].startTime <= clock
                    THEN clock - session[s].startTime ELSE 0
       IN  closer' = [closer EXCEPT ![c] =
                        [todo |-> @.todo \ {s},
                         cur  |-> {[id |-> s, totalSeconds |-> total]}]]
  /\ UNCHANGED <<clock, session, outbox, metered, opener, meter, aborts>>

\* Fault: the update is not filtered on status RUNNING, so the loser of a race
\* closes the session a second time.
CommitCloseUnfiltered(c) ==
  \E r \in closer[c].cur :
    /\ session' = [session EXCEPT ![r.id] = [@ EXCEPT !.status = "ENDED",
                                                      !.totalSeconds = r.totalSeconds]]
    /\ outbox' = [outbox EXCEPT ![r.id] = [@ EXCEPT !.status = "PENDING",
                                                    !.valueSeconds = r.totalSeconds,
                                                    !.due = TRUE]]
    /\ closer' = [closer EXCEPT ![c].cur = {}]
    /\ UNCHANGED <<clock, metered, opener, meter, aborts>>

\* Fault: the upsert is outside the transaction and survives a P2025.
CommitCloseNotAtomic(c) ==
  \E r \in closer[c].cur :
    /\ session' = IF session[r.id].status = "RUNNING"
                  THEN [session EXCEPT ![r.id] = [@ EXCEPT !.status = "ENDED",
                                                           !.totalSeconds = r.totalSeconds]]
                  ELSE session
    /\ outbox' = [outbox EXCEPT ![r.id] = [@ EXCEPT !.status = "PENDING",
                                                    !.valueSeconds = r.totalSeconds,
                                                    !.due = TRUE]]
    /\ closer' = [closer EXCEPT ![c].cur = {}]
    /\ UNCHANGED <<clock, metered, opener, meter, aborts>>

\* One transaction: the update filtered on status RUNNING and the outbox
\* upsert.  A session another thread has closed gives P2025: nothing is written.
CommitClose(c) ==
  \E r \in closer[c].cur :
    /\ IF session[r.id].status = "RUNNING"
       THEN /\ session' = [session EXCEPT ![r.id] = [@ EXCEPT !.status = "ENDED",
                                                              !.totalSeconds = r.totalSeconds]]
            /\ outbox' = [outbox EXCEPT ![r.id] = [@ EXCEPT !.status = "PENDING",
                                                            !.valueSeconds = r.totalSeconds,
                                                            !.due = TRUE]]
       ELSE UNCHANGED <<session, outbox>>
    /\ closer' = [closer EXCEPT ![c].cur = {}]
    /\ UNCHANGED <<clock, metered, opener, meter, aborts>>

-----------------------------------------------------------------------------
(* Metering.                                                               *)

DueRows == {s \in Session : outbox[s].status \in {"PENDING", "RETRY"} /\ outbox[s].due}

\* findMany of the rows that are due: a pass works on this copy to its end.
MeterRead(m) ==
  /\ meter[m] = IdleMeter
  /\ DueRows # {}
  /\ meter' = [meter EXCEPT ![m].batch =
                 {[id |-> s, valueSeconds |-> outbox[s].valueSeconds,
                   attemptCount |-> outbox[s].attemptCount] : s \in DueRows}]
  /\ UNCHANGED <<clock, session, outbox, metered, opener, closer, aborts>>

\* Fault: a meter event without an identifier is added each time it is sent.
AcceptAgain(e) ==
  metered' = [metered EXCEPT ![e.id] = [count |-> @.count + 1,
                                        seconds |-> @.seconds + e.valueSeconds]]

\* Stripe keeps one meter event per identifier, the id of the session.
Accept(e) ==
  metered' = [metered EXCEPT ![e.id] =
                IF @.count > 0 THEN @
                ELSE [count |-> 1, seconds |-> e.valueSeconds]]

\* The customer lookup and the POST of one row of the batch: accepted and
\* answered; accepted but the answer lost or late; refused, or never received.
PostMeterEvent(m) ==
  /\ meter[m].cur = {}
  /\ \E e \in meter[m].batch, pc \in {"accepted", "failed"} :
       /\ meter' = [meter EXCEPT ![m] =
                      [batch |-> @.batch \ {e}, cur |-> {e}, pc |-> pc]]
       /\ \/ Accept(e)
          \/ pc = "failed" /\ UNCHANGED metered
  /\ UNCHANGED <<clock, session, outbox, opener, closer, aborts>>

\* One transaction: the row becomes SENT and the session gets the event id.
MarkSent(m) ==
  /\ meter[m].pc = "accepted"
  /\ \E e \in meter[m].cur :
       /\ outbox' = [outbox EXCEPT ![e.id] = [@ EXCEPT !.status = "SENT",
                                                       !.attemptCount = outbox[e.id].attemptCount + 1,
                                                       !.due = FALSE]]
       /\ session' = [session EXCEPT ![e.id].stripeMeterEventId = TRUE]
  /\ meter' = [meter EXCEPT ![m] = [@ EXCEPT !.cur = {}, !.pc = "idle"]]
  /\ UNCHANGED <<clock, metered, opener, closer, aborts>>

\* Fault: a failed attempt is never the last one.
MarkFailedAttemptForever(m) ==
  /\ meter[m].pc \in {"accepted", "failed"}
  /\ \E e \in meter[m].cur :
       outbox' = [outbox EXCEPT ![e.id] = [@ EXCEPT !.status = "RETRY",
                                                    !.due = FALSE]]
  /\ meter' = [meter EXCEPT ![m] = [@ EXCEPT !.cur = {}, !.pc = "idle"]]
  /\ UNCHANGED <<clock, session, metered, opener, closer, aborts>>

\* The catch block, reached from the POST or from a failure of the transaction
\* above.  Exhaustion is judged on the attemptCount the pass read; the row is
\* updated by id, whatever its status has become.
MarkFailedAttempt(m) ==
  /\ meter[m].pc \in {"accepted", "failed"}
  /\ \E e \in meter[m].cur :
       outbox' = [outbox EXCEPT ![e.id] = [@ EXCEPT
                    !.status = IF e.attemptCount + 1 >= MaxAttempts
                               THEN "FAILED" ELSE "RETRY",
                    !.attemptCount = outbox[e.id].attemptCount + 1,
                    !.due = FALSE]]
  /\ meter' = [meter EXCEPT ![m] = [@ EXCEPT !.cur = {}, !.pc = "idle"]]
  /\ UNCHANGED <<clock, session, metered, opener, closer, aborts>>

\* nextAttemptAt of a row that waits for a retry is reached.
BackoffElapses(s) ==
  /\ outbox[s].status = "RETRY"
  /\ ~outbox[s].due
  /\ outbox' = [outbox EXCEPT ![s].due = TRUE]
  /\ UNCHANGED <<clock, session, metered, opener, closer, meter, aborts>>

-----------------------------------------------------------------------------
(* Environment.                                                            *)

Tick ==
  /\ clock < MaxTime
  /\ clock' = clock + 1
  /\ UNCHANGED <<session, outbox, metered, opener, closer, meter, aborts>>

\* The process exits, or an error leaves the thread: what it held is lost.
Abort ==
  /\ aborts < MaxAborts
  /\ aborts' = aborts + 1
  /\ \/ /\ \E o \in Opener : opener' = [opener EXCEPT ![o] = {}]
        /\ UNCHANGED <<closer, meter>>
     \/ /\ \E c \in Closer : closer' = [closer EXCEPT ![c] = IdleCloser]
        /\ UNCHANGED <<opener, meter>>
     \/ /\ \E m \in Meter : meter' = [meter EXCEPT ![m] = IdleMeter]
        /\ UNCHANGED <<opener, closer>>
  /\ UNCHANGED <<clock, session, outbox, metered>>

Next ==
  \/ \E o \in Opener : \/ CreateSession(o)
                       \/ \E w \in Workspace : \/ StartUsageSessionForColdWorkspace(o, w)
                                               \/ StartUsageSessionWithStatus(o, w)
  \/ \E c \in Closer : \/ StampClose(c)
                       \/ CommitClose(c)
                       \/ \E w \in Workspace : \/ EndUsageSession(c, w)
                                               \/ FinalizeUsageSessions(c, w)
  \/ \E m \in Meter : \/ MeterRead(m)
                      \/ PostMeterEvent(m)
                      \/ MarkSent(m)
                      \/ MarkFailedAttempt(m)
  \/ \E s \in Session : BackoffElapses(s)
  \/ Tick
  \/ Abort

Spec == Init /\ [][Next]_vars

\* leaderTick runs every second while the process lives, and a pass that has
\* begun runs to its end: the metering steps are weakly fair.  Nothing makes a
\* session open or close, so those threads are not.
MeteringFairness ==
  /\ \A m \in Meter : WF_vars(MeterRead(m)) /\ WF_vars(PostMeterEvent(m))
                      /\ WF_vars(MarkSent(m) \/ MarkFailedAttempt(m))
  /\ \A s \in Session : WF_vars(BackoffElapses(s))

FairSpec == Spec /\ MeteringFairness

-----------------------------------------------------------------------------
(* Properties.                                                             *)

\* INV-1 of docs/billing-invariants.md: two openers that both pass the guard
\* still leave one RUNNING session per workspace.
OneRunningSession ==
  \A s, t \in Session :
    /\ session[s].status = "RUNNING"
    /\ session[t].status = "RUNNING"
    /\ WorkspaceOf(s) = WorkspaceOf(t)
    => s = t

\* INV-2: of the closers that read a session while it was RUNNING exactly one
\* closes it; nobody reopens it or changes its total afterwards.
EndedIsFinal ==
  [][\A s \in Session : session[s].status = "ENDED" =>
        /\ session'[s].status = "ENDED"
        /\ session'[s].totalSeconds = session[s].totalSeconds]_vars

\* INV-3 and INV-6: a session is ENDED exactly when it has an outbox row, and
\* the row carries the total of the session, whichever closer won.
EndedIffEnqueued ==
  \A s \in Session :
    /\ session[s].status = "ENDED" <=> outbox[s].status # "none"
    /\ session[s].status = "ENDED" => outbox[s].valueSeconds = session[s].totalSeconds

\* A stale batch, a retry after a lost answer and an overlapping pass never
\* charge a session that is still open, charge it twice, or charge a number of
\* seconds that is not the one stored.
ChargedOnceForStoredTotal ==
  \A s \in Session : metered[s].count > 0 =>
    /\ metered[s].count = 1
    /\ session[s].status = "ENDED"
    /\ metered[s].seconds = session[s].totalSeconds

\* A row marked SENT, and a session with a Stripe event id, was accepted by
\* Stripe: revenue is never dropped by a pass that only thinks it succeeded.
SentWasCharged ==
  \A s \in Session :
    outbox[s].status = "SENT" \/ session[s].stripeMeterEventId => metered[s].count > 0

\* Every closed session is eventually settled, charged or dead-lettered, and
\* stays settled, in spite of retries and of passes that overlap.
EventuallySettled ==
  \A s \in Session :
    session[s].status = "ENDED" ~> [](outbox[s].status \in {"SENT", "FAILED"})

\* The billing tables and Stripe, together, are a ledger.
LedgerView ==
  [s \in Session |->
     [phase   |-> IF metered[s].count > 0 THEN "charged"
                  ELSE IF session[s].status = "ENDED" THEN "closed"
                  ELSE IF session[s].status = "RUNNING" THEN "open"
                  ELSE "unused",
      seconds |-> IF metered[s].count > 0 THEN metered[s].seconds
                  ELSE session[s].totalSeconds]]

Ledger == INSTANCE BillingLedger WITH ledger <- LedgerView

\* Refinement: whatever the threads do, the ledger only opens, closes, charges.
ImplementsLedger == Ledger!LedgerSpec
=============================================================================
