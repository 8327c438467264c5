--------------------------- MODULE WorkerLeadership ---------------------------
(***************************************************************************)
(* The leader lock of the worker (worker/src/index.ts): a session lock of  *)
(* the database decides who leads, a fencing token in the table            *)
(* worker_leader decides whose ticks go on.                                *)
(*                                                                         *)
(* The lock belongs to one of the pooled connections of a process, is      *)
(* granted again to the connection that has it and refused to the others,  *)
(* those of the same process included.  The token is current in memory     *)
(* before the row says so.  What can go wrong (a query that fails, a       *)
(* connection or a process that is lost, an upsert slower than the tick)   *)
(* goes wrong at most MaxFaults times.                                     *)
(***************************************************************************)
EXTENDS Naturals

CONSTANTS
    Workers,        \* worker processes
    Connections,    \* the pooled connections of each
    Tokens,         \* bound: fencing tokens (randomUUID, so that there always is a fresh one)
    MaxRetries,     \* MAX_LEADER_RETRIES
    MaxAttempts,    \* bound: acquireLeaderLock calls scheduled at a time in a process
    MaxFaults       \* bound: what goes wrong

ASSUME LeadershipAssumption ==
    Tokens \subseteq Nat /\ MaxRetries \in Nat \ {0} /\ MaxAttempts \in Nat \ {0} /\ MaxFaults \in Nat

VARIABLES
    process,    \* worker -> down, starting (main awaits the lock) or ticking
    isLeader,   \* worker -> whether it takes itself for the leader
    token,      \* worker -> currentFencingToken, {} or one
    retries,    \* worker -> leaderRetryCount
    scheduled,  \* worker -> calls of acquireLeaderLock scheduled
    upserts,    \* worker -> tokens whose upsert of the row is awaited
    peek,       \* worker -> the row its tick has read and not yet compared
    advisory,   \* who has the lock: {} or one <<worker, connection>>
    leaderRow,  \* the token in worker_leader, {} or one
    faults      \* what has gone wrong

leaderVars == <<process, isLeader, token, retries, scheduled, upserts, peek,
                advisory, leaderRow, faults>>

LeaderTypeOK ==
    /\ process \in [Workers -> {"down", "starting", "ticking"}]
    /\ isLeader \in [Workers -> BOOLEAN]
    /\ token \in [Workers -> SUBSET Tokens]
    /\ retries \in [Workers -> 0 .. MaxRetries]
    /\ scheduled \in [Workers -> 0 .. MaxAttempts]
    /\ upserts \in [Workers -> SUBSET Tokens]
    /\ peek \in [Workers -> SUBSET SUBSET Tokens]
    /\ advisory \subseteq Workers \X Connections
    /\ leaderRow \subseteq Tokens
    /\ faults \in 0 .. MaxFaults

LeaderInit ==
    /\ process = [w \in Workers |-> "down"]
    /\ isLeader = [w \in Workers |-> FALSE]
    /\ token = [w \in Workers |-> {}]
    /\ retries = [w \in Workers |-> 0]
    /\ scheduled = [w \in Workers |-> 0]
    /\ upserts = [w \in Workers |-> {}]
    /\ peek = [w \in Workers |-> {}]
    /\ advisory = {}
    /\ leaderRow = {}
    /\ faults = 0

Fault == faults < MaxFaults /\ faults' = faults + 1

Unused(t) ==
    /\ t \notin leaderRow
    /\ \A w \in Workers : t \notin token[w] \cup upserts[w] \cup UNION peek[w]

FreshToken == CHOOSE t \in Tokens : Unused(t)

-----------------------------------------------------------------------------
(* Start and end of a process.                                             *)

StartWorker(w) ==
    /\ process[w] = "down"
    /\ process' = [process EXCEPT ![w] = "starting"]
    /\ scheduled' = [scheduled EXCEPT ![w] = 1]
    /\ UNCHANGED <<isLeader, token, retries, upserts, peek, advisory, leaderRow, faults>>

\* The process is gone: the database releases the locks of its connections.
ProcessEnds(w) ==
    /\ process' = [process EXCEPT ![w] = "down"]
    /\ isLeader' = [isLeader EXCEPT ![w] = FALSE]
    /\ token' = [token EXCEPT ![w] = {}]
    /\ retries' = [retries EXCEPT ![w] = 0]
    /\ scheduled' = [scheduled EXCEPT ![w] = 0]
    /\ upserts' = [upserts EXCEPT ![w] = {}]
    /\ peek' = [peek EXCEPT ![w] = {}]
    /\ advisory' = {c \in advisory : c[1] # w}
    /\ UNCHANGED leaderRow

\* A signal, or an error nobody handles.
StopWorker(w) == process[w] # "down" /\ Fault /\ ProcessEnds(w)

-----------------------------------------------------------------------------
(* acquireLeaderLock.                                                      *)

\* The process leads, in its own mind, before its row is written.
TakeLock(w, c) ==
    /\ scheduled[w] > 0
    /\ advisory \subseteq {<<w, c>>}
    /\ \E t \in Tokens : Unused(t)
    /\ advisory' = {<<w, c>>}
    /\ isLeader' = [isLeader EXCEPT ![w] = TRUE]
    /\ retries' = [retries EXCEPT ![w] = 0]
    /\ token' = [token EXCEPT ![w] = {FreshToken}]
    /\ upserts' = [upserts EXCEPT ![w] = @ \cup {FreshToken}]
    /\ scheduled' = [scheduled EXCEPT ![w] = @ - 1]
    /\ UNCHANGED <<process, peek, leaderRow, faults>>

\* An attempt that failed is scheduled again, until the process gives up and exits.
\* Fault: it gives up and stays.
RetryOrStay(w, left) ==
    /\ retries' = [retries EXCEPT ![w] = IF @ < MaxRetries THEN @ + 1 ELSE @]
    /\ scheduled' = [scheduled EXCEPT ![w] =
                       IF retries[w] + 1 < MaxRetries /\ left < MaxAttempts
                       THEN left + 1 ELSE left]
    /\ process' = [process EXCEPT ![w] = "ticking"]
    /\ UNCHANGED <<isLeader, token, peek, advisory, leaderRow>>

RetryOrExit(w, left) ==
    \/ /\ retries[w] + 1 < MaxRetries
       /\ retries' = [retries EXCEPT ![w] = @ + 1]
       /\ scheduled' = [scheduled EXCEPT ![w] = IF left < MaxAttempts THEN left + 1 ELSE left]
       /\ process' = [process EXCEPT ![w] = "ticking"]
       /\ UNCHANGED <<isLeader, token, peek, advisory, leaderRow>>
    \/ /\ retries[w] + 1 >= MaxRetries
       /\ ProcessEnds(w)

\* Another connection has the lock, maybe one of this very process ...
LockRefused(w, c) ==
    /\ scheduled[w] > 0
    /\ ~(advisory \subseteq {<<w, c>>})
    /\ RetryOrExit(w, scheduled[w] - 1)
    /\ UNCHANGED faults
    /\ upserts' = [upserts EXCEPT ![w] = IF process'[w] = "down" THEN {} ELSE @]

\* ... or the query fails.
LockFails(w) ==
    /\ scheduled[w] > 0
    /\ Fault
    /\ RetryOrExit(w, scheduled[w] - 1)
    /\ upserts' = [upserts EXCEPT ![w] = IF process'[w] = "down" THEN {} ELSE @]

\* The row gets the token that was current when the upsert was called.
UpsertLeader(w) ==
    /\ \E t \in upserts[w] :
         /\ leaderRow' = {t}
         /\ upserts' = [upserts EXCEPT ![w] = @ \ {t}]
    /\ process' = [process EXCEPT ![w] = "ticking"]
    /\ UNCHANGED <<isLeader, token, retries, scheduled, peek, advisory, faults>>

\* The upsert fails: the attempt counts as failed, and the process as leader.
UpsertLeaderFails(w) ==
    /\ Fault
    /\ \E t \in upserts[w] :
         /\ RetryOrExit(w, scheduled[w])
         /\ upserts' = [upserts EXCEPT ![w] = IF process'[w] = "down" THEN {} ELSE @ \ {t}]

\* The database drops the connection that has the lock, and nobody notices.
LoseConnection ==
    /\ advisory # {} /\ Fault
    /\ advisory' = {}
    /\ UNCHANGED <<process, isLeader, token, retries, scheduled, upserts, peek, leaderRow>>

-----------------------------------------------------------------------------
(* verifyLeaderLock, at the start of each tick.                            *)

\* The row is read.  That an upsert is still awaited a second after it was called is a
\* fault (a slow database).
ReadLeader(w) ==
    /\ process[w] = "ticking" /\ isLeader[w] /\ token[w] # {} /\ peek[w] = {}
    /\ IF upserts[w] = {} THEN UNCHANGED faults ELSE Fault
    /\ peek' = [peek EXCEPT ![w] = {leaderRow}]
    /\ UNCHANGED <<process, isLeader, token, retries, scheduled, upserts, advisory, leaderRow>>

\* It is compared with the token current by then: with another one the process steps
\* down and tries again.
CompareToken(w) ==
    /\ peek[w] # {}
    /\ peek' = [peek EXCEPT ![w] = {}]
    /\ IF token[w] \in peek[w] /\ token[w] # {}
         THEN UNCHANGED <<isLeader, token, scheduled>>
         ELSE /\ isLeader' = [isLeader EXCEPT ![w] = FALSE]
              /\ token' = [token EXCEPT ![w] = {}]
              /\ scheduled' = [scheduled EXCEPT ![w] = IF @ < MaxAttempts THEN @ + 1 ELSE @]
    /\ UNCHANGED <<process, retries, upserts, advisory, leaderRow, faults>>

-----------------------------------------------------------------------------
TryLock(w) == \E c \in Connections : TakeLock(w, c) \/ LockRefused(w, c)

LeaderNext ==
    \/ LoseConnection
    \/ \E w \in Workers :
         \/ StartWorker(w) \/ StopWorker(w) \/ TryLock(w) \/ LockFails(w)
         \/ UpsertLeader(w) \/ UpsertLeaderFails(w) \/ ReadLeader(w) \/ CompareToken(w)

LeaderSpec ==
    /\ LeaderInit /\ [][LeaderNext]_leaderVars
    /\ \A w \in Workers :
          /\ WF_leaderVars(StartWorker(w)) /\ WF_leaderVars(TryLock(w))
          /\ WF_leaderVars(UpsertLeader(w))
          /\ WF_leaderVars(ReadLeader(w)) /\ WF_leaderVars(CompareToken(w))

-----------------------------------------------------------------------------
(* Properties.                                                             *)

Led == \E w \in Workers : process[w] = "ticking" /\ isLeader[w] /\ token[w] = leaderRow

\* Whenever a worker process runs, some worker's jobs run at last: a worker that has fenced itself off, whose
\* lock is held by another of its own connections, is led out of that by its exit and
\* restart (index.ts:149, :159).
EventuallyLed == (\E w \in Workers : process[w] # "down") ~> Led

\* The check at the start of a tick passes in one process at a time, lost locks, slow
\* upserts and lost connections included (index.ts:172).
OneLeads ==
    \A v, w \in Workers :
        isLeader[v] /\ isLeader[w] /\ token[v] = leaderRow /\ token[w] = leaderRow => v = w

\* The row names another, and no upsert of its own is on its way.
Fenced(w) == token[w] # {} /\ token[w] # leaderRow /\ upserts[w] = {}

\* A process that another has fenced off stays so as long as it keeps its token: no late
\* upsert of anybody brings it back.
FencedStaysOut == [][\A w \in Workers : Fenced(w) => Fenced(w)' \/ token'[w] # token[w]]_leaderVars

=============================================================================
