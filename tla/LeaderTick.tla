------------------------------ MODULE LeaderTick ------------------------------
(***************************************************************************)
(* leaderTick (worker/src/index.ts:233): every second the leader's timer   *)
(* starts a tick, which runs those of its jobs that are due one after the  *)
(* other.  A tick does not wait for the one before it: ticks overlap, up   *)
(* to MaxTicks of them here.  A job may never return (MaxHangs times).     *)
(***************************************************************************)
EXTENDS Naturals, FiniteSets

CONSTANTS
    Jobs,       \* number of jobs of a tick: 14, in the order they are run
    MaxTicks,   \* bound: ticks under way at a time
    MaxHangs    \* bound: job runs that never return

ASSUME TickAssumption == Jobs \in Nat \ {0} /\ MaxHangs \in Nat /\ MaxTicks \in Nat

VARIABLES
    due,        \* jobs whose interval has passed since they were last started
    ticks,      \* tick -> the job it is at, whether it is running it, and the jobs that
                \* its `now' finds due
    younger     \* tick -> the ticks that took their `now' after it

tickVars == <<due, ticks, younger>>

TickSlots == 1 .. MaxTicks

NoTick == [at |-> 0, running |-> FALSE, hangs |-> FALSE, finds |-> {}]

TickTypeOK ==
    /\ due \subseteq 1 .. Jobs
    /\ ticks \in [TickSlots -> [at : 0 .. Jobs, running : BOOLEAN, hangs : BOOLEAN,
                                finds : SUBSET (1 .. Jobs)]]
    /\ younger \in [TickSlots -> SUBSET TickSlots]

\* All jobs are due when the worker starts.
TickInit ==
    /\ due = 1 .. Jobs
    /\ ticks = [k \in TickSlots |-> NoTick] /\ younger = [k \in TickSlots |-> {}]

JobDue(j) == j \notin due /\ due' = due \cup {j} /\ UNCHANGED <<ticks, younger>>

\* `now' is taken: the latest of all the ticks under way.
Started(k) ==
    /\ ticks[k].at = 0
    /\ ticks' = [ticks EXCEPT ![k] = [at |-> 1, running |-> FALSE, hangs |-> FALSE, finds |-> due]]
    /\ younger' = [i \in TickSlots |-> IF i = k \/ ticks[i].at = 0 THEN {} ELSE younger[i] \cup {k}]
    /\ UNCHANGED due

\* Fault: a guard against overlapping ticks.
StartTickAlone(k) == Started(k) /\ \A i \in TickSlots : ticks[i].at = 0

\* The timer fires (and the lock is verified, which WorkerLeadership models).
StartTick(k) == Started(k)

\* Fault: one past the last job.
NextJobOff(k) == IF ticks[k].at > Jobs THEN 0 ELSE ticks[k].at + 1

NextJob(k) == IF ticks[k].at = Jobs THEN 0 ELSE ticks[k].at + 1

\* The job is stamped with the tick's own `now' before it runs: no older tick finds it due,
\* a younger one may, if its `now' is an interval later (and so may the next, by JobDue).
StartJob(k) ==
    LET j == ticks[k].at IN
    /\ j # 0 /\ ~ticks[k].running /\ j \in ticks[k].finds
    /\ due' = due \ {j}
    /\ \E still \in SUBSET younger[k] :
         ticks' = [i \in TickSlots |->
                     IF i = k THEN [ticks[k] EXCEPT !.running = TRUE]
                     ELSE IF i \in still THEN ticks[i]
                     ELSE [ticks[i] EXCEPT !.finds = @ \ {j}]]
    /\ UNCHANGED younger

\* On to the next job, or the tick is over.
Passed(k) ==
    /\ ticks' = [ticks EXCEPT ![k] =
                   IF NextJob(k) = 0 THEN NoTick
                   ELSE [at |-> NextJob(k), running |-> FALSE, hangs |-> FALSE,
                         finds |-> ticks[k].finds]]
    /\ younger' = IF NextJob(k) = 0 THEN [younger EXCEPT ![k] = {}] ELSE younger
    /\ UNCHANGED due

SkipJob(k) ==
    /\ ticks[k].at # 0 /\ ~ticks[k].running /\ ticks[k].at \notin ticks[k].finds
    /\ Passed(k)

\* It returns or throws, which is logged ...
EndJob(k) == ticks[k].running /\ ~ticks[k].hangs /\ Passed(k)

\* ... or never does.
JobHangs(k) ==
    /\ ticks[k].running /\ ~ticks[k].hangs
    /\ Cardinality({i \in TickSlots : ticks[i].hangs}) < MaxHangs
    /\ ticks' = [ticks EXCEPT ![k].hangs = TRUE]
    /\ UNCHANGED <<due, younger>>

WithinTick(k) == StartTick(k) \/ StartJob(k) \/ SkipJob(k) \/ EndJob(k)

TickNext ==
    \/ \E j \in 1 .. Jobs : JobDue(j)
    \/ \E k \in TickSlots : WithinTick(k) \/ JobHangs(k)

TickSpec ==
    /\ TickInit /\ [][TickNext]_tickVars
    /\ \A k \in TickSlots : WF_tickVars(WithinTick(k))

\* Once ticks fire, a job that is due is at last started, also when others hang: the ticks
\* do not wait for each other, and no tick takes a job from another by its older `now'.
DueJobStarts ==
    \A j \in 1 .. Jobs : (j \in due /\ \E k \in TickSlots : ticks[k].at # 0) ~> j \notin due
=============================================================================
