----------------------- MODULE WorkspaceCleanupProofs -----------------------
(***************************************************************************)
(* Proofs about WorkspaceCleanup, for every set of workspaces and passes:  *)
(* what is taken down is given back in order and to the last, no cleanup   *)
(* is dropped, and every step is one of the contract in Teardown.          *)
(***************************************************************************)
EXTENDS WorkspaceCleanup, TLAPS

\* What an attempt has released by the time it is at the step pc.
Behind(pc) ==
  CASE pc = "vm"         -> {"endpoint", "lease"}
    [] pc = "gpu"        -> {"endpoint", "lease", "vm"}
    [] pc = "allocation" -> {"endpoint", "lease", "vm", "gpu"}
    [] pc \in {"endpoint", "terminate", "done"} -> Resource
    [] OTHER             -> {}

OneJob == \A c \in Cleaner : \A v, w \in cleaner[c].cur : v = w

ReleasedBehind == \A c \in Cleaner : \A w \in cleaner[c].cur :
                    held[w] \cap Behind(cleaner[c].pc) = {}

LastIsExhausted == \A c \in Cleaner : \A w \in cleaner[c].cur :
                     cleaner[c].last => job[w].attemptCount = MaxAttempts

\* A pass works on jobs that are in the table, and only a cleanup ends a workspace.
JobIsThere ==
  /\ \A c \in Cleaner : \A w \in cleaner[c].todo \cup cleaner[c].cur : job[w].status # "none"
  /\ \A w \in Workspace : status[w] = "TERMINATED" => job[w].status # "none"

IInv == /\ TypeOK
        /\ OneJob
        /\ ReleasedBehind
        /\ LastIsExhausted
        /\ JobIsThere
        /\ AllocationReleasedAfterVm
        /\ NothingLeftBehind

\* A step keeps IInv when every row of a workspace whose cleanup was asked for
\* loses resources, all rows in the right order, and every pass drops its job, stays where it is or fails, or moves on with what
\* is behind it released.
RowKept(w) ==
  /\ held'[w] \subseteq held[w] \/ job[w].status = "none"
  /\ "vm" \in held'[w] => "allocation" \in held'[w]
  /\ status'[w] = "TERMINATED" \/ job'[w].status = "DONE" => held'[w] = {}
  /\ job[w].attemptCount = MaxAttempts => job'[w].attemptCount = MaxAttempts

PassStays(c) ==
  /\ cleaner'[c].cur = cleaner[c].cur
  /\ cleaner'[c].last = cleaner[c].last
  /\ cleaner'[c].pc \in {cleaner[c].pc, "failed"}

PassMoves(c) == \E w \in Workspace :
  /\ cleaner'[c].cur = {w}
  /\ held'[w] \cap Behind(cleaner'[c].pc) = {}
  /\ cleaner'[c].last => job'[w].attemptCount = MaxAttempts

PassKept(c) == cleaner'[c].cur = {} \/ PassStays(c) \/ PassMoves(c)

-----------------------------------------------------------------------------
(* Types.                                                                   *)

\* The initial tables and idle threads are well typed.
LEMMA TypeInit == ASSUME Init PROVE TypeOK
<1>1. 0 \in 0..MaxAttempts
  BY CleanupAssumption
<1> QED
  BY <1>1 DEF Init, TypeOK, Status, Resource, EntryPoint, JobRow, Active, Pass, Wait,
              IdlePass, IdleWait

\* An idle pass is a pass.
LEMMA IdlePassType == IdlePass \in Pass
BY DEF IdlePass, Pass

\* Changing one field of a row, a pass or a wait keeps its type.
LEMMA JobTypes ==
  ASSUME TypeOK, NEW w \in Workspace, NEW d \in BOOLEAN
  PROVE  /\ \A s \in Active \cup {"none", "DONE", "FAILED"} :
              [job EXCEPT ![w] = [@ EXCEPT !.status = s, !.due = d]] \in [Workspace -> JobRow]
         /\ \A s \in Active, n \in 0..MaxAttempts :
              [job EXCEPT ![w] = [@ EXCEPT !.status = s, !.attemptCount = n]]
                \in [Workspace -> JobRow]
         /\ [job EXCEPT ![w].due = d] \in [Workspace -> JobRow]
<1>1. job \in [Workspace -> JobRow]
  BY DEF TypeOK
<1> QED
  BY <1>1 DEF JobRow

\* Enqueueing, or restarting, a cleanup job keeps the job table's type.
LEMMA UpsertType ==
  ASSUME TypeOK, NEW w \in Workspace, UpsertPending(w)
  PROVE  job' \in [Workspace -> JobRow]
<1>1. "PENDING" \in Active \cup {"none", "DONE", "FAILED"}
  BY DEF Active
<1> QED
  BY <1>1, JobTypes DEF UpsertPending

\* The ways in which a step writes the state of a cleanup pass.
LEMMA PassTypes ==
  ASSUME TypeOK, NEW c \in Cleaner, NEW pc \in CleanupPC \cup {"idle", "sweep", "jobs"},
         NEW A \in SUBSET Workspace, NEW B \in SUBSET Workspace, NEW l \in BOOLEAN
  PROVE  /\ [cleaner EXCEPT ![c].pc = pc] \in [Cleaner -> Pass]
         /\ [cleaner EXCEPT ![c].stale = A] \in [Cleaner -> Pass]
         /\ [cleaner EXCEPT ![c] = [@ EXCEPT !.creating = A, !.stale = B]] \in [Cleaner -> Pass]
         /\ [cleaner EXCEPT ![c] = [@ EXCEPT !.pc = pc, !.cur = A, !.todo = B, !.last = l]]
              \in [Cleaner -> Pass]
         /\ [cleaner EXCEPT ![c] = IdlePass] \in [Cleaner -> Pass]
         /\ [cleaner EXCEPT ![c] = [IdlePass EXCEPT !.pc = pc, !.todo = A]] \in [Cleaner -> Pass]
         /\ [cleaner EXCEPT ![c] = [IdlePass EXCEPT !.pc = pc, !.stale = A, !.creating = B]]
              \in [Cleaner -> Pass]
<1>1. cleaner \in [Cleaner -> Pass]
  BY DEF TypeOK
<1> QED
  BY <1>1, ZenonT(30) DEF Pass, IdlePass

\* The ways in which a step writes the state of a waiting pass.
LEMMA WaitTypes ==
  ASSUME TypeOK, NEW t \in Waiter, NEW pc \in {"idle", "mark", "open", "timeout", "enqueue"},
         NEW A \in SUBSET Workspace, NEW B \in SUBSET Workspace
  PROVE  /\ [waiter EXCEPT ![t].todo = A] \in [Waiter -> Wait]
         /\ [waiter EXCEPT ![t].pc = pc] \in [Waiter -> Wait]
         /\ [waiter EXCEPT ![t] = [@ EXCEPT !.pc = pc, !.cur = A]] \in [Waiter -> Wait]
         /\ [waiter EXCEPT ![t] = [pc |-> pc, cur |-> A, todo |-> B]] \in [Waiter -> Wait]
<1>1. waiter \in [Waiter -> Wait]
  BY DEF TypeOK
<1> QED
  BY <1>1 DEF Wait

\* Setting a status, or releasing resources, keeps the types of the tables.
LEMMA TableTypes ==
  ASSUME TypeOK, NEW w \in Workspace, NEW s \in Status, NEW R
  PROVE  /\ [status EXCEPT ![w] = s] \in [Workspace -> Status]
         /\ [held EXCEPT ![w] = @ \ R] \in [Workspace -> SUBSET Resource]
         /\ [late EXCEPT ![w] = @ \ R] \in [Workspace -> SUBSET EntryPoint]
BY DEF TypeOK

\* A pass works on workspaces.
LEMMA WorkerTypes ==
  ASSUME TypeOK, NEW c \in Cleaner
  PROVE  \A w \in cleaner[c].cur \cup cleaner[c].todo \cup cleaner[c].stale
                    \cup cleaner[c].creating : w \in Workspace
<1>1. cleaner[c] \in Pass
  BY DEF TypeOK
<1> QED
  BY <1>1 DEF Pass

\* Steps of the requests and of the agent.
RequestStep(w) ==
  \/ TerminateRead(w) \/ IdleTerminationRead(w) \/ QueueTermination(w)
  \/ MarkTerminating(w) \/ EnqueueCleanup(w) \/ BackoffElapses(w)
  \/ Heartbeat(w) \/ HeartbeatAges(w) \/ VerifyRead(w) \/ VerifyWrite(w)
  \/ FreeStuckGpu(w) \/ ReleaseLeakedPort(w)

WaiterStep(t) ==
  \/ WaitingRead(t) \/ WaitingCheck(t) \/ MarkRunning(t)
  \/ StartUsageSessionForColdWorkspace(t) \/ WithinTimeout(t)
  \/ ExpireWaiting(t) \/ EnqueueExpired(t)

\* Steps of a launch.
LaunchMove(l) == AllocatePorts(l) \/ UpsertEndpoint(l) \/ StartUsageSessionWithStatus(l)

SweepStep(c) == \E stale, creating \in SUBSET Workspace : SweepRead(c, stale, creating)

\* A step is one of a cleanup pass, or of somebody else.
LEMMA NextCases ==
  ASSUME Next
  PROVE  \/ \E c \in Cleaner : CleanupStep(c) \/ StepFails(c) \/ SweepStep(c)
         \/ \E t \in Waiter : WaiterStep(t)
         \/ \E w \in Workspace : RequestStep(w)
         \/ \E l \in Launch : LaunchMove(l)
         \/ CheckStuckGpus \/ CheckPortLeaks \/ WorkerCrash
BY DEF Next, SweepStep, WaiterStep, RequestStep, LaunchMove

\* Requests, and the jobs that terminate, keep the types.
LEMMA RequestType ==
  ASSUME TypeOK, NEW w \in Workspace, RequestStep(w)
  PROVE  TypeOK'
<1>1. CASE TerminateRead(w)
  BY <1>1 DEF TypeOK, TerminateRead, tables
<1>2. CASE IdleTerminationRead(w)
  BY <1>2 DEF TypeOK, IdleTerminationRead, tables
<1>3. CASE QueueTermination(w)
  BY <1>3, UpsertType, TableTypes DEF TypeOK, QueueTermination, SetStatus, Status
<1>4. CASE MarkTerminating(w)
  BY <1>4, TableTypes DEF TypeOK, MarkTerminating, SetStatus, Status
<1>5. CASE EnqueueCleanup(w)
  BY <1>5, UpsertType DEF TypeOK, EnqueueCleanup
<1>6. CASE BackoffElapses(w)
  BY <1>6, JobTypes DEF TypeOK, BackoffElapses, threads
<1>7. CASE Heartbeat(w)
  BY <1>7 DEF TypeOK, Heartbeat, tables, threads
<1>8. CASE HeartbeatAges(w)
  BY <1>8 DEF TypeOK, HeartbeatAges, tables, threads
<1>9. CASE VerifyRead(w)
  BY <1>9 DEF TypeOK, VerifyRead, tables
<1>10. CASE VerifyWrite(w)
  BY <1>10, TableTypes DEF TypeOK, VerifyWrite, SetStatus, Status
<1>11. CASE FreeStuckGpu(w)
  <2>1. repair' \in [gpus : SUBSET Workspace, endpoints : SUBSET Workspace]
    BY <1>11 DEF TypeOK, FreeStuckGpu
  <2> QED
    BY <1>11, <2>1, TableTypes DEF TypeOK, FreeStuckGpu, Drop, Status
<1>12. CASE ReleaseLeakedPort(w)
  <2>1. repair' \in [gpus : SUBSET Workspace, endpoints : SUBSET Workspace]
    BY <1>12 DEF TypeOK, ReleaseLeakedPort
  <2> QED
    BY <1>12, <2>1, TableTypes DEF TypeOK, ReleaseLeakedPort, Drop, Status
<1> QED
  BY <1>1, <1>2, <1>3, <1>4, <1>5, <1>6, <1>7, <1>8, <1>9, <1>10, <1>11, <1>12
     DEF RequestStep

\* What a launch takes, and the workspace it has assigned.
LEMMA TakeType ==
  ASSUME TypeOK, NEW w \in Workspace, NEW what \in SUBSET EntryPoint, Take(w, what)
  PROVE  held' \in [Workspace -> SUBSET Resource] /\ late' \in [Workspace -> SUBSET EntryPoint]
<1> DEFINE new == what \ InUse(w)
<1>1. new \subseteq EntryPoint /\ new \subseteq Resource
  BY DEF EntryPoint, Resource
<1>2. \/ held' = [held EXCEPT ![w] = @ \cup new] /\ UNCHANGED late
      \/ late' = [late EXCEPT ![w] = @ \cup new] /\ UNCHANGED held
  BY DEF Take
<1> HIDE DEF new
<1> QED
  BY <1>1, <1>2 DEF TypeOK

\* A launch moves on, and its workspace stays the same.
LEMMA LaunchTypes ==
  ASSUME TypeOK, NEW l \in Launch, NEW pc, NEW next \in {"ports", "endpoint", "session", "over"},
         LaunchStep(l, pc, next)
  PROVE  launching' \in [Launch -> Assigned] /\ launching[l].of \in Workspace
<1>1. launching \in [Launch -> Assigned] /\ launching[l] \in Assigned
  BY DEF TypeOK
<1>2. [launching[l] EXCEPT !.pc = next] \in Assigned
  BY <1>1 DEF Assigned
<1> QED
  BY <1>1, <1>2 DEF LaunchStep, Assigned

\* Launches keep the types.
LEMMA LaunchType ==
  ASSUME TypeOK, NEW l \in Launch, LaunchMove(l)
  PROVE  TypeOK'
<1>1. CASE AllocatePorts(l)
  <2>1. launching' \in [Launch -> Assigned] /\ launching[l].of \in Workspace
    BY <1>1, LaunchTypes DEF AllocatePorts
  <2>2. PICK what \in SUBSET EntryPoint : Take(launching[l].of, what)
    BY <1>1 DEF AllocatePorts
  <2>3. held' \in [Workspace -> SUBSET Resource] /\ late' \in [Workspace -> SUBSET EntryPoint]
    BY <2>1, <2>2, TakeType
  <2> QED
    BY <1>1, <2>1, <2>3 DEF TypeOK, AllocatePorts
<1>2. CASE UpsertEndpoint(l)
  <2>1. launching' \in [Launch -> Assigned] /\ launching[l].of \in Workspace
    BY <1>2, LaunchTypes DEF UpsertEndpoint
  <2>2. Take(launching[l].of, {"endpoint"}) /\ {"endpoint"} \in SUBSET EntryPoint
    BY <1>2 DEF UpsertEndpoint, EntryPoint
  <2>3. held' \in [Workspace -> SUBSET Resource] /\ late' \in [Workspace -> SUBSET EntryPoint]
    BY <2>1, <2>2, TakeType
  <2> QED
    BY <1>2, <2>1, <2>3 DEF TypeOK, UpsertEndpoint
<1>3. CASE StartUsageSessionWithStatus(l)
  <2>1. launching' \in [Launch -> Assigned] /\ launching[l].of \in Workspace
    BY <1>3, LaunchTypes DEF StartUsageSessionWithStatus
  <2>2. status' \in [Workspace -> Status]
    BY <1>3, <2>1, TableTypes DEF StartUsageSessionWithStatus, SetStatus, Status
  <2> QED
    BY <1>3, <2>1, <2>2 DEF TypeOK, StartUsageSessionWithStatus
<1> QED
  BY <1>1, <1>2, <1>3 DEF LaunchMove

\* The waiting pass keeps the types.
LEMMA WaiterType ==
  ASSUME TypeOK, NEW t \in Waiter, WaiterStep(t)
  PROVE  TypeOK'
<1>0. waiter[t].cur \subseteq Workspace /\ waiter[t].todo \subseteq Workspace
  <2>1. waiter[t] \in Wait
    BY DEF TypeOK
  <2> QED
    BY <2>1 DEF Wait
<1>1. CASE WaitingRead(t)
  BY <1>1, WaitTypes DEF TypeOK, WaitingRead, WaitingRows, tables
<1>2. CASE WaitingCheck(t)
  <2>1. PICK w \in waiter[t].todo, pc \in {"mark", "timeout"} :
          waiter' = [waiter EXCEPT ![t] = [pc |-> pc, cur |-> {w},
                                           todo |-> waiter[t].todo \ {w}]]
    BY <1>2 DEF WaitingCheck
  <2>2. {w} \in SUBSET Workspace /\ waiter[t].todo \ {w} \in SUBSET Workspace
    BY <1>0, <2>1
  <2>3. waiter' \in [Waiter -> Wait]
    BY <2>1, <2>2, WaitTypes
  <2> QED
    BY <1>2, <2>3 DEF TypeOK, WaitingCheck, tables
<1>3. CASE MarkRunning(t)
  <2>0. PICK w \in waiter[t].cur : SetStatus(w, "RUNNING_ASSIGNED")
    BY <1>3 DEF MarkRunning
  <2>1. status' \in [Workspace -> Status]
    BY <1>0, <2>0, TableTypes DEF SetStatus, Status
  <2> QED
    BY <1>3, <2>1, WaitTypes DEF TypeOK, MarkRunning
<1>4. CASE StartUsageSessionForColdWorkspace(t)
  BY <1>0, <1>4, WaitTypes DEF TypeOK, StartUsageSessionForColdWorkspace
<1>5. CASE WithinTimeout(t)
  BY <1>5, WaitTypes DEF TypeOK, WithinTimeout, tables
<1>6. CASE ExpireWaiting(t)
  <2>0. PICK w \in waiter[t].cur : SetStatus(w, "TERMINATING")
    BY <1>6 DEF ExpireWaiting
  <2>1. status' \in [Workspace -> Status]
    BY <1>0, <2>0, TableTypes DEF SetStatus, Status
  <2> QED
    BY <1>6, <2>1, WaitTypes DEF TypeOK, ExpireWaiting
<1>7. CASE EnqueueExpired(t)
  <2>1. job' \in [Workspace -> JobRow]
    BY <1>0, <1>7, UpsertType DEF EnqueueExpired
  <2> QED
    BY <1>7, <2>1, WaitTypes DEF TypeOK, EnqueueExpired
<1> QED
  BY <1>1, <1>2, <1>3, <1>4, <1>5, <1>6, <1>7 DEF WaiterStep

\* Every step of an attempt but the last two: it advances, or fails.
LEMMA AttemptType ==
  ASSUME TypeOK, NEW c \in Cleaner, NEW w \in Workspace,
         NEW pc, NEW next \in CleanupPC, Attempt(c, w, pc, next)
  PROVE  cleaner' \in [Cleaner -> Pass] /\ faults' \in Nat
<1>1. \A q \in CleanupPC : [cleaner EXCEPT ![c].pc = q] \in [Cleaner -> Pass]
  BY PassTypes
<1>2. "failed" \in CleanupPC
  BY DEF CleanupPC
<1>3. faults \in Nat
  BY DEF TypeOK
<1>4. CASE Goto(c, next) /\ UNCHANGED faults
  BY <1>1, <1>3, <1>4 DEF Goto
<1>5. CASE Fails(c)
  BY <1>1, <1>2, <1>3, <1>5 DEF Fails, Goto
<1> QED
  BY <1>4, <1>5 DEF Attempt

\* So does going on to the next job,
LEMMA NextJobType ==
  ASSUME TypeOK, NEW c \in Cleaner, NextJob(c)
  PROVE  cleaner' \in [Cleaner -> Pass]
<1>1. cleaner[c].todo \in SUBSET Workspace
  BY WorkerTypes
<1>2. /\ [cleaner EXCEPT ![c] = IdlePass] \in [Cleaner -> Pass]
      /\ [cleaner EXCEPT ![c] = [IdlePass EXCEPT !.pc = "jobs", !.todo = cleaner[c].todo]]
           \in [Cleaner -> Pass]
  BY <1>1, PassTypes
<1> QED
  BY <1>2 DEF NextJob

\* a step that fails,
LEMMA FailsType ==
  ASSUME TypeOK, NEW c \in Cleaner, Fails(c)
  PROVE  cleaner' \in [Cleaner -> Pass] /\ faults' \in Nat
<1>1. [cleaner EXCEPT ![c].pc = "failed"] \in [Cleaner -> Pass]
  BY PassTypes DEF CleanupPC
<1> QED
  BY <1>1 DEF Fails, Goto, TypeOK

\* and every step of a cleanup attempt.
LEMMA CleanupType ==
  ASSUME TypeOK, NEW c \in Cleaner, CleanupStep(c)
  PROVE  TypeOK'
<1> USE DEF CleanupPC
<1>1. CASE MarkStaleCreating(c)
  <2>1. PICK w \in cleaner[c].creating :
          /\ SetStatus(w, "TERMINATING")
          /\ cleaner' = [cleaner EXCEPT ![c] = [@ EXCEPT
                           !.creating = cleaner[c].creating \ {w},
                           !.stale = cleaner[c].stale \cup {w}]]
    BY <1>1 DEF MarkStaleCreating
  <2>2. w \in Workspace
    BY WorkerTypes
  <2>3. /\ cleaner[c].creating \ {w} \in SUBSET Workspace
        /\ cleaner[c].stale \cup {w} \in SUBSET Workspace
    BY <2>2, WorkerTypes
  <2>4. cleaner' \in [Cleaner -> Pass]
    BY <2>1, <2>3, PassTypes
  <2>5. status' \in [Workspace -> Status]
    BY <2>1, <2>2, TableTypes DEF SetStatus, Status
  <2> QED
    BY <1>1, <2>4, <2>5 DEF TypeOK, MarkStaleCreating
<1>2. CASE SweepUpsert(c)
  <2>1. PICK w \in cleaner[c].stale :
          /\ UpsertPending(w)
          /\ cleaner' = [cleaner EXCEPT ![c].stale = cleaner[c].stale \ {w}]
    BY <1>2 DEF SweepUpsert
  <2>2. w \in Workspace /\ cleaner[c].stale \ {w} \in SUBSET Workspace
    BY WorkerTypes
  <2>3. cleaner' \in [Cleaner -> Pass]
    BY <2>1, <2>2, PassTypes
  <2>4. job' \in [Workspace -> JobRow]
    BY <2>1, <2>2, UpsertType
  <2> QED
    BY <1>2, <2>3, <2>4 DEF TypeOK, SweepUpsert
<1>3. CASE ReadJobs(c)
  <2>1. DueJobs \in SUBSET Workspace
    BY DEF DueJobs
  <2>2. /\ [cleaner EXCEPT ![c] = IdlePass] \in [Cleaner -> Pass]
        /\ [cleaner EXCEPT ![c] = [IdlePass EXCEPT !.pc = "jobs", !.todo = DueJobs]]
             \in [Cleaner -> Pass]
    BY <2>1, PassTypes
  <2>3. cleaner' \in [Cleaner -> Pass]
    BY <1>3, <2>2 DEF ReadJobs
  <2> QED
    BY <1>3, <2>3 DEF TypeOK, ReadJobs, tables
<1>4. CASE StartAttempt(c)
  <2> DEFINE Count(w) == IF job[w].attemptCount < MaxAttempts
                         THEN job[w].attemptCount + 1 ELSE MaxAttempts
  <2>1. PICK w \in cleaner[c].todo :
          /\ job' = [job EXCEPT ![w] = [@ EXCEPT !.status = "RUNNING", !.attemptCount = Count(w)]]
          /\ cleaner' = [cleaner EXCEPT ![c] =
                           [@ EXCEPT !.pc = "finalize", !.cur = {w},
                                     !.todo = cleaner[c].todo \ {w},
                                     !.last = (Count(w) = MaxAttempts)]]
    BY <1>4 DEF StartAttempt
  <2>2. /\ w \in Workspace
        /\ {w} \in SUBSET Workspace
        /\ cleaner[c].todo \ {w} \in SUBSET Workspace
    BY WorkerTypes
  <2>3. job[w].attemptCount \in 0..MaxAttempts
    BY <2>2 DEF TypeOK, JobRow
  <2>4. Count(w) \in 0..MaxAttempts
    BY <2>3, CleanupAssumption
  <2>5. (Count(w) = MaxAttempts) \in BOOLEAN
    OBVIOUS
  <2> HIDE DEF Count
  <2>6. job' \in [Workspace -> JobRow]
    BY <2>1, <2>2, <2>4, JobTypes DEF Active
  <2>7. cleaner' \in [Cleaner -> Pass]
    BY <2>1, <2>2, <2>5, PassTypes, ZenonT(30) DEF CleanupPC
  <2> QED
    BY <1>4, <2>6, <2>7 DEF TypeOK, StartAttempt
<1>5. ASSUME NEW w \in Workspace, FinalizeUsageSessions(c, w) PROVE TypeOK'
  BY <1>5, AttemptType DEF TypeOK, FinalizeUsageSessions, Attempt
<1>6. ASSUME NEW w \in Workspace, ReleaseGatewayPorts(c, w) PROVE TypeOK'
  BY <1>6, AttemptType, TableTypes DEF TypeOK, ReleaseGatewayPorts, Attempt, Drop, Status
<1>7. ASSUME NEW w \in Workspace, DeleteVm(c, w) PROVE TypeOK'
  BY <1>7, AttemptType, TableTypes DEF TypeOK, DeleteVm, Attempt, Drop, Status
<1>8. ASSUME NEW w \in Workspace, FreeGpu(c, w) PROVE TypeOK'
  BY <1>8, AttemptType, TableTypes DEF TypeOK, FreeGpu, Attempt, Drop, Status
<1>9. ASSUME NEW w \in Workspace, ReleaseAllocation(c, w) PROVE TypeOK'
  BY <1>9, AttemptType, TableTypes DEF TypeOK, ReleaseAllocation, Attempt, Drop, Status
<1>10. ASSUME NEW w \in Workspace, ReleaseEndpoint(c, w) PROVE TypeOK'
  BY <1>10, AttemptType, TableTypes DEF TypeOK, ReleaseEndpoint, Attempt, Drop, Status
<1>11. ASSUME NEW w \in Workspace, MarkTerminated(c, w) PROVE TypeOK'
  BY <1>11, AttemptType, TableTypes DEF TypeOK, MarkTerminated, Attempt, SetStatus, Status
<1>12. CASE MarkDone(c)
  <2>0. PICK w \in cleaner[c].cur :
          job' = [job EXCEPT ![w] = [@ EXCEPT !.status = "DONE", !.due = TRUE]]
    BY <1>12 DEF MarkDone
  <2>1. job' \in [Workspace -> JobRow]
    <3>1. w \in Workspace
      BY WorkerTypes
    <3>2. \A s \in Active \cup {"none", "DONE", "FAILED"} :
            [job EXCEPT ![w] = [@ EXCEPT !.status = s, !.due = TRUE]] \in [Workspace -> JobRow]
      BY <3>1, JobTypes
    <3> QED
      BY <2>0, <3>2
  <2>2. cleaner' \in [Cleaner -> Pass] /\ faults' \in Nat
    BY <1>12, NextJobType, FailsType DEF MarkDone, TypeOK
  <2> QED
    BY <1>12, <2>1, <2>2 DEF TypeOK, MarkDone
<1>13. CASE MarkFailedAttempt(c)
  <2>1. cleaner[c].last \in BOOLEAN
    BY DEF TypeOK, Pass
  <2> DEFINE s == IF cleaner[c].last THEN "FAILED" ELSE "RETRY"
  <2>2. PICK w \in cleaner[c].cur :
          job' = [job EXCEPT ![w] = [@ EXCEPT !.status = s, !.due = cleaner[c].last]]
    BY <1>13 DEF MarkFailedAttempt
  <2>3. s \in Active \cup {"none", "DONE", "FAILED"} /\ w \in Workspace
    BY WorkerTypes DEF Active
  <2> HIDE DEF s
  <2>4. job' \in [Workspace -> JobRow]
    BY <2>1, <2>2, <2>3, JobTypes
  <2>5. cleaner' \in [Cleaner -> Pass]
    BY <1>13, NextJobType DEF MarkFailedAttempt
  <2> QED
    BY <1>13, <2>4, <2>5 DEF TypeOK, MarkFailedAttempt
<1> QED
  BY <1>1, <1>2, <1>3, <1>4, <1>5, <1>6, <1>7, <1>8, <1>9, <1>10, <1>11, <1>12, <1>13
     DEF CleanupStep

\* Every step keeps the types.
LEMMA TypeNext == ASSUME TypeOK, [Next]_vars PROVE TypeOK'
<1>1. CASE UNCHANGED vars
  BY <1>1 DEF TypeOK, vars, tables, threads
<1>2. ASSUME NEW c \in Cleaner, CleanupStep(c) PROVE TypeOK'
  BY <1>2, CleanupType
<1>3. ASSUME NEW c \in Cleaner, StepFails(c) PROVE TypeOK'
  BY <1>3, FailsType DEF TypeOK, StepFails, tables
<1>4. ASSUME NEW c \in Cleaner, SweepStep(c) PROVE TypeOK'
  <2>1. PICK stale, creating \in SUBSET Workspace : SweepRead(c, stale, creating)
    BY <1>4 DEF SweepStep
  <2>2. cleaner' \in [Cleaner -> Pass]
    BY <2>1, PassTypes DEF SweepRead
  <2> QED
    BY <2>1, <2>2 DEF TypeOK, SweepRead, tables
<1>5. ASSUME NEW t \in Waiter, WaiterStep(t) PROVE TypeOK'
  BY <1>5, WaiterType
<1>6. ASSUME NEW w \in Workspace, RequestStep(w) PROVE TypeOK'
  BY <1>6, RequestType
<1>7. CASE CheckStuckGpus
  BY <1>7 DEF TypeOK, CheckStuckGpus, Retired, tables
<1>8. CASE CheckPortLeaks
  BY <1>8 DEF TypeOK, CheckPortLeaks, Retired, tables
<1>9. CASE WorkerCrash
  BY <1>9 DEF TypeOK, WorkerCrash, tables, IdlePass, Pass, IdleWait, Wait
<1>10. ASSUME NEW l \in Launch, LaunchMove(l) PROVE TypeOK'
  BY <1>10, LaunchType
<1> QED
  BY <1>1, <1>2, <1>3, <1>4, <1>5, <1>6, <1>7, <1>8, <1>9, <1>10, NextCases

\* Every reachable state is well typed, whatever the number of workspaces,
\* passes, attempts and faults.
THEOREM TypeCorrect == Spec => []TypeOK
BY TypeInit, TypeNext, PTL DEF Spec

-----------------------------------------------------------------------------
(* What a step does to the jobs.                                            *)

JobStays == \A w \in Workspace : job'[w].status \in Active \cup {job[w].status}

\* A write of one row that keeps its status, or makes it active, ends no job.
LEMMA JobRowChange ==
  ASSUME TypeOK, NEW w \in Workspace, NEW s, NEW row,
         row.status = s, job' = [job EXCEPT ![w] = row],
         s \in Active \cup {job[w].status}
  PROVE  JobStays
BY DEF TypeOK, JobStays

\* Enqueueing ends no job,
LEMMA UpsertStays ==
  ASSUME TypeOK, NEW w \in Workspace, UpsertPending(w)
  PROVE  JobStays
<1>1. [job[w] EXCEPT !.status = "PENDING", !.due = TRUE].status = "PENDING"
  BY DEF TypeOK, JobRow
<1> QED
  BY <1>1, JobRowChange DEF UpsertPending, Active

\* nor does a step that leaves the table alone,
LEMMA SameStays == ASSUME UNCHANGED job PROVE JobStays
BY DEF JobStays

\* nor any step but the two that record how an attempt went.
LEMMA OtherStays ==
  ASSUME TypeOK, [Next]_vars
  PROVE  \/ JobStays
         \/ \E c \in Cleaner : MarkDone(c) \/ MarkFailedAttempt(c)
<1>1. CASE UNCHANGED vars
  BY <1>1, SameStays DEF vars, tables
<1>2. ASSUME NEW c \in Cleaner, CleanupStep(c), ~MarkDone(c), ~MarkFailedAttempt(c)
      PROVE  JobStays
  <2>1. CASE SweepUpsert(c)
    BY <2>1, UpsertStays, WorkerTypes DEF SweepUpsert
  <2>2. CASE StartAttempt(c)
    <3>1. PICK w \in cleaner[c].todo :
            \E n : job' = [job EXCEPT ![w] = [@ EXCEPT !.status = "RUNNING", !.attemptCount = n]]
      BY <2>2, ZenonT(30) DEF StartAttempt
    <3>2. PICK n :
            job' = [job EXCEPT ![w] = [@ EXCEPT !.status = "RUNNING", !.attemptCount = n]]
      BY <3>1
    <3>3. w \in Workspace
      BY WorkerTypes
    <3>4. [job[w] EXCEPT !.status = "RUNNING", !.attemptCount = n].status = "RUNNING"
      BY <3>3 DEF TypeOK, JobRow
    <3> QED
      BY <3>2, <3>3, <3>4, JobRowChange DEF Active
  <2>3. CASE \E w \in Workspace :
               \/ FinalizeUsageSessions(c, w) \/ ReleaseGatewayPorts(c, w) \/ DeleteVm(c, w)
               \/ FreeGpu(c, w) \/ ReleaseAllocation(c, w) \/ ReleaseEndpoint(c, w)
               \/ MarkTerminated(c, w)
    BY <2>3, SameStays DEF FinalizeUsageSessions, ReleaseGatewayPorts, DeleteVm, FreeGpu,
         ReleaseAllocation, ReleaseEndpoint, MarkTerminated, Attempt
  <2>4. CASE MarkStaleCreating(c) \/ ReadJobs(c)
    BY <2>4, SameStays DEF MarkStaleCreating, ReadJobs, tables
  <2> QED
    BY <1>2, <2>1, <2>2, <2>3, <2>4 DEF CleanupStep
<1>3. ASSUME NEW c \in Cleaner, StepFails(c) \/ SweepStep(c) PROVE JobStays
  BY <1>3, SameStays DEF StepFails, SweepStep, SweepRead, tables
<1>4. ASSUME NEW t \in Waiter, WaiterStep(t) PROVE JobStays
  <2>1. CASE EnqueueExpired(t)
    <3>1. waiter[t] \in Wait
      BY DEF TypeOK
    <3> QED
      BY <2>1, <3>1, UpsertStays DEF EnqueueExpired, Wait
  <2>2. CASE ~EnqueueExpired(t)
    BY <1>4, <2>2, SameStays DEF WaiterStep, WaitingRead, WaitingCheck, MarkRunning,
         StartUsageSessionForColdWorkspace, WithinTimeout, ExpireWaiting, tables
  <2> QED
    BY <2>1, <2>2
<1>5. ASSUME NEW w \in Workspace, RequestStep(w) PROVE JobStays
  <2>1. CASE QueueTermination(w) \/ EnqueueCleanup(w)
    BY <2>1, UpsertStays DEF QueueTermination, EnqueueCleanup
  <2>2. CASE BackoffElapses(w)
    BY <2>2 DEF BackoffElapses, JobStays, TypeOK, JobRow
  <2>3. CASE ~(QueueTermination(w) \/ EnqueueCleanup(w) \/ BackoffElapses(w))
    BY <1>5, <2>3, SameStays DEF RequestStep, TerminateRead, IdleTerminationRead,
         MarkTerminating, Heartbeat, HeartbeatAges, VerifyRead, VerifyWrite,
         FreeStuckGpu, ReleaseLeakedPort, tables
  <2> QED
    BY <2>1, <2>2, <2>3
<1>6. CASE CheckStuckGpus \/ CheckPortLeaks \/ WorkerCrash
  BY <1>6, SameStays DEF CheckStuckGpus, CheckPortLeaks, WorkerCrash, tables
<1>7. ASSUME NEW l \in Launch, LaunchMove(l) PROVE JobStays
  BY <1>7, SameStays DEF LaunchMove, AllocatePorts, UpsertEndpoint, StartUsageSessionWithStatus
<1> QED
  BY <1>1, <1>2, <1>3, <1>4, <1>5, <1>6, <1>7, NextCases

-----------------------------------------------------------------------------
(* A pass works on jobs that are in the table.                              *)

\* No step deletes a job,
LEMMA JobsRemain ==
  ASSUME TypeOK, [Next]_vars, NEW w \in Workspace, job[w].status # "none"
  PROVE  job'[w].status # "none"
<1>1. CASE JobStays
  BY <1>1 DEF JobStays, Active
<1>2. ASSUME NEW c \in Cleaner, MarkDone(c) PROVE job'[w].status # "none"
  <2>1. PICK v \in cleaner[c].cur :
          job' = [job EXCEPT ![v] = [@ EXCEPT !.status = "DONE", !.due = TRUE]]
    BY <1>2 DEF MarkDone
  <2>2. job \in [Workspace -> JobRow] /\ v \in Workspace
    BY WorkerTypes DEF TypeOK
  <2>3. CASE v = w
    BY <2>1, <2>2, <2>3 DEF JobRow
  <2>4. CASE v # w
    BY <2>1, <2>2, <2>4
  <2> QED
    BY <2>3, <2>4
<1>3. ASSUME NEW c \in Cleaner, MarkFailedAttempt(c) PROVE job'[w].status # "none"
  <2> DEFINE s == IF cleaner[c].last THEN "FAILED" ELSE "RETRY"
  <2>1. PICK v \in cleaner[c].cur :
          job' = [job EXCEPT ![v] = [@ EXCEPT !.status = s, !.due = cleaner[c].last]]
    BY <1>3 DEF MarkFailedAttempt
  <2>2. job \in [Workspace -> JobRow] /\ v \in Workspace
    BY WorkerTypes DEF TypeOK
  <2>3. s # "none"
    OBVIOUS
  <2> HIDE DEF s
  <2>4. CASE v = w
    BY <2>1, <2>2, <2>3, <2>4 DEF JobRow
  <2>5. CASE v # w
    BY <2>1, <2>2, <2>5
  <2> QED
    BY <2>4, <2>5
<1> QED
  BY <1>1, <1>2, <1>3, OtherStays

\* and a pass goes on with the jobs it has, or with some that are due.
Known(c) == cleaner'[c].todo \cup cleaner'[c].cur
              \subseteq cleaner[c].todo \cup cleaner[c].cur \cup DueJobs

LEMMA GotoKnown ==
  ASSUME TypeOK, NEW c \in Cleaner, NEW pc, Goto(c, pc)
  PROVE  \A d \in Cleaner : Known(d)
<1>1. cleaner \in [Cleaner -> Pass] /\ cleaner[c] \in Pass
  BY DEF TypeOK
<1>2. cleaner'[c] = [cleaner[c] EXCEPT !.pc = pc]
  BY <1>1 DEF Goto
<1>3. cleaner'[c].todo = cleaner[c].todo /\ cleaner'[c].cur = cleaner[c].cur
  BY <1>1, <1>2 DEF Pass
<1>4. \A d \in Cleaner \ {c} : cleaner'[d] = cleaner[d]
  BY <1>1 DEF Goto
<1> QED
  BY <1>3, <1>4 DEF Known

LEMMA NextJobKnown ==
  ASSUME TypeOK, NEW c \in Cleaner, NextJob(c)
  PROVE  \A d \in Cleaner : Known(d)
<1>1. cleaner \in [Cleaner -> Pass]
  BY DEF TypeOK
<1>2. cleaner'[c].cur = {} /\ cleaner'[c].todo \subseteq cleaner[c].todo
  BY <1>1 DEF NextJob, IdlePass
<1>3. \A d \in Cleaner \ {c} : cleaner'[d] = cleaner[d]
  BY <1>1 DEF NextJob
<1> QED
  BY <1>2, <1>3 DEF Known

LEMMA PassesKnown ==
  ASSUME TypeOK, NEW c \in Cleaner, CleanupStep(c) \/ StepFails(c) \/ SweepStep(c)
  PROVE  \A d \in Cleaner : Known(d)
<1>0. cleaner \in [Cleaner -> Pass] /\ cleaner[c] \in Pass
  BY DEF TypeOK
<1>1. CASE MarkStaleCreating(c) \/ SweepUpsert(c)
  <2>1. CASE MarkStaleCreating(c)
    <3>1. PICK A, B : cleaner' = [cleaner EXCEPT ![c] = [@ EXCEPT !.creating = A, !.stale = B]]
      BY <2>1 DEF MarkStaleCreating
    <3>2. /\ cleaner'[c].todo = cleaner[c].todo /\ cleaner'[c].cur = cleaner[c].cur
          /\ \A d \in Cleaner \ {c} : cleaner'[d] = cleaner[d]
      BY <1>0, <3>1 DEF Pass
    <3> QED
      BY <3>2 DEF Known
  <2>2. CASE SweepUpsert(c)
    <3>1. PICK A : cleaner' = [cleaner EXCEPT ![c].stale = A]
      BY <2>2 DEF SweepUpsert
    <3>2. /\ cleaner'[c].todo = cleaner[c].todo /\ cleaner'[c].cur = cleaner[c].cur
          /\ \A d \in Cleaner \ {c} : cleaner'[d] = cleaner[d]
      BY <1>0, <3>1 DEF Pass
    <3> QED
      BY <3>2 DEF Known
  <2> QED
    BY <1>1, <2>1, <2>2
<1>2. CASE ReadJobs(c)
  <2>1. cleaner'[c].cur = {} /\ cleaner'[c].todo \subseteq DueJobs
    BY <1>0, <1>2 DEF ReadJobs, IdlePass
  <2>2. \A d \in Cleaner \ {c} : cleaner'[d] = cleaner[d]
    BY <1>0, <1>2 DEF ReadJobs
  <2> QED
    BY <2>1, <2>2 DEF Known
<1>3. CASE StartAttempt(c)
  <2>1. PICK w \in cleaner[c].todo, l \in BOOLEAN :
          cleaner' = [cleaner EXCEPT ![c] = [@ EXCEPT !.pc = "finalize", !.cur = {w},
                                                      !.todo = cleaner[c].todo \ {w}, !.last = l]]
    BY <1>3, Zenon DEF StartAttempt
  <2>2. /\ cleaner'[c].cur = {w} /\ cleaner'[c].todo = cleaner[c].todo \ {w}
        /\ \A d \in Cleaner \ {c} : cleaner'[d] = cleaner[d]
    BY <1>0, <2>1 DEF Pass
  <2> QED
    BY <2>2 DEF Known
<1>4. ASSUME NEW w \in Workspace, NEW pc, NEW next, Attempt(c, w, pc, next)
      PROVE  \A d \in Cleaner : Known(d)
  BY <1>4, GotoKnown DEF Attempt, Fails
<1>5. CASE MarkDone(c) \/ MarkFailedAttempt(c)
  BY <1>5, GotoKnown, NextJobKnown DEF MarkDone, MarkFailedAttempt, Fails
<1>6. CASE StepFails(c)
  BY <1>6, GotoKnown DEF StepFails, Fails
<1>7. CASE SweepStep(c)
  <2>1. PICK stale, creating \in SUBSET Workspace : SweepRead(c, stale, creating)
    BY <1>7 DEF SweepStep
  <2>2. cleaner'[c].todo = {} /\ cleaner'[c].cur = {}
    BY <1>0, <2>1 DEF SweepRead, IdlePass
  <2>3. \A d \in Cleaner \ {c} : cleaner'[d] = cleaner[d]
    BY <1>0, <2>1 DEF SweepRead
  <2> QED
    BY <2>2, <2>3 DEF Known
<1>8. CASE \E w \in Workspace :
             \/ FinalizeUsageSessions(c, w) \/ ReleaseGatewayPorts(c, w) \/ DeleteVm(c, w)
             \/ FreeGpu(c, w) \/ ReleaseAllocation(c, w) \/ ReleaseEndpoint(c, w)
             \/ MarkTerminated(c, w)
  BY <1>4, <1>8 DEF FinalizeUsageSessions, ReleaseGatewayPorts, DeleteVm, FreeGpu,
       ReleaseAllocation, ReleaseEndpoint, MarkTerminated
<1> QED
  BY <1>1, <1>2, <1>3, <1>5, <1>6, <1>7, <1>8 DEF CleanupStep

\* Only a pass that works on a job ends its workspace.
LEMMA EndedByCleanup ==
  ASSUME TypeOK, [Next]_vars, NEW w \in Workspace,
         status'[w] = "TERMINATED", status[w] # "TERMINATED"
  PROVE  \E c \in Cleaner : w \in cleaner[c].cur
<1>0. \A v \in Workspace : \A x : SetStatus(v, x) /\ x # "TERMINATED" => FALSE
  BY DEF TypeOK, SetStatus
<1>1. CASE status' = status
  BY <1>1
<1>2. ASSUME NEW c \in Cleaner, CleanupStep(c) \/ StepFails(c) \/ SweepStep(c), status' # status
      PROVE  w \in cleaner[c].cur
  <2>1. CASE MarkStaleCreating(c)
    BY <1>0, <2>1, WorkerTypes DEF MarkStaleCreating
  <2>2. ASSUME NEW v \in Workspace, MarkTerminated(c, v) PROVE w \in cleaner[c].cur
    BY <2>2 DEF MarkTerminated, Attempt, SetStatus, TypeOK
  <2> QED
    BY <1>2, <2>1, <2>2 DEF CleanupStep, StepFails, SweepStep, SweepRead, SweepUpsert, ReadJobs,
       StartAttempt, FinalizeUsageSessions, ReleaseGatewayPorts, DeleteVm, FreeGpu,
       ReleaseAllocation, ReleaseEndpoint, MarkDone, MarkFailedAttempt, tables
<1>3. ASSUME NEW v \in Workspace, RequestStep(v), status' # status PROVE FALSE
  BY <1>0, <1>3 DEF RequestStep, TerminateRead, IdleTerminationRead, QueueTermination,
     MarkTerminating, EnqueueCleanup, BackoffElapses, Heartbeat, HeartbeatAges, VerifyRead,
     VerifyWrite, FreeStuckGpu, ReleaseLeakedPort, tables
<1>4. ASSUME NEW t \in Waiter, WaiterStep(t), status' # status PROVE FALSE
  <2>1. waiter[t].cur \subseteq Workspace
    BY DEF TypeOK, Wait
  <2> QED
    BY <1>0, <1>4, <2>1 DEF WaiterStep, WaitingRead, WaitingCheck, MarkRunning,
       StartUsageSessionForColdWorkspace, WithinTimeout, ExpireWaiting, EnqueueExpired, tables
<1>5. ASSUME NEW l \in Launch, LaunchMove(l), status' # status PROVE FALSE
  <2>1. launching[l].of \in Workspace
    BY DEF TypeOK, Assigned
  <2> QED
    BY <1>0, <1>5, <2>1 DEF LaunchMove, AllocatePorts, UpsertEndpoint, StartUsageSessionWithStatus
<1>6. CASE CheckStuckGpus \/ CheckPortLeaks \/ WorkerCrash \/ UNCHANGED vars
  BY <1>1, <1>6 DEF CheckStuckGpus, CheckPortLeaks, WorkerCrash, tables, vars
<1> QED
  BY <1>1, <1>2, <1>3, <1>4, <1>5, <1>6, NextCases

\* So every job a pass knows of is in the table.
LEMMA JobIsThereInit == ASSUME Init PROVE JobIsThere
BY DEF Init, JobIsThere, IdlePass

LEMMA JobIsThereNext == ASSUME TypeOK, JobIsThere, [Next]_vars PROVE JobIsThere'
<1>0. \A w \in Workspace : status'[w] = "TERMINATED" => job'[w].status # "none"
  BY EndedByCleanup, JobsRemain DEF JobIsThere
<1>1. ASSUME \A d \in Cleaner : Known(d) PROVE JobIsThere'
  <2> SUFFICES ASSUME NEW d \in Cleaner, NEW w \in cleaner'[d].todo \cup cleaner'[d].cur
               PROVE  job'[w].status # "none"
    BY <1>0 DEF JobIsThere
  <2>1. w \in cleaner[d].todo \cup cleaner[d].cur \cup DueJobs
    BY <1>1 DEF Known
  <2>2. w \in Workspace
    BY <2>1, WorkerTypes DEF DueJobs
  <2>3. job[w].status # "none"
    BY <2>1 DEF JobIsThere, DueJobs, Active
  <2> QED
    BY <2>2, <2>3, JobsRemain
<1>2. CASE UNCHANGED cleaner
  BY <1>1, <1>2 DEF Known
<1>3. CASE WorkerCrash
  BY <1>0, <1>3 DEF WorkerCrash, IdlePass, JobIsThere
<1>4. ASSUME NEW c \in Cleaner, CleanupStep(c) \/ StepFails(c) \/ SweepStep(c)
      PROVE  JobIsThere'
  BY <1>1, <1>4, PassesKnown
<1>5. ASSUME NEW w \in Workspace, RequestStep(w) PROVE UNCHANGED cleaner
  BY <1>5 DEF RequestStep, TerminateRead, IdleTerminationRead, QueueTermination, MarkTerminating,
       EnqueueCleanup, BackoffElapses, Heartbeat, HeartbeatAges, VerifyRead, VerifyWrite,
       FreeStuckGpu, ReleaseLeakedPort, threads
<1>6. ASSUME NEW t \in Waiter, WaiterStep(t) PROVE UNCHANGED cleaner
  BY <1>6 DEF WaiterStep, WaitingRead, WaitingCheck, MarkRunning,
       StartUsageSessionForColdWorkspace, WithinTimeout, ExpireWaiting, EnqueueExpired
<1>7. CASE CheckStuckGpus \/ CheckPortLeaks \/ UNCHANGED vars
  BY <1>2, <1>7 DEF CheckStuckGpus, CheckPortLeaks, vars, threads
<1>8. ASSUME NEW l \in Launch, LaunchMove(l) PROVE UNCHANGED cleaner
  BY <1>8 DEF LaunchMove, AllocatePorts, UpsertEndpoint, StartUsageSessionWithStatus
<1> QED
  BY <1>2, <1>3, <1>4, <1>5, <1>6, <1>7, <1>8, NextCases

-----------------------------------------------------------------------------
(* The inductive invariant.                                                 *)

\* The invariant holds before anything has happened.
LEMMA InvInit == ASSUME Init PROVE IInv
<1>1. TypeOK
  BY TypeInit
<1>2. OneJob /\ ReleasedBehind /\ LastIsExhausted /\ JobIsThere
  BY JobIsThereInit DEF Init, OneJob, ReleasedBehind, LastIsExhausted, IdlePass
<1>3. AllocationReleasedAfterVm
  BY DEF Init, AllocationReleasedAfterVm, Resource
<1>4. NothingLeftBehind
  BY DEF Init, NothingLeftBehind
<1> QED
  BY <1>1, <1>2, <1>3, <1>4 DEF IInv

\* What the invariant says of one row and of one pass.
LEMMA InvFacts ==
  ASSUME IInv
  PROVE  /\ \A w \in Workspace :
              /\ "vm" \in held[w] => "allocation" \in held[w]
              /\ status[w] = "TERMINATED" \/ job[w].status = "DONE" => held[w] = {}
              /\ held[w] \subseteq Resource
         /\ \A c \in Cleaner : \A w \in cleaner[c].cur :
              /\ w \in Workspace
              /\ cleaner[c].cur = {w}
              /\ held[w] \cap Behind(cleaner[c].pc) = {}
              /\ cleaner[c].last => job[w].attemptCount = MaxAttempts
              /\ job[w].status # "none"
<1>1. \A w \in Workspace : held[w] \subseteq Resource
  BY DEF IInv, TypeOK
<1>2. \A c \in Cleaner : \A w \in cleaner[c].cur : w \in Workspace
  BY WorkerTypes DEF IInv
<1>3. \A c \in Cleaner : \A w \in cleaner[c].cur : cleaner[c].cur = {w}
  BY DEF IInv, OneJob
<1>4. \A w \in Workspace :
        /\ "vm" \in held[w] => "allocation" \in held[w]
        /\ status[w] = "TERMINATED" \/ job[w].status = "DONE" => held[w] = {}
  BY DEF IInv, AllocationReleasedAfterVm, NothingLeftBehind
<1>5. \A c \in Cleaner : \A w \in cleaner[c].cur :
        /\ held[w] \cap Behind(cleaner[c].pc) = {}
        /\ cleaner[c].last => job[w].attemptCount = MaxAttempts
        /\ job[w].status # "none"
  BY DEF IInv, ReleasedBehind, LastIsExhausted, JobIsThere
<1> QED
  BY <1>1, <1>2, <1>3, <1>4, <1>5

\* A step under which rows and passes are kept keeps the invariant.
LEMMA KeptInv ==
  ASSUME IInv, TypeOK', JobIsThere', \A w \in Workspace : RowKept(w), \A c \in Cleaner : PassKept(c)
  PROVE  IInv'
<1>1. AllocationReleasedAfterVm'
  BY DEF AllocationReleasedAfterVm, RowKept
<1>2. NothingLeftBehind'
  BY DEF NothingLeftBehind, RowKept
<1>3. ASSUME NEW c \in Cleaner, NEW w \in cleaner'[c].cur
      PROVE  /\ cleaner'[c].cur = {w}
             /\ held'[w] \cap Behind(cleaner'[c].pc) = {}
             /\ cleaner'[c].last => job'[w].attemptCount = MaxAttempts
  <2>1. CASE PassStays(c)
    <3>1. /\ w \in Workspace
          /\ cleaner[c].cur = {w}
          /\ held[w] \cap Behind(cleaner[c].pc) = {}
          /\ cleaner[c].last => job[w].attemptCount = MaxAttempts
          /\ job[w].status # "none"
      BY <1>3, <2>1, InvFacts DEF PassStays
    <3>2. held'[w] \subseteq held[w]
      BY <3>1 DEF RowKept
    <3>3. held'[w] \cap Behind("failed") = {}
      BY DEF Behind
    <3>4. held'[w] \cap Behind(cleaner'[c].pc) = {}
      BY <2>1, <3>1, <3>2, <3>3 DEF PassStays
    <3>5. job[w].attemptCount = MaxAttempts => job'[w].attemptCount = MaxAttempts
      BY <3>1 DEF RowKept
    <3> QED
      BY <2>1, <3>1, <3>4, <3>5 DEF PassStays
  <2>2. CASE PassMoves(c)
    BY <1>3, <2>2 DEF PassMoves
  <2> QED
    BY <1>3, <2>1, <2>2 DEF PassKept
<1>4. OneJob' /\ ReleasedBehind' /\ LastIsExhausted'
  BY <1>3 DEF OneJob, ReleasedBehind, LastIsExhausted
<1> QED
  BY <1>1, <1>2, <1>4 DEF IInv

\* What an attempt has released, by the step it stands at.
LEMMA BehindValues ==
  /\ \A pc \in {"idle", "sweep", "jobs", "finalize", "ports", "failed"} : Behind(pc) = {}
  /\ Behind("vm") = {"endpoint", "lease"}
  /\ Behind("gpu") = {"endpoint", "lease", "vm"}
  /\ Behind("allocation") = {"endpoint", "lease", "vm", "gpu"}
  /\ \A pc \in {"endpoint", "terminate", "done"} : Behind(pc) = Resource
BY Zenon DEF Behind

\* Moving the program counter of one pass touches nothing else.
LEMMA GotoEffect ==
  ASSUME TypeOK, NEW c \in Cleaner, NEW pc, Goto(c, pc)
  PROVE  /\ cleaner'[c].pc = pc
         /\ cleaner'[c].cur = cleaner[c].cur
         /\ cleaner'[c].last = cleaner[c].last
         /\ \A d \in Cleaner \ {c} : cleaner'[d] = cleaner[d]
<1>1. cleaner \in [Cleaner -> Pass]
  BY DEF TypeOK
<1>2. cleaner[c] \in Pass
  BY <1>1
<1>3. cleaner' = [cleaner EXCEPT ![c].pc = pc]
  BY DEF Goto
<1>4. cleaner'[c] = [cleaner[c] EXCEPT !.pc = pc]
  BY <1>1, <1>3
<1> QED
  BY <1>1, <1>2, <1>3, <1>4 DEF Pass

\* A failed step has nothing behind it and claims nothing.
LEMMA FailsKept ==
  ASSUME TypeOK, NEW c \in Cleaner, Fails(c)
  PROVE  \A d \in Cleaner : PassKept(d)
<1>1. Goto(c, "failed")
  BY DEF Fails
<1> QED
  BY <1>1, GotoEffect DEF PassKept, PassStays

\* A step of an attempt releases something and advances, or fails.
LEMMA AttemptKept ==
  ASSUME IInv, NEW c \in Cleaner, NEW w \in Workspace, NEW pc, NEW next,
         Attempt(c, w, pc, next), held'[w] \cap Behind(next) = {}
  PROVE  \A d \in Cleaner : PassKept(d)
<1>0. TypeOK
  BY DEF IInv
<1>1. CASE Fails(c)
  BY <1>0, <1>1, FailsKept
<1>2. CASE Goto(c, next)
  <2>1. /\ cleaner'[c].pc = next
        /\ cleaner'[c].cur = cleaner[c].cur
        /\ cleaner'[c].last = cleaner[c].last
        /\ \A d \in Cleaner \ {c} : cleaner'[d] = cleaner[d]
    BY <1>0, <1>2, GotoEffect
  <2>2. cleaner[c].cur = {w} /\ (cleaner[c].last => job[w].attemptCount = MaxAttempts)
    BY InvFacts DEF Attempt
  <2>3. job' = job
    BY DEF Attempt
  <2>4. PassMoves(c)
    BY <2>1, <2>2, <2>3 DEF PassMoves
  <2> QED
    BY <2>1, <2>4 DEF PassKept, PassStays
<1> QED
  BY <1>1, <1>2 DEF Attempt

\* Dropping resources keeps the rows, as long as the VM goes before the
\* allocation.
LEMMA DropKept ==
  ASSUME IInv, NEW w \in Workspace, NEW R, Drop(w, R),
         "allocation" \in R => "vm" \notin held[w],
         UNCHANGED <<status, job>>
  PROVE  /\ \A v \in Workspace : RowKept(v)
         /\ held'[w] = held[w] \ R
<1>1. held \in [Workspace -> SUBSET Resource]
  BY DEF IInv, TypeOK
<1>2. held'[w] = held[w] \ R /\ \A v \in Workspace \ {w} : held'[v] = held[v]
  BY <1>1 DEF Drop
<1>3. ASSUME NEW v \in Workspace PROVE RowKept(v)
  BY <1>2, InvFacts DEF RowKept
<1> QED
  BY <1>2, <1>3

\* Rows are kept by a step that leaves held alone, marks nothing TERMINATED or
\* DONE and no attempt undone; passes, by one that leaves all of them alone.
LEMMA QuietKept ==
  ASSUME IInv, UNCHANGED held,
         \A w \in Workspace :
           /\ status'[w] = "TERMINATED" => status[w] = "TERMINATED"
           /\ job'[w].status = "DONE" => job[w].status = "DONE"
           /\ job'[w].attemptCount = job[w].attemptCount
  PROVE  \A w \in Workspace : RowKept(w)
BY InvFacts DEF RowKept

\* A step that leaves the passes alone keeps them.
LEMMA SameKept == ASSUME UNCHANGED cleaner PROVE \A c \in Cleaner : PassKept(c)
BY DEF PassKept, PassStays

\* A write of another status makes no workspace TERMINATED.
LEMMA StatusKept ==
  ASSUME TypeOK, NEW w \in Workspace, NEW s \in Status \ {"TERMINATED"}, SetStatus(w, s)
  PROVE  \A v \in Workspace : status'[v] = "TERMINATED" => status[v] = "TERMINATED"
BY DEF SetStatus, TypeOK

\* Enqueueing makes no job DONE and counts no attempt.
LEMMA UpsertKept ==
  ASSUME TypeOK, NEW w \in Workspace, UpsertPending(w)
  PROVE  \A v \in Workspace :
           /\ job'[v].status = "DONE" => job[v].status = "DONE"
           /\ job'[v].attemptCount = job[v].attemptCount
<1>1. job \in [Workspace -> JobRow]
  BY DEF TypeOK
<1>2. job[w] \in JobRow
  BY <1>1
<1>3. job'[w] = [job[w] EXCEPT !.status = "PENDING", !.due = TRUE]
  BY <1>1 DEF UpsertPending
<1>4. \A v \in Workspace \ {w} : job'[v] = job[v]
  BY <1>1 DEF UpsertPending
<1> QED
  BY <1>2, <1>3, <1>4 DEF JobRow

\* Going on to the next job forgets the current one and what it claimed.
LEMMA NextJobKept ==
  ASSUME TypeOK, NEW c \in Cleaner, NextJob(c)
  PROVE  \A d \in Cleaner : PassKept(d)
<1>1. cleaner \in [Cleaner -> Pass]
  BY DEF TypeOK
<1>2. cleaner'[c].cur = {} /\ \A d \in Cleaner \ {c} : cleaner'[d] = cleaner[d]
  BY <1>1 DEF NextJob, IdlePass
<1> QED
  BY <1>2 DEF PassKept, PassStays

-----------------------------------------------------------------------------
(* Every step keeps the invariant.                                          *)

\* The steps of an attempt that release something.
LEMMA AttemptInv ==
  ASSUME IInv, TypeOK', JobIsThere', NEW c \in Cleaner, NEW w \in Workspace,
         \/ FinalizeUsageSessions(c, w) \/ ReleaseGatewayPorts(c, w) \/ DeleteVm(c, w)
         \/ FreeGpu(c, w) \/ ReleaseAllocation(c, w) \/ ReleaseEndpoint(c, w)
         \/ MarkTerminated(c, w)
  PROVE  IInv'
<1> USE BehindValues, InvFacts
<1>1. CASE FinalizeUsageSessions(c, w)
  <2>1. \A d \in Cleaner : PassKept(d)
    BY <1>1, AttemptKept DEF FinalizeUsageSessions
  <2>2. \A v \in Workspace : RowKept(v)
    BY <1>1, QuietKept DEF FinalizeUsageSessions, Attempt
  <2> QED
    BY <2>1, <2>2, KeptInv
<1>2. CASE ReleaseGatewayPorts(c, w)
  <2>1. /\ \A v \in Workspace : RowKept(v)
        /\ held'[w] = held[w] \ {"endpoint", "lease"}
    BY <1>2, DropKept DEF ReleaseGatewayPorts, Attempt
  <2>2. \A d \in Cleaner : PassKept(d)
    BY <1>2, <2>1, AttemptKept DEF ReleaseGatewayPorts
  <2> QED
    BY <2>1, <2>2, KeptInv
<1>3. CASE DeleteVm(c, w)
  <2>1. /\ \A v \in Workspace : RowKept(v)
        /\ held'[w] = held[w] \ {"vm"}
    BY <1>3, DropKept DEF DeleteVm, Attempt
  <2>2. held[w] \cap {"endpoint", "lease"} = {}
    BY <1>3 DEF DeleteVm, Attempt
  <2>3. \A d \in Cleaner : PassKept(d)
    BY <1>3, <2>1, <2>2, AttemptKept DEF DeleteVm
  <2> QED
    BY <2>1, <2>3, KeptInv
<1>4. CASE FreeGpu(c, w)
  <2>1. /\ \A v \in Workspace : RowKept(v)
        /\ held'[w] = held[w] \ {"gpu"}
    BY <1>4, DropKept DEF FreeGpu, Attempt
  <2>2. held[w] \cap {"endpoint", "lease", "vm"} = {}
    BY <1>4 DEF FreeGpu, Attempt
  <2>3. \A d \in Cleaner : PassKept(d)
    BY <1>4, <2>1, <2>2, AttemptKept DEF FreeGpu
  <2> QED
    BY <2>1, <2>3, KeptInv
<1>5. CASE ReleaseAllocation(c, w)
  <2>1. held[w] \cap {"endpoint", "lease", "vm", "gpu"} = {}
    BY <1>5 DEF ReleaseAllocation, Attempt
  <2>2. /\ \A v \in Workspace : RowKept(v)
        /\ held'[w] = held[w] \ {"allocation"}
    BY <1>5, <2>1, DropKept DEF ReleaseAllocation, Attempt
  <2>3. held'[w] \cap Behind("endpoint") = {}
    BY <2>1, <2>2 DEF Resource
  <2>4. \A d \in Cleaner : PassKept(d)
    BY <1>5, <2>3, AttemptKept DEF ReleaseAllocation
  <2> QED
    BY <2>2, <2>4, KeptInv
<1>6. CASE ReleaseEndpoint(c, w)
  <2>1. held[w] \cap Resource = {}
    BY <1>6 DEF ReleaseEndpoint, Attempt
  <2>2. /\ \A v \in Workspace : RowKept(v)
        /\ held'[w] = held[w] \ {"endpoint"}
    BY <1>6, DropKept DEF ReleaseEndpoint, Attempt
  <2>3. \A d \in Cleaner : PassKept(d)
    BY <1>6, <2>1, <2>2, AttemptKept DEF ReleaseEndpoint
  <2> QED
    BY <2>2, <2>3, KeptInv
<1>7. CASE MarkTerminated(c, w)
  <2>1. held[w] \cap Resource = {} /\ held' = held
    BY <1>7 DEF MarkTerminated, Attempt
  <2>2. \A d \in Cleaner : PassKept(d)
    BY <1>7, <2>1, AttemptKept DEF MarkTerminated
  <2>3. held'[w] = {}
    BY <2>1
  <2>4. \A v \in Workspace \ {w} : status'[v] = status[v]
    BY <1>7 DEF MarkTerminated, SetStatus, IInv, TypeOK
  <2>5. \A v \in Workspace : RowKept(v)
    BY <1>7, <2>1, <2>3, <2>4 DEF MarkTerminated, Attempt, RowKept
  <2> QED
    BY <2>2, <2>5, KeptInv
<1> QED
  BY <1>1, <1>2, <1>3, <1>4, <1>5, <1>6, <1>7

\* Every step of a cleanup pass.
LEMMA CleanupInv ==
  ASSUME IInv, TypeOK', JobIsThere', NEW c \in Cleaner, CleanupStep(c) \/ StepFails(c) \/ SweepStep(c)
  PROVE  IInv'
<1>0. /\ TypeOK
      /\ cleaner \in [Cleaner -> Pass]
      /\ cleaner[c] \in Pass
      /\ job \in [Workspace -> JobRow]
  BY DEF IInv, TypeOK
<1>1. CASE MarkStaleCreating(c)
  <2>1. PICK w \in cleaner[c].creating :
          /\ SetStatus(w, "TERMINATING")
          /\ cleaner' = [cleaner EXCEPT ![c] = [@ EXCEPT !.creating = cleaner[c].creating \ {w},
                                                         !.stale = cleaner[c].stale \cup {w}]]
    BY <1>1 DEF MarkStaleCreating
  <2>2. w \in Workspace /\ "TERMINATING" \in Status \ {"TERMINATED"}
    BY <1>0, WorkerTypes DEF Status
  <2>3. \A v \in Workspace : RowKept(v)
    BY <1>0, <1>1, <2>1, <2>2, StatusKept, QuietKept DEF MarkStaleCreating
  <2>4. \A d \in Cleaner : PassKept(d)
    BY <1>0, <2>1 DEF Pass, PassKept, PassStays
  <2> QED
    BY <2>3, <2>4, KeptInv
<1>2. CASE SweepUpsert(c)
  <2>1. PICK w \in cleaner[c].stale :
          /\ UpsertPending(w)
          /\ cleaner' = [cleaner EXCEPT ![c].stale = cleaner[c].stale \ {w}]
    BY <1>2 DEF SweepUpsert
  <2>2. w \in Workspace
    BY <1>0, WorkerTypes
  <2>3. \A v \in Workspace : RowKept(v)
    BY <1>0, <1>2, <2>1, <2>2, UpsertKept, QuietKept DEF SweepUpsert
  <2>4. \A d \in Cleaner : PassKept(d)
    BY <1>0, <2>1 DEF Pass, PassKept, PassStays
  <2> QED
    BY <2>3, <2>4, KeptInv
<1>3. CASE ReadJobs(c)
  <2>1. \A v \in Workspace : RowKept(v)
    BY <1>3, QuietKept DEF ReadJobs, tables
  <2>2. \A d \in Cleaner : PassKept(d)
    BY <1>0, <1>3 DEF ReadJobs, IdlePass, PassKept, PassStays
  <2> QED
    BY <2>1, <2>2, KeptInv
<1>4. CASE StartAttempt(c)
  <2> DEFINE Count(w) == IF job[w].attemptCount < MaxAttempts
                         THEN job[w].attemptCount + 1 ELSE MaxAttempts
  <2>1. PICK w \in cleaner[c].todo :
          /\ job' = [job EXCEPT ![w] = [@ EXCEPT !.status = "RUNNING", !.attemptCount = Count(w)]]
          /\ cleaner' = [cleaner EXCEPT ![c] =
                           [@ EXCEPT !.pc = "finalize", !.cur = {w},
                                     !.todo = cleaner[c].todo \ {w},
                                     !.last = (Count(w) = MaxAttempts)]]
    BY <1>4 DEF StartAttempt
  <2>2. w \in Workspace
    BY <1>0, WorkerTypes
  <2>3. job[w] \in JobRow
    BY <1>0, <2>2
  <2>4. job[w].attemptCount = MaxAttempts => Count(w) = MaxAttempts
    BY CleanupAssumption
  <2> HIDE DEF Count
  <2>5. job'[w].attemptCount = Count(w) /\ job'[w].status = "RUNNING"
    BY <1>0, <2>1, <2>2, <2>3 DEF JobRow
  <2>6. \A v \in Workspace \ {w} : job'[v] = job[v]
    BY <1>0, <2>1
  <2>7. \A v \in Workspace : RowKept(v)
    BY <1>4, <2>4, <2>5, <2>6, InvFacts DEF StartAttempt, RowKept
  <2>8. /\ cleaner'[c].cur = {w}
        /\ cleaner'[c].pc = "finalize"
        /\ cleaner'[c].last = (Count(w) = MaxAttempts)
        /\ \A d \in Cleaner \ {c} : cleaner'[d] = cleaner[d]
    BY <1>0, <2>1 DEF Pass
  <2>9. PassMoves(c)
    BY <2>2, <2>5, <2>8, BehindValues DEF PassMoves
  <2>10. \A d \in Cleaner : PassKept(d)
    BY <2>8, <2>9 DEF PassKept, PassStays
  <2> QED
    BY <2>7, <2>10, KeptInv
<1>5. CASE MarkDone(c)
  <2>1. PICK w \in cleaner[c].cur :
          job' = [job EXCEPT ![w] = [@ EXCEPT !.status = "DONE", !.due = TRUE]]
    BY <1>5 DEF MarkDone
  <2>2. /\ w \in Workspace
        /\ held[w] = {}
    BY <1>5, InvFacts, BehindValues DEF MarkDone
  <2>3. job[w] \in JobRow
    BY <1>0, <2>2
  <2>4. job'[w].attemptCount = job[w].attemptCount
    BY <1>0, <2>1, <2>2, <2>3 DEF JobRow
  <2>5. \A v \in Workspace \ {w} : job'[v] = job[v]
    BY <1>0, <2>1
  <2>6. \A v \in Workspace : RowKept(v)
    BY <1>5, <2>2, <2>4, <2>5, InvFacts DEF MarkDone, RowKept
  <2>7. \A d \in Cleaner : PassKept(d)
    BY <1>0, <1>5, NextJobKept, FailsKept DEF MarkDone
  <2> QED
    BY <2>6, <2>7, KeptInv
<1>6. CASE MarkFailedAttempt(c)
  <2> DEFINE s == IF cleaner[c].last THEN "FAILED" ELSE "RETRY"
  <2>1. PICK w \in cleaner[c].cur :
          job' = [job EXCEPT ![w] = [@ EXCEPT !.status = s, !.due = cleaner[c].last]]
    BY <1>6 DEF MarkFailedAttempt
  <2>2. w \in Workspace /\ s # "DONE"
    BY <1>0, WorkerTypes
  <2>3. job[w] \in JobRow
    BY <1>0, <2>2
  <2> HIDE DEF s
  <2>4. job'[w].attemptCount = job[w].attemptCount /\ job'[w].status # "DONE"
    BY <1>0, <2>1, <2>2, <2>3 DEF JobRow
  <2>5. \A v \in Workspace \ {w} : job'[v] = job[v]
    BY <1>0, <2>1
  <2>6. \A v \in Workspace : RowKept(v)
    BY <1>6, <2>4, <2>5, QuietKept DEF MarkFailedAttempt
  <2>7. \A d \in Cleaner : PassKept(d)
    BY <1>0, <1>6, NextJobKept DEF MarkFailedAttempt
  <2> QED
    BY <2>6, <2>7, KeptInv
<1>7. CASE StepFails(c)
  <2>1. \A v \in Workspace : RowKept(v)
    BY <1>7, QuietKept DEF StepFails, tables
  <2> QED
    BY <1>0, <1>7, <2>1, FailsKept, KeptInv DEF StepFails
<1>8. CASE SweepStep(c)
  <2>1. PICK stale, creating \in SUBSET Workspace : SweepRead(c, stale, creating)
    BY <1>8 DEF SweepStep
  <2>2. \A v \in Workspace : RowKept(v)
    BY <2>1, QuietKept DEF SweepRead, tables
  <2>3. \A d \in Cleaner : PassKept(d)
    BY <1>0, <2>1 DEF SweepRead, IdlePass, PassKept, PassStays
  <2> QED
    BY <2>2, <2>3, KeptInv
<1> QED
  BY <1>1, <1>2, <1>3, <1>4, <1>5, <1>6, <1>7, <1>8, AttemptInv DEF CleanupStep

\* The requests, the agent and the incident job never mark a workspace
\* TERMINATED or a job DONE, and free no more than a GPU or an endpoint row.
LEMMA RequestInv ==
  ASSUME IInv, TypeOK', JobIsThere', NEW w \in Workspace, RequestStep(w)
  PROVE  IInv'
<1>0. TypeOK
  BY DEF IInv
<1>1. CASE QueueTermination(w)
  <2>1. "TERMINATING" \in Status \ {"TERMINATED"}
    BY DEF Status
  <2>2. \A v \in Workspace : RowKept(v)
    BY <1>0, <1>1, <2>1, StatusKept, UpsertKept, QuietKept DEF QueueTermination
  <2> QED
    BY <1>1, <2>2, SameKept, KeptInv DEF QueueTermination
<1>2. CASE MarkTerminating(w)
  <2>1. "TERMINATING" \in Status \ {"TERMINATED"}
    BY DEF Status
  <2>2. \A v \in Workspace : RowKept(v)
    BY <1>0, <1>2, <2>1, StatusKept, QuietKept DEF MarkTerminating
  <2> QED
    BY <1>2, <2>2, SameKept, KeptInv DEF MarkTerminating
<1>3. CASE EnqueueCleanup(w)
  <2>1. \A v \in Workspace : RowKept(v)
    BY <1>0, <1>3, UpsertKept, QuietKept DEF EnqueueCleanup
  <2> QED
    BY <1>3, <2>1, SameKept, KeptInv DEF EnqueueCleanup
<1>4. CASE BackoffElapses(w)
  <2>1. job \in [Workspace -> JobRow] /\ job[w] \in JobRow
    BY <1>0 DEF TypeOK
  <2>2. \A v \in Workspace : /\ job'[v].status = job[v].status
                             /\ job'[v].attemptCount = job[v].attemptCount
    BY <1>4, <2>1 DEF BackoffElapses, JobRow
  <2>3. \A v \in Workspace : RowKept(v)
    BY <1>4, <2>2, QuietKept DEF BackoffElapses
  <2> QED
    BY <1>4, <2>3, SameKept, KeptInv DEF BackoffElapses, threads
<1>5. CASE VerifyWrite(w)
  <2>1. PICK s \in {"RUNNING_ASSIGNED", "FAILED"} : SetStatus(w, s)
    BY <1>5 DEF VerifyWrite
  <2>2. s \in Status \ {"TERMINATED"}
    BY DEF Status
  <2>3. \A v \in Workspace : RowKept(v)
    BY <1>0, <1>5, <2>1, <2>2, StatusKept, QuietKept DEF VerifyWrite
  <2> QED
    BY <1>5, <2>3, SameKept, KeptInv DEF VerifyWrite
<1>6. CASE FreeStuckGpu(w) \/ ReleaseLeakedPort(w)
  <2>1. \A v \in Workspace : RowKept(v)
    BY <1>6, DropKept DEF FreeStuckGpu, ReleaseLeakedPort
  <2> QED
    BY <1>6, <2>1, SameKept, KeptInv DEF FreeStuckGpu, ReleaseLeakedPort
<1>7. CASE \/ TerminateRead(w) \/ IdleTerminationRead(w) \/ Heartbeat(w)
           \/ HeartbeatAges(w) \/ VerifyRead(w)
  <2>1. UNCHANGED <<status, held, job, cleaner>>
    BY <1>7 DEF TerminateRead, IdleTerminationRead, Heartbeat, HeartbeatAges,
                VerifyRead, tables, threads
  <2> QED
    BY <2>1, QuietKept, SameKept, KeptInv
<1> QED
  BY <1>1, <1>2, <1>3, <1>4, <1>5, <1>6, <1>7 DEF RequestStep

\* Every step of a waiting pass.
LEMMA WaiterInv ==
  ASSUME IInv, TypeOK', JobIsThere', NEW t \in Waiter, WaiterStep(t)
  PROVE  IInv'
<1>0. TypeOK /\ waiter[t].cur \subseteq Workspace
  <2>1. waiter[t] \in Wait
    BY DEF IInv, TypeOK
  <2> QED
    BY <2>1 DEF IInv, Wait
<1>1. CASE MarkRunning(t) \/ ExpireWaiting(t)
  <2>1. PICK w \in waiter[t].cur, s \in {"RUNNING_ASSIGNED", "TERMINATING"} : SetStatus(w, s)
    BY <1>1 DEF MarkRunning, ExpireWaiting
  <2>2. w \in Workspace /\ s \in Status \ {"TERMINATED"}
    BY <1>0 DEF Status
  <2>3. UNCHANGED <<held, job, cleaner>>
    BY <1>1 DEF MarkRunning, ExpireWaiting
  <2>4. \A v \in Workspace : RowKept(v)
    BY <1>0, <2>1, <2>2, <2>3, StatusKept, QuietKept
  <2> QED
    BY <2>3, <2>4, SameKept, KeptInv
<1>2. CASE EnqueueExpired(t)
  <2>1. \A v \in Workspace : RowKept(v)
    BY <1>0, <1>2, UpsertKept, QuietKept DEF EnqueueExpired
  <2> QED
    BY <1>2, <2>1, SameKept, KeptInv DEF EnqueueExpired
<1>3. CASE \/ WaitingRead(t) \/ WaitingCheck(t) \/ WithinTimeout(t)
           \/ StartUsageSessionForColdWorkspace(t)
  <2>1. UNCHANGED <<status, held, job, cleaner>>
    BY <1>3 DEF WaitingRead, WaitingCheck, WithinTimeout,
                StartUsageSessionForColdWorkspace, tables
  <2> QED
    BY <2>1, QuietKept, SameKept, KeptInv
<1> QED
  BY <1>1, <1>2, <1>3 DEF WaiterStep

\* What a launch takes: an entry point that a cleanup will release, or a late one.
LEMMA TakeEffect ==
  ASSUME TypeOK, NEW w \in Workspace, NEW what \in SUBSET EntryPoint, Take(w, what)
  PROVE  \E new \in SUBSET what :
           \/ /\ job[w].status = "none" /\ held' = [held EXCEPT ![w] = @ \cup new]
              /\ UNCHANGED late
           \/ /\ job[w].status # "none" /\ late' = [late EXCEPT ![w] = @ \cup new]
              /\ UNCHANGED held
<1> DEFINE new == what \ InUse(w)
<1>1. new \in SUBSET what
  OBVIOUS
<1>2. \/ /\ job[w].status = "none" /\ held' = [held EXCEPT ![w] = @ \cup new]
         /\ UNCHANGED late
      \/ /\ job[w].status # "none" /\ late' = [late EXCEPT ![w] = @ \cup new]
         /\ UNCHANGED held
  BY DEF Take
<1> HIDE DEF new
<1> QED
  BY <1>1, <1>2

\* Taking entry points keeps the rows.
LEMMA TakeKept ==
  ASSUME IInv, NEW w \in Workspace, NEW what \in SUBSET EntryPoint, Take(w, what),
         UNCHANGED <<status, job>>
  PROVE  \A v \in Workspace : RowKept(v)
<1>0. TypeOK /\ held \in [Workspace -> SUBSET Resource]
  BY DEF IInv, TypeOK
<1>1. PICK new \in SUBSET what :
           \/ /\ job[w].status = "none" /\ held' = [held EXCEPT ![w] = @ \cup new]
              /\ UNCHANGED late
           \/ /\ job[w].status # "none" /\ late' = [late EXCEPT ![w] = @ \cup new]
              /\ UNCHANGED held
  BY <1>0, TakeEffect
<1>2. CASE UNCHANGED held
  BY <1>2, QuietKept
<1>3. CASE job[w].status = "none" /\ held' = [held EXCEPT ![w] = @ \cup new]
  <2>1. held'[w] = held[w] \cup new /\ \A v \in Workspace \ {w} : held'[v] = held[v]
    BY <1>0, <1>3
  <2>2. "vm" \notin new
    BY DEF EntryPoint
  <2>3. status[w] # "TERMINATED"
    BY <1>3 DEF IInv, JobIsThere
  <2>4. RowKept(w)
    BY <1>3, <2>1, <2>2, <2>3, InvFacts DEF RowKept
  <2>5. \A v \in Workspace \ {w} : RowKept(v)
    BY <2>1, InvFacts DEF RowKept
  <2> QED
    BY <2>4, <2>5
<1> QED
  BY <1>1, <1>2, <1>3

\* The steps of a launch.
LEMMA LaunchInv ==
  ASSUME IInv, TypeOK', JobIsThere', NEW l \in Launch, LaunchMove(l)
  PROVE  IInv'
<1>0. TypeOK /\ launching[l].of \in Workspace
  BY DEF IInv, TypeOK, Assigned
<1>1. UNCHANGED cleaner
  BY DEF LaunchMove, AllocatePorts, UpsertEndpoint, StartUsageSessionWithStatus
<1>2. CASE AllocatePorts(l) \/ UpsertEndpoint(l)
  <2>1. PICK what \in SUBSET EntryPoint : Take(launching[l].of, what)
    BY <1>2 DEF AllocatePorts, UpsertEndpoint, EntryPoint
  <2>2. \A v \in Workspace : RowKept(v)
    BY <1>0, <1>2, <2>1, TakeKept DEF AllocatePorts, UpsertEndpoint
  <2> QED
    BY <1>1, <2>2, SameKept, KeptInv
<1>3. CASE StartUsageSessionWithStatus(l)
  <2>1. "RUNNING_ASSIGNED" \in Status \ {"TERMINATED"}
    BY DEF Status
  <2>2. \A v \in Workspace : RowKept(v)
    BY <1>0, <1>3, <2>1, StatusKept, QuietKept DEF StartUsageSessionWithStatus
  <2> QED
    BY <1>1, <2>2, SameKept, KeptInv
<1> QED
  BY <1>2, <1>3 DEF LaunchMove

\* Every step of the system.
LEMMA InvNext == ASSUME IInv, [Next]_vars PROVE IInv'
<1>1. TypeOK' /\ JobIsThere'
  BY TypeNext, JobIsThereNext DEF IInv
<1>2. CASE UNCHANGED vars
  <2>1. UNCHANGED <<status, held, job, cleaner>>
    BY <1>2 DEF vars, tables, threads
  <2> QED
    BY <1>1, <2>1, QuietKept, SameKept, KeptInv
<1>3. CASE CheckStuckGpus \/ CheckPortLeaks
  <2>1. UNCHANGED <<status, held, job, cleaner>>
    BY <1>3 DEF CheckStuckGpus, CheckPortLeaks, tables
  <2> QED
    BY <1>1, <2>1, QuietKept, SameKept, KeptInv
<1>4. CASE WorkerCrash
  <2>1. UNCHANGED <<status, held, job>> /\ \A c \in Cleaner : cleaner'[c].cur = {}
    BY <1>4 DEF WorkerCrash, tables, IdlePass
  <2> QED
    BY <1>1, <2>1, QuietKept, KeptInv DEF PassKept
<1> QED
  BY <1>1, <1>2, <1>3, <1>4, NextCases, CleanupInv, RequestInv, WaiterInv, LaunchInv

-----------------------------------------------------------------------------
(* The safety of the cleanup.                                               *)

\* The GPU allocation outlives the VM: for any number of workspaces, of overlapping
\* passes, of attempts, of failed steps and of crashes.
THEOREM ReleaseOrder == Spec => []AllocationReleasedAfterVm
<1>1. Init => IInv
  BY InvInit
<1>2. IInv /\ [Next]_vars => IInv'
  BY InvNext
<1>3. IInv => AllocationReleasedAfterVm
  BY DEF IInv
<1> QED
  BY <1>1, <1>2, <1>3, PTL DEF Spec

\* A workspace that is TERMINATED, or whose cleanup is DONE, holds nothing but the entry
\* points that launches took behind the back of the cleanup, whichever passes, retries,
\* launches and crashes it went through to get there.
THEOREM NothingHeldAtTheEnd == Spec => []NothingLeftBehind
<1>1. Init => IInv
  BY InvInit
<1>2. IInv /\ [Next]_vars => IInv'
  BY InvNext
<1>3. IInv => NothingLeftBehind
  BY DEF IInv
<1> QED
  BY <1>1, <1>2, <1>3, PTL DEF Spec

-----------------------------------------------------------------------------
(* How a job leaves the queue.                                              *)

\* A job stops being active only as DONE with nothing held, or FAILED after
\* its last attempt.
LEMMA LeavesDoneOrExhausted ==
  ASSUME IInv, IInv', [Next]_vars, NEW w \in Workspace,
         job[w].status \in Active, job'[w].status \notin Active
  PROVE  \/ job'[w].status = "DONE" /\ held'[w] = {}
         \/ job'[w].status = "FAILED" /\ job'[w].attemptCount = MaxAttempts
<1>0. TypeOK /\ job \in [Workspace -> JobRow]
  BY DEF IInv, TypeOK
<1>1. CASE JobStays
  BY <1>1 DEF JobStays
<1>2. ASSUME NEW c \in Cleaner, MarkDone(c) PROVE job'[w].status = "DONE" /\ held'[w] = {}
  <2>1. PICK v \in cleaner[c].cur :
          job' = [job EXCEPT ![v] = [@ EXCEPT !.status = "DONE", !.due = TRUE]]
    BY <1>2 DEF MarkDone
  <2>2. v = w
    BY <1>0, <2>1
  <2>3. job'[w].status = "DONE"
    BY <1>0, <2>1, <2>2 DEF JobRow
  <2> QED
    BY <2>3 DEF IInv, NothingLeftBehind
<1>3. ASSUME NEW c \in Cleaner, MarkFailedAttempt(c)
      PROVE  job'[w].status = "FAILED" /\ job'[w].attemptCount = MaxAttempts
  <2> DEFINE s == IF cleaner[c].last THEN "FAILED" ELSE "RETRY"
  <2>1. PICK v \in cleaner[c].cur :
          job' = [job EXCEPT ![v] = [@ EXCEPT !.status = s, !.due = cleaner[c].last]]
    BY <1>3 DEF MarkFailedAttempt
  <2>2. v = w
    BY <1>0, <2>1
  <2>3. /\ s = "FAILED" => cleaner[c].last
        /\ s \in {"FAILED", "RETRY"}
    OBVIOUS
  <2> HIDE DEF s
  <2>4. job'[w].status = s /\ job'[w].attemptCount = job[w].attemptCount
    BY <1>0, <2>1, <2>2 DEF JobRow
  <2>5. s = "FAILED"
    BY <2>3, <2>4 DEF Active
  <2>6. job[w].attemptCount = MaxAttempts
    BY <2>1, <2>2, <2>3, <2>5, InvFacts
  <2> QED
    BY <2>4, <2>5, <2>6
<1> QED
  BY <1>0, <1>1, <1>2, <1>3, OtherStays

\* A queued cleanup is only ever lost to completion, with nothing held, or to
\* the dead letter after its last attempt.
THEOREM NoCleanupDropped == Spec => CleanupNotDropped
<1>1. Init => IInv
  BY InvInit
<1>2. IInv /\ [Next]_vars => IInv'
  BY InvNext
<1>3. ASSUME IInv, IInv', [Next]_vars
      PROVE  [\A w \in Workspace :
                job[w].status \in Active /\ job'[w].status \notin Active =>
                  \/ job'[w].status = "DONE" /\ held'[w] = {}
                  \/ job'[w].status = "FAILED" /\ job'[w].attemptCount = MaxAttempts]_vars
  BY <1>3, LeavesDoneOrExhausted
<1> QED
  BY <1>1, <1>2, <1>3, PTL DEF Spec, CleanupNotDropped
-----------------------------------------------------------------------------
(* Taking down as a contract.                                               *)

\* What the contract sees of one workspace.
IsOver(w)    == status[w] = "TERMINATED"
CleanupOf(w) == IF job[w].status \in Active THEN "open" ELSE job[w].status
SeenOf(w)    == [holds |-> held[w], over |-> IsOver(w),
                 cleanup |-> CleanupOf(w), tries |-> job[w].attemptCount]

\* The view, workspace by workspace.
LEMMA ViewOf == TeardownView = [w \in Workspace |-> SeenOf(w)]
BY DEF TeardownView, SeenOf, IsOver, CleanupOf

\* What the contract sees of w, field by field.
LEMMA SeenFields ==
  ASSUME NEW w \in Workspace
  PROVE  /\ TeardownView[w] = [holds |-> held[w], over |-> IsOver(w), cleanup |-> CleanupOf(w),
                               tries |-> job[w].attemptCount]
         /\ TeardownView[w].holds = held[w] /\ TeardownView[w].over = IsOver(w)
         /\ TeardownView[w].cleanup = CleanupOf(w) /\ TeardownView[w].tries = job[w].attemptCount
<1> DEFINE o == IsOver(w)
           k == CleanupOf(w)
<1>1. TeardownView[w] = [holds |-> held[w], over |-> o, cleanup |-> k,
                         tries |-> job[w].attemptCount]
  BY ViewOf DEF SeenOf
<1> HIDE DEF o, k
<1>2. /\ TeardownView[w].holds = held[w] /\ TeardownView[w].over = o
      /\ TeardownView[w].cleanup = k /\ TeardownView[w].tries = job[w].attemptCount
  BY <1>1
<1> QED
  BY <1>1, <1>2 DEF o, k

\* Before anything happens nothing is over, and no cleanup has been asked for.
LEMMA ContractInitially == Init => Contract!TeardownInit
<1> SUFFICES ASSUME Init PROVE Contract!TeardownInit
  OBVIOUS
<1>1. held \in [Workspace -> {h \in SUBSET Contract!Holdings : {"vm", "gpu", "allocation"} \subseteq h}]
  BY DEF Init, Resource, Contract!Holdings
<1>2. \A w \in Workspace : SeenOf(w) = [holds |-> held[w], over |-> FALSE,
                                        cleanup |-> "none", tries |-> 0]
  BY DEF Init, SeenOf, IsOver, CleanupOf, Active
<1>3. TeardownView = [w \in Workspace |-> [holds |-> held[w], over |-> FALSE,
                                           cleanup |-> "none", tries |-> 0]]
  BY <1>2, ViewOf
<1>4. late = [w \in Workspace |-> {}]
  BY DEF Init
<1> QED
  BY <1>1, <1>3, <1>4 DEF Contract!TeardownInit

\* Only the row of w is touched.
OnlyRow(w) == \A v \in Workspace \ {w} :
  held'[v] = held[v] /\ status'[v] = status[v] /\ job'[v] = job[v]

\* A step on the row of w changes what the contract sees of w.
LEMMA SeenChanges ==
  ASSUME NEW w \in Workspace, OnlyRow(w), NEW h, NEW o, NEW k, NEW n,
         held'[w] = h, IsOver(w)' = o, CleanupOf(w)' = k, job'[w].attemptCount = n
  PROVE  Contract!Becomes(w, h, o, k, n)
<1>1. \A v \in Workspace \ {w} : SeenOf(v)' = SeenOf(v)
  BY DEF OnlyRow, SeenOf, IsOver, CleanupOf
<1> DEFINE x == [holds |-> h, over |-> o, cleanup |-> k, tries |-> n]
<1>2. SeenOf(w)' = x
  BY DEF SeenOf
<1>3. TeardownView' = [v \in Workspace |-> SeenOf(v)']
  BY DEF TeardownView, SeenOf, IsOver, CleanupOf
<1> HIDE DEF x
<1>4. TeardownView' = [TeardownView EXCEPT ![w] = x]
  BY <1>1, <1>2, <1>3, ViewOf
<1> QED
  BY <1>4 DEF Contract!Becomes, x

\* What the contract does not look at may change.
LEMMA NotSeen ==
  ASSUME UNCHANGED <<held, late>>,
         \A v \in Workspace :
           /\ (status'[v] = "TERMINATED") = (status[v] = "TERMINATED")
           /\ job'[v].attemptCount = job[v].attemptCount
           /\ job'[v].status = job[v].status
  PROVE  UNCHANGED <<TeardownView, late>>
BY DEF TeardownView

\* An enqueued cleanup is open, whether the status is written with it or not.
LEMMA ContractOpen ==
  ASSUME NEW w \in Workspace, OnlyRow(w), UNCHANGED late, held'[w] = held[w],
         status'[w] = status[w] \/ status'[w] # "TERMINATED",
         job'[w].status \in Active, job'[w].attemptCount = job[w].attemptCount
  PROVE  Contract!Open(w)
<1> DEFINE over == IsOver(w)'
<1>1. CleanupOf(w)' = "open"
  BY DEF CleanupOf
<1>2. over \in {TeardownView[w].over, FALSE}
  <2>1. over = IsOver(w) \/ over = FALSE
    BY DEF IsOver
  <2> QED
    BY <2>1, SeenFields
<1>3. Contract!Becomes(w, held[w], over, "open", job[w].attemptCount)
  BY <1>1, SeenChanges
<1> HIDE DEF over
<1> QED
  BY <1>2, <1>3, SeenFields DEF Contract!Open

\* A status written by anybody but the cleanup brings w back to life, if it changes
\* anything.
LEMMA ContractRevive ==
  ASSUME NEW w \in Workspace, OnlyRow(w), UNCHANGED late, held'[w] = held[w], job'[w] = job[w],
         status'[w] # "TERMINATED"
  PROVE  Contract!Revive(w)
<1>1. IsOver(w)' = FALSE /\ CleanupOf(w)' = CleanupOf(w)
  BY DEF IsOver, CleanupOf
<1>2. Contract!Becomes(w, held[w], FALSE, CleanupOf(w), job[w].attemptCount)
  BY <1>1, SeenChanges
<1> QED
  BY <1>2, SeenFields DEF Contract!Revive

\* A job that is there has been asked for.
LEMMA ContractAskedFor ==
  ASSUME NEW w \in Workspace, job[w].status # "none"
  PROVE  Contract!AskedFor(w)
<1>1. CleanupOf(w) # "none"
  BY DEF CleanupOf
<1> QED
  BY <1>1, SeenFields DEF Contract!AskedFor

\* An attempt is counted, up to the last.
LEMMA ContractTry ==
  ASSUME NEW w \in Workspace, OnlyRow(w), UNCHANGED late, held'[w] = held[w], status'[w] = status[w],
         job[w].status # "none", job'[w].status \in Active,
         job'[w].attemptCount \in {job[w].attemptCount + 1, MaxAttempts},
         job'[w].attemptCount <= MaxAttempts
  PROVE  Contract!Try(w)
<1> DEFINE n == job'[w].attemptCount
<1>1. CleanupOf(w)' = "open" /\ IsOver(w)' = IsOver(w)
  BY DEF CleanupOf, IsOver
<1>2. Contract!Becomes(w, held[w], IsOver(w), "open", n)
  BY <1>1, SeenChanges
<1>3. n \in {TeardownView[w].tries + 1, MaxAttempts} /\ n <= MaxAttempts
  BY SeenFields
<1> HIDE DEF n
<1> QED
  BY <1>2, <1>3, SeenFields, ContractAskedFor DEF Contract!Try

\* Resources go in their order, for a cleanup that was asked for.
LEMMA ContractGiveBack ==
  ASSUME NEW w \in Workspace, NEW R \in Contract!Portions,
         held \in [Workspace -> SUBSET Resource], Drop(w, R), UNCHANGED <<status, job>>,
         R \subseteq {"gpu", "endpoint"} \/ job[w].status # "none",
         "vm" \in R => held[w] \cap {"endpoint", "lease"} = {},
         "allocation" \in R => held[w] \subseteq {"allocation"}
  PROVE  Contract!GiveBack(w, R)
<1>1. held'[w] = held[w] \ R /\ OnlyRow(w)
  BY DEF Drop, OnlyRow
<1>2. IsOver(w)' = IsOver(w) /\ CleanupOf(w)' = CleanupOf(w)
  BY DEF IsOver, CleanupOf
<1>3. Contract!Becomes(w, held[w] \ R, IsOver(w), CleanupOf(w), job[w].attemptCount)
  BY <1>1, <1>2, SeenChanges
<1>4. late' = [late EXCEPT ![w] = @ \ R]
  BY DEF Drop
<1> QED
  BY <1>3, <1>4, SeenFields, ContractAskedFor DEF Contract!GiveBack

\* Entry points are taken in time, or late.
LEMMA ContractTake ==
  ASSUME IInv, NEW w \in Workspace, NEW what \in SUBSET EntryPoint, Take(w, what),
         UNCHANGED <<status, job>>
  PROVE  \E new \in SUBSET EntryPoint : Contract!TakeInTime(w, new) \/ Contract!TakeLate(w, new)
<1>0. TypeOK /\ held \in [Workspace -> SUBSET Resource]
  BY DEF IInv, TypeOK
<1>1. PICK new \in SUBSET what :
           \/ /\ job[w].status = "none" /\ held' = [held EXCEPT ![w] = @ \cup new]
              /\ UNCHANGED late
           \/ /\ job[w].status # "none" /\ late' = [late EXCEPT ![w] = @ \cup new]
              /\ UNCHANGED held
  BY <1>0, TakeEffect
<1>2. CASE job[w].status = "none" /\ held' = [held EXCEPT ![w] = @ \cup new] /\ UNCHANGED late
  <2>1. held'[w] = held[w] \cup new /\ OnlyRow(w)
    BY <1>0, <1>2 DEF OnlyRow
  <2>2. IsOver(w)' = FALSE /\ IsOver(w) = FALSE
    BY <1>2 DEF IInv, JobIsThere, IsOver
  <2>3. CleanupOf(w)' = "none" /\ CleanupOf(w) = "none"
    BY <1>2 DEF CleanupOf, Active
  <2>4. Contract!Becomes(w, held[w] \cup new, FALSE, "none", job[w].attemptCount)
    BY <2>1, <2>2, <2>3, SeenChanges
  <2>5. Contract!TakeInTime(w, new)
    BY <1>2, <2>2, <2>3, <2>4, SeenFields DEF Contract!TakeInTime, Contract!AskedFor
  <2> QED
    BY <2>5
<1>3. CASE job[w].status # "none" /\ late' = [late EXCEPT ![w] = @ \cup new] /\ UNCHANGED held
  <2>1. UNCHANGED TeardownView
    BY <1>3 DEF TeardownView
  <2>2. Contract!TakeLate(w, new)
    BY <1>3, <2>1, ContractAskedFor DEF Contract!TakeLate
  <2> QED
    BY <2>2
<1> QED
  BY <1>1, <1>2, <1>3

\* The workspace is over,
LEMMA ContractEnd ==
  ASSUME NEW w \in Workspace, OnlyRow(w), UNCHANGED late, held'[w] = held[w], job'[w] = job[w],
         status'[w] = "TERMINATED", held[w] = {}, job[w].status # "none"
  PROVE  Contract!End(w)
<1>1. IsOver(w)' = TRUE /\ CleanupOf(w)' = CleanupOf(w)
  BY DEF IsOver, CleanupOf
<1>2. Contract!Becomes(w, {}, TRUE, CleanupOf(w), job[w].attemptCount)
  BY <1>1, SeenChanges
<1> QED
  BY <1>2, SeenFields, ContractAskedFor DEF Contract!End

\* its cleanup is done,
LEMMA ContractFinish ==
  ASSUME NEW w \in Workspace, OnlyRow(w), UNCHANGED late, held'[w] = held[w], status'[w] = status[w],
         job[w].status # "none", job'[w].attemptCount = job[w].attemptCount,
         job'[w].status = "DONE", held[w] = {}
  PROVE  Contract!Finish(w)
<1>1. IsOver(w)' = IsOver(w) /\ CleanupOf(w)' = "DONE"
  BY DEF IsOver, CleanupOf, Active
<1>2. Contract!Becomes(w, {}, IsOver(w), "DONE", job[w].attemptCount)
  BY <1>1, SeenChanges
<1> QED
  BY <1>2, SeenFields, ContractAskedFor DEF Contract!Finish

\* or given up.
LEMMA ContractGiveUp ==
  ASSUME NEW w \in Workspace, OnlyRow(w), UNCHANGED late, held'[w] = held[w], status'[w] = status[w],
         job[w].status # "none", job[w].attemptCount = MaxAttempts,
         job'[w].attemptCount = MaxAttempts, job'[w].status = "FAILED"
  PROVE  Contract!GiveUp(w)
<1>1. IsOver(w)' = IsOver(w) /\ CleanupOf(w)' = "FAILED"
  BY DEF IsOver, CleanupOf, Active
<1>2. Contract!Becomes(w, held[w], IsOver(w), "FAILED", MaxAttempts)
  BY <1>1, SeenChanges
<1> QED
  BY <1>2, SeenFields, ContractAskedFor DEF Contract!GiveUp

-----------------------------------------------------------------------------
(* Every step keeps to the contract.                                        *)

\* The rows a pass or a request writes.
LEMMA OneRowWritten ==
  ASSUME TypeOK, NEW w \in Workspace
  PROVE  /\ \A s : SetStatus(w, s) => /\ status'[w] = s
                                      /\ \A v \in Workspace \ {w} : status'[v] = status[v]
         /\ \A row : job' = [job EXCEPT ![w] = row] =>
              /\ job'[w] = row
              /\ \A v \in Workspace \ {w} : job'[v] = job[v]
BY DEF TypeOK, SetStatus

\* Enqueueing leaves the count alone.
LEMMA UpsertWrites ==
  ASSUME TypeOK, NEW w \in Workspace, UpsertPending(w)
  PROVE  /\ job'[w].status \in Active /\ job'[w].attemptCount = job[w].attemptCount
         /\ \A v \in Workspace \ {w} : job'[v] = job[v]
<1>1. job \in [Workspace -> JobRow] /\ job[w] \in JobRow
  BY DEF TypeOK
<1>2. /\ job'[w] = [job[w] EXCEPT !.status = "PENDING", !.due = TRUE]
      /\ \A v \in Workspace \ {w} : job'[v] = job[v]
  BY <1>1 DEF UpsertPending
<1> QED
  BY <1>1, <1>2 DEF JobRow, Active

\* A write of a status other than TERMINATED, by whomever.
LEMMA StatusRevives ==
  ASSUME TypeOK, NEW w \in Workspace, NEW s, s # "TERMINATED", SetStatus(w, s),
         UNCHANGED <<held, late, job>>
  PROVE  Contract!Revive(w)
BY OneRowWritten, ContractRevive DEF OnlyRow

\* A step that touches none of the three tables.
LEMMA TablesUntouched ==
  ASSUME UNCHANGED <<status, held, late, job>>
  PROVE  UNCHANGED <<TeardownView, late>>
BY DEF TeardownView

\* The steps of an attempt.
LEMMA AttemptKeepsContract ==
  ASSUME IInv, NEW c \in Cleaner, NEW w \in Workspace,
         \/ FinalizeUsageSessions(c, w) \/ ReleaseGatewayPorts(c, w) \/ DeleteVm(c, w)
         \/ FreeGpu(c, w) \/ ReleaseAllocation(c, w) \/ ReleaseEndpoint(c, w)
         \/ MarkTerminated(c, w)
  PROVE  Contract!TeardownNext \/ UNCHANGED <<TeardownView, late>>
<1>0. held \in [Workspace -> SUBSET Resource] /\ TypeOK
  BY DEF IInv, TypeOK
<1>1. w \in cleaner[c].cur
  BY DEF FinalizeUsageSessions, ReleaseGatewayPorts, DeleteVm, FreeGpu, ReleaseAllocation,
         ReleaseEndpoint, MarkTerminated, Attempt
<1>2. job[w].status # "none" /\ held[w] \cap Behind(cleaner[c].pc) = {}
  BY <1>1, InvFacts
<1>3. \A R \in Contract!Portions :
        /\ Drop(w, R) /\ UNCHANGED <<status, job>>
        /\ "vm" \in R => held[w] \cap {"endpoint", "lease"} = {}
        /\ "allocation" \in R => held[w] \subseteq {"allocation"}
        => Contract!TeardownNext
  BY <1>0, <1>2, ContractGiveBack DEF Contract!TeardownNext
<1>4. CASE FinalizeUsageSessions(c, w)
  BY <1>4, TablesUntouched DEF FinalizeUsageSessions, Attempt
<1>5. CASE ReleaseGatewayPorts(c, w)
  BY <1>3, <1>5 DEF ReleaseGatewayPorts, Attempt, Contract!Portions
<1>6. CASE DeleteVm(c, w)
  <2>1. held[w] \cap {"endpoint", "lease"} = {}
    BY <1>2, <1>6, BehindValues DEF DeleteVm, Attempt
  <2> QED
    BY <1>3, <1>6, <2>1 DEF DeleteVm, Attempt, Contract!Portions
<1>7. CASE FreeGpu(c, w)
  BY <1>3, <1>7 DEF FreeGpu, Attempt, Contract!Portions
<1>8. CASE ReleaseAllocation(c, w)
  <2>1. held[w] \cap {"endpoint", "lease", "vm", "gpu"} = {}
    BY <1>2, <1>8, BehindValues DEF ReleaseAllocation, Attempt
  <2>2. held[w] \subseteq {"allocation"}
    BY <2>1, InvFacts DEF Resource
  <2> QED
    BY <1>3, <1>8, <2>2 DEF ReleaseAllocation, Attempt, Contract!Portions
<1>9. CASE ReleaseEndpoint(c, w)
  BY <1>3, <1>9 DEF ReleaseEndpoint, Attempt, Contract!Portions
<1>10. CASE MarkTerminated(c, w)
  <2>1. held[w] = {}
    <3>1. held[w] \cap Resource = {}
      BY <1>2, <1>10, BehindValues DEF MarkTerminated, Attempt
    <3> QED
      BY <3>1, InvFacts
  <2>2. status'[w] = "TERMINATED" /\ UNCHANGED <<held, late, job>> /\ OnlyRow(w)
    BY <1>0, <1>10, OneRowWritten DEF MarkTerminated, Attempt, OnlyRow
  <2>3. Contract!End(w)
    BY <1>2, <2>1, <2>2, ContractEnd
  <2> QED
    BY <2>3 DEF Contract!TeardownNext
<1> QED
  BY <1>4, <1>5, <1>6, <1>7, <1>8, <1>9, <1>10

\* The other steps of a cleanup pass.
LEMMA PassKeepsContract ==
  ASSUME IInv, NEW c \in Cleaner, CleanupStep(c) \/ StepFails(c) \/ SweepStep(c)
  PROVE  Contract!TeardownNext \/ UNCHANGED <<TeardownView, late>>
<1>0. /\ TypeOK /\ job \in [Workspace -> JobRow]
      /\ \A w \in cleaner[c].cur \cup cleaner[c].todo : job[w].status # "none" /\ w \in Workspace
  BY WorkerTypes DEF IInv, TypeOK, JobIsThere
<1>1. CASE MarkStaleCreating(c)
  <2>1. PICK w \in cleaner[c].creating : SetStatus(w, "TERMINATING")
    BY <1>1 DEF MarkStaleCreating
  <2>2. w \in Workspace
    BY <1>0, WorkerTypes
  <2>3. Contract!Revive(w)
    BY <1>0, <1>1, <2>1, <2>2, StatusRevives DEF MarkStaleCreating
  <2> QED
    BY <2>2, <2>3 DEF Contract!TeardownNext
<1>2. CASE SweepUpsert(c)
  <2>1. PICK w \in cleaner[c].stale : UpsertPending(w)
    BY <1>2 DEF SweepUpsert
  <2>2. w \in Workspace
    BY <1>0, WorkerTypes
  <2>3. Contract!Open(w)
    BY <1>0, <1>2, <2>1, <2>2, UpsertWrites, ContractOpen DEF SweepUpsert, OnlyRow
  <2> QED
    BY <2>2, <2>3 DEF Contract!TeardownNext
<1>3. CASE ReadJobs(c)
  BY <1>3, TablesUntouched DEF ReadJobs, tables
<1>4. CASE StartAttempt(c)
  <2> DEFINE Count(w) == IF job[w].attemptCount < MaxAttempts
                         THEN job[w].attemptCount + 1 ELSE MaxAttempts
  <2>1. PICK w \in cleaner[c].todo :
          job' = [job EXCEPT ![w] = [@ EXCEPT !.status = "RUNNING", !.attemptCount = Count(w)]]
    BY <1>4 DEF StartAttempt
  <2>2. w \in Workspace /\ job[w] \in JobRow /\ job[w].status # "none"
    BY <1>0, <2>1
  <2>3. Count(w) \in {job[w].attemptCount + 1, MaxAttempts} /\ Count(w) <= MaxAttempts
    BY <2>2, CleanupAssumption DEF JobRow
  <2> HIDE DEF Count
  <2>4. /\ job'[w].attemptCount = Count(w) /\ job'[w].status = "RUNNING"
        /\ \A v \in Workspace \ {w} : job'[v] = job[v]
    BY <1>0, <2>1, <2>2 DEF JobRow
  <2>5. Contract!Try(w)
    BY <1>4, <2>2, <2>3, <2>4, ContractTry DEF StartAttempt, OnlyRow, Active
  <2> QED
    BY <2>2, <2>5 DEF Contract!TeardownNext
<1>5. CASE MarkDone(c)
  <2>1. PICK w \in cleaner[c].cur :
          job' = [job EXCEPT ![w] = [@ EXCEPT !.status = "DONE", !.due = TRUE]]
    BY <1>5 DEF MarkDone
  <2>2. w \in Workspace /\ job[w] \in JobRow /\ job[w].status # "none"
    BY <1>0, <2>1
  <2>3. held[w] = {}
    BY <1>5, <2>1, InvFacts, BehindValues DEF MarkDone
  <2>4. /\ job'[w].attemptCount = job[w].attemptCount /\ job'[w].status = "DONE"
        /\ \A v \in Workspace \ {w} : job'[v] = job[v]
    BY <1>0, <2>1, <2>2 DEF JobRow
  <2>5. Contract!Finish(w)
    BY <1>5, <2>2, <2>3, <2>4, ContractFinish DEF MarkDone, OnlyRow
  <2> QED
    BY <2>2, <2>5 DEF Contract!TeardownNext
<1>6. CASE MarkFailedAttempt(c)
  <2> DEFINE s == IF cleaner[c].last THEN "FAILED" ELSE "RETRY"
  <2>1. PICK w \in cleaner[c].cur :
          job' = [job EXCEPT ![w] = [@ EXCEPT !.status = s, !.due = cleaner[c].last]]
    BY <1>6 DEF MarkFailedAttempt
  <2>2. w \in Workspace /\ job[w] \in JobRow /\ job[w].status # "none"
    BY <1>0, <2>1
  <2>3. cleaner[c].last => job[w].attemptCount = MaxAttempts
    BY <2>1, InvFacts
  <2>4. s = "RETRY" \/ (s = "FAILED" /\ cleaner[c].last)
    OBVIOUS
  <2> HIDE DEF s
  <2>5. /\ job'[w].attemptCount = job[w].attemptCount /\ job'[w].status = s
        /\ \A v \in Workspace \ {w} : job'[v] = job[v]
    BY <1>0, <2>1, <2>2 DEF JobRow
  <2>6. OnlyRow(w) /\ UNCHANGED <<status, held, late>>
    BY <1>6, <2>5 DEF MarkFailedAttempt, OnlyRow
  <2>7. CASE s = "RETRY"
    BY <2>2, <2>5, <2>6, <2>7, ContractOpen DEF Active, Contract!TeardownNext
  <2>8. CASE s = "FAILED" /\ cleaner[c].last
    BY <2>2, <2>3, <2>5, <2>6, <2>8, ContractGiveUp DEF Contract!TeardownNext
  <2> QED
    BY <2>4, <2>7, <2>8
<1>7. CASE StepFails(c) \/ SweepStep(c)
  BY <1>7, TablesUntouched DEF StepFails, SweepStep, SweepRead, tables
<1> QED
  BY <1>1, <1>2, <1>3, <1>4, <1>5, <1>6, <1>7, AttemptKeepsContract DEF CleanupStep

\* Requests, the agent and the incident job.
LEMMA RequestKeepsContract ==
  ASSUME IInv, NEW w \in Workspace, RequestStep(w)
  PROVE  Contract!TeardownNext \/ UNCHANGED <<TeardownView, late>>
<1>0. TypeOK /\ held \in [Workspace -> SUBSET Resource]
  BY DEF IInv, TypeOK
<1>1. CASE QueueTermination(w)
  <2>1. Contract!Open(w)
    BY <1>0, <1>1, UpsertWrites, OneRowWritten, ContractOpen DEF QueueTermination, OnlyRow
  <2> QED
    BY <2>1 DEF Contract!TeardownNext
<1>2. CASE EnqueueCleanup(w)
  <2>1. Contract!Open(w)
    BY <1>0, <1>2, UpsertWrites, ContractOpen DEF EnqueueCleanup, OnlyRow
  <2> QED
    BY <2>1 DEF Contract!TeardownNext
<1>3. CASE MarkTerminating(w) \/ VerifyWrite(w)
  <2>1. PICK s \in {"TERMINATING", "RUNNING_ASSIGNED", "FAILED"} : SetStatus(w, s)
    BY <1>3 DEF MarkTerminating, VerifyWrite
  <2>2. Contract!Revive(w)
    BY <1>0, <1>3, <2>1, StatusRevives DEF MarkTerminating, VerifyWrite
  <2> QED
    BY <2>2 DEF Contract!TeardownNext
<1>4. CASE BackoffElapses(w)
  <2>1. job \in [Workspace -> JobRow] /\ job[w] \in JobRow
    BY <1>0 DEF TypeOK
  <2>2. \A v \in Workspace : /\ job'[v].status = job[v].status
                             /\ job'[v].attemptCount = job[v].attemptCount
    BY <1>4, <2>1 DEF BackoffElapses, JobRow
  <2> QED
    BY <1>4, <2>2, NotSeen DEF BackoffElapses
<1>5. CASE FreeStuckGpu(w) \/ ReleaseLeakedPort(w)
  <2>1. PICK R \in {{"gpu"}, {"endpoint"}} : Drop(w, R)
    BY <1>5 DEF FreeStuckGpu, ReleaseLeakedPort
  <2>2. /\ R \in Contract!Portions /\ R \subseteq {"gpu", "endpoint"}
        /\ "vm" \notin R /\ "allocation" \notin R
    BY <2>1 DEF Contract!Portions
  <2>3. Contract!GiveBack(w, R)
    BY <1>0, <1>5, <2>1, <2>2, ContractGiveBack DEF FreeStuckGpu, ReleaseLeakedPort
  <2> QED
    BY <2>2, <2>3 DEF Contract!TeardownNext
<1>6. CASE \/ TerminateRead(w) \/ IdleTerminationRead(w) \/ Heartbeat(w)
           \/ HeartbeatAges(w) \/ VerifyRead(w)
  BY <1>6, TablesUntouched DEF TerminateRead, IdleTerminationRead, Heartbeat, HeartbeatAges,
       VerifyRead, tables
<1> QED
  BY <1>1, <1>2, <1>3, <1>4, <1>5, <1>6 DEF RequestStep

\* Launches.
LEMMA LaunchKeepsContract ==
  ASSUME IInv, NEW l \in Launch, LaunchMove(l)
  PROVE  Contract!TeardownNext \/ UNCHANGED <<TeardownView, late>>
<1>0. TypeOK /\ launching[l].of \in Workspace
  BY DEF IInv, TypeOK, Assigned
<1>1. CASE AllocatePorts(l) \/ UpsertEndpoint(l)
  <2>1. PICK what \in SUBSET EntryPoint : Take(launching[l].of, what)
    BY <1>1 DEF AllocatePorts, UpsertEndpoint, EntryPoint
  <2>2. PICK new \in SUBSET EntryPoint : \/ Contract!TakeInTime(launching[l].of, new)
                                         \/ Contract!TakeLate(launching[l].of, new)
    BY <1>0, <1>1, <2>1, ContractTake DEF AllocatePorts, UpsertEndpoint
  <2> QED
    BY <1>0, <2>2 DEF Contract!TeardownNext, EntryPoint
<1>2. CASE StartUsageSessionWithStatus(l)
  <2>1. Contract!Revive(launching[l].of)
    BY <1>0, <1>2, StatusRevives DEF StartUsageSessionWithStatus
  <2> QED
    BY <1>0, <2>1 DEF Contract!TeardownNext
<1> QED
  BY <1>1, <1>2 DEF LaunchMove

\* The job that waits for the agent.
LEMMA WaiterKeepsContract ==
  ASSUME IInv, NEW t \in Waiter, WaiterStep(t)
  PROVE  Contract!TeardownNext \/ UNCHANGED <<TeardownView, late>>
<1>0. TypeOK /\ waiter[t].cur \subseteq Workspace
  <2>1. waiter[t] \in Wait
    BY DEF IInv, TypeOK
  <2> QED
    BY <2>1 DEF IInv, Wait
<1>1. CASE MarkRunning(t) \/ ExpireWaiting(t)
  <2>1. PICK w \in waiter[t].cur, s \in {"RUNNING_ASSIGNED", "TERMINATING"} : SetStatus(w, s)
    BY <1>1 DEF MarkRunning, ExpireWaiting
  <2>2. Contract!Revive(w) /\ w \in Workspace
    BY <1>0, <1>1, <2>1, StatusRevives DEF MarkRunning, ExpireWaiting
  <2> QED
    BY <2>2 DEF Contract!TeardownNext
<1>2. CASE EnqueueExpired(t)
  <2>1. PICK w \in waiter[t].cur : UpsertPending(w)
    BY <1>2 DEF EnqueueExpired
  <2>2. Contract!Open(w) /\ w \in Workspace
    BY <1>0, <1>2, <2>1, UpsertWrites, ContractOpen DEF EnqueueExpired, OnlyRow
  <2> QED
    BY <2>2 DEF Contract!TeardownNext
<1>3. CASE \/ WaitingRead(t) \/ WaitingCheck(t) \/ WithinTimeout(t)
           \/ StartUsageSessionForColdWorkspace(t)
  BY <1>3, TablesUntouched DEF WaitingRead, WaitingCheck, WithinTimeout,
       StartUsageSessionForColdWorkspace, tables
<1> QED
  BY <1>1, <1>2, <1>3 DEF WaiterStep

\* Every step of the system is one of the contract, or not seen by it.
LEMMA StepKeepsContract ==
  ASSUME IInv, [Next]_vars
  PROVE  [Contract!TeardownNext]_<<TeardownView, late>>
<1>1. CASE UNCHANGED vars \/ CheckStuckGpus \/ CheckPortLeaks \/ WorkerCrash
  BY <1>1, TablesUntouched DEF vars, tables, CheckStuckGpus, CheckPortLeaks, WorkerCrash
<1> QED
  BY <1>1, NextCases, PassKeepsContract, RequestKeepsContract, WaiterKeepsContract,
     LaunchKeepsContract

\* Taking workspaces down, with all its passes, retries, crashes, launches that go on and
\* writers that overwrite one another, implements the contract: what is held when a cleanup
\* is asked for is given back in order, and the cleanup is done when nothing of that is held
\* any more, or given up after all attempts.
THEOREM TeardownIsKept == Spec => ImplementsTeardown
<1>1. Init => IInv
  BY InvInit
<1>2. IInv /\ [Next]_vars => IInv'
  BY InvNext
<1>3. IInv /\ [Next]_vars => [Contract!TeardownNext]_<<TeardownView, late>>
  BY StepKeepsContract
<1>4. Init => Contract!TeardownInit
  BY ContractInitially
<1> QED
  BY <1>1, <1>2, <1>3, <1>4, PTL DEF Spec, ImplementsTeardown, Contract!TeardownSpec
=============================================================================
