-------------------------- MODULE WorkspaceCleanup --------------------------
(***************************************************************************)
(* Termination of workspaces: the API and the idle job queue it, passes of *)
(* the cleanup job carry it out, the sweeper recovers what was dropped,    *)
(* and the warm-pool job, the agent's verification result and the incident *)
(* job write the same rows without looking at what the others do.          *)
(*                                                                         *)
(* A workspace starts with a VM: booted and waiting for its agent, being   *)
(* handed to a user by launches that are still under way, in use, or left  *)
(* in CREATING by a worker that died.  Every await that changes state is a *)
(* step; an update by id is unconditional, as in Prisma.                   *)
(***************************************************************************)
EXTENDS Naturals

CONSTANTS Workspace,      \* workspaces
          Cleaner,        \* passes of processWorkspaceCleanupJobs under way
          Waiter,         \* passes of processWaitingWorkspaces under way
          Launch,         \* launches that have assigned a warm workspace
          MaxAttempts,    \* maxAttempts of a cleanup job
          MaxFaults,      \* bound on failed steps and worker crashes
          VerifyOutcome   \* results an agent may post: "pass", "fail"

ASSUME CleanupAssumption ==
  /\ MaxAttempts \in Nat \ {0}
  /\ MaxFaults \in Nat
  /\ VerifyOutcome \subseteq {"pass", "fail"}

VARIABLES status,     \* table workspaces: status
          held,       \* what it still holds (Resource), without what is in late
          late,       \* the entry points taken after its cleanup was asked for
          billed,     \* workspaces with a RUNNING usage session
          fresh,      \* workspaces whose last heartbeat is younger than 30 s
          job,        \* table workspace_cleanup_jobs, one row per workspace
          cleaner,    \* per pass: rows read, and the job it works on
          waiter,     \* per pass: rows read, and the one it works on
          queueing,   \* workspaces read by a thread that will terminate them
          enqueuing,  \* marked TERMINATING by a thread that has yet to enqueue
          verifying,  \* workspaces a verification result has been checked against
          launching,  \* per launch: its next step, and the workspace it assigned
          repair,     \* what the incident job has read
          faults      \* failed steps and crashes so far

tables == <<status, held, late, billed, job>>
threads == <<cleaner, waiter, queueing, enqueuing, verifying, launching, repair>>
vars == <<tables, fresh, threads, faults>>

\* vm: on the hypervisor, no deletion accepted yet.  gpu: fleet_gpus not FREE.
\* allocation, endpoint: the row's releasedAt is null.  lease: ports taken in
\* the memory of the gateway.
Resource == {"vm", "gpu", "allocation", "endpoint", "lease"}
EntryPoint == {"endpoint", "lease"}
Status   == {"CREATING", "WAITING_FOR_AGENT", "ASSIGNING", "RUNNING_ASSIGNED",
             "TERMINATING", "TERMINATED", "FAILED"}
Assigned == [pc : {"ports", "endpoint", "session", "over"}, of : Workspace]
Active   == {"PENDING", "RUNNING", "RETRY"}
JobRow   == [status : Active \cup {"none", "DONE", "FAILED"},
             attemptCount : 0..MaxAttempts, due : BOOLEAN]
CleanupPC == {"finalize", "ports", "vm", "gpu", "allocation", "endpoint",
              "terminate", "done", "failed"}
Pass      == [pc : CleanupPC \cup {"idle", "sweep", "jobs"},
              creating : SUBSET Workspace, stale : SUBSET Workspace,
              todo : SUBSET Workspace, cur : SUBSET Workspace, last : BOOLEAN]
Wait      == [pc : {"idle", "mark", "open", "timeout", "enqueue"},
              todo : SUBSET Workspace, cur : SUBSET Workspace]

IdlePass == [pc |-> "idle", creating |-> {}, stale |-> {},
             todo |-> {}, cur |-> {}, last |-> FALSE]
IdleWait == [pc |-> "idle", todo |-> {}, cur |-> {}]

TypeOK ==
  /\ status \in [Workspace -> Status]
  /\ held \in [Workspace -> SUBSET Resource]
  /\ late \in [Workspace -> SUBSET EntryPoint]
  /\ billed \subseteq Workspace
  /\ fresh \subseteq Workspace
  /\ job \in [Workspace -> JobRow]
  /\ cleaner \in [Cleaner -> Pass]
  /\ waiter \in [Waiter -> Wait]
  /\ queueing \subseteq Workspace
  /\ enqueuing \subseteq Workspace
  /\ verifying \subseteq Workspace
  /\ launching \in [Launch -> Assigned]
  /\ repair \in [gpus : SUBSET Workspace, endpoints : SUBSET Workspace]
  /\ faults \in Nat

\* Only a workspace handed to a user has ports and an open usage session; the
\* launches of one that is ASSIGNING have yet to ask the gateway.
Init ==
  /\ status \in [Workspace -> {"CREATING", "WAITING_FOR_AGENT", "ASSIGNING",
                               "RUNNING_ASSIGNED"}]
  /\ held = [w \in Workspace |-> IF status[w] = "RUNNING_ASSIGNED" THEN Resource
                                 ELSE {"vm", "gpu", "allocation"}]
  /\ late = [w \in Workspace |-> {}]
  /\ billed = {w \in Workspace : status[w] = "RUNNING_ASSIGNED"}
  /\ fresh = {}
  /\ job = [w \in Workspace |-> [status |-> "none", attemptCount |-> 0, due |-> FALSE]]
  /\ cleaner = [c \in Cleaner |-> IdlePass]
  /\ waiter = [t \in Waiter |-> IdleWait]
  /\ queueing = {}
  /\ enqueuing = {}
  /\ verifying = {}
  /\ launching \in [Launch -> Assigned]
  /\ \A l \in Launch :
       launching[l].pc = IF status[launching[l].of] = "ASSIGNING" THEN "ports" ELSE "over"
  /\ repair = [gpus |-> {}, endpoints |-> {}]
  /\ faults = 0

SetStatus(w, s) == status' = [status EXCEPT ![w] = s]
Drop(w, R)      == /\ held' = [held EXCEPT ![w] = @ \ R]
                   /\ late' = [late EXCEPT ![w] = @ \ R]

\* All that is taken: the tables and the gateway do not tell late from held.
InUse(w) == held[w] \cup late[w]

\* The upsert every path uses: attemptCount is left alone.
UpsertPending(w) ==
  job' = [job EXCEPT ![w] = [@ EXCEPT !.status = "PENDING", !.due = TRUE]]

-----------------------------------------------------------------------------
(* Queueing a termination.                                                 *)

\* A terminate request of its user or of an author, the budget monitor, or
\* the end of a run: refused once the workspace is TERMINATED or FAILED.
TerminateRead(w) ==
  /\ status[w] \notin {"TERMINATED", "FAILED"}
  /\ queueing' = queueing \cup {w}
  /\ UNCHANGED <<tables, fresh, cleaner, waiter, enqueuing, verifying, launching, repair, faults>>

\* Fault: a workspace that has been cleaned up once is not looked at again.
IdleTerminationReadOnce(w) ==
  /\ status[w] = "RUNNING_ASSIGNED"
  /\ job[w].status = "none"
  /\ queueing' = queueing \cup {w}
  /\ UNCHANGED <<tables, fresh, cleaner, waiter, enqueuing, verifying, launching, repair, faults>>

\* Idle job: the agent is silent, or the GPU unused for long.
IdleTerminationRead(w) ==
  /\ status[w] = "RUNNING_ASSIGNED"
  /\ queueing' = queueing \cup {w}
  /\ UNCHANGED <<tables, fresh, cleaner, waiter, enqueuing, verifying, launching, repair, faults>>

\* One transaction, whatever the status has become since it was read.
QueueTermination(w) ==
  /\ w \in queueing
  /\ queueing' = queueing \ {w}
  /\ SetStatus(w, "TERMINATING")
  /\ UpsertPending(w)
  /\ UNCHANGED <<held, late, billed, fresh, cleaner, waiter, enqueuing, verifying, launching, repair, faults>>

\* The budget monitor, the run executor and the author's action mark the
\* workspace first; the job is enqueued in a second step, by the author never.
MarkTerminating(w) ==
  /\ w \in queueing
  /\ queueing' = queueing \ {w}
  /\ SetStatus(w, "TERMINATING")
  /\ enqueuing' \in {enqueuing, enqueuing \cup {w}}
  /\ UNCHANGED <<held, late, billed, job, fresh, cleaner, waiter, verifying, launching, repair, faults>>

EnqueueCleanup(w) ==
  /\ w \in enqueuing
  /\ enqueuing' = enqueuing \ {w}
  /\ UpsertPending(w)
  /\ UNCHANGED <<status, held, late, billed, fresh, cleaner, waiter, queueing, verifying, launching, repair, faults>>

-----------------------------------------------------------------------------
(* A pass of the cleanup job: sweep, then read the jobs that are due.      *)

\* Fault: the sweeper only recovers workspaces that have no job row.
SweepReadMissing(c, stale, creating) ==
  /\ cleaner[c].pc = "idle"
  /\ \A w \in stale : status[w] = "TERMINATING" /\ job[w].status = "none"
  /\ \A w \in creating : status[w] = "CREATING"
  /\ cleaner' = [cleaner EXCEPT ![c] = [IdlePass EXCEPT !.pc = "sweep", !.stale = stale,
                                                        !.creating = creating]]
  /\ UNCHANGED <<tables, fresh, waiter, queueing, enqueuing, verifying, launching, repair, faults>>

\* A row counts as stale 10 (TERMINATING) or 15 minutes (CREATING) after its
\* last update: any of the rows in those states may be.
SweepRead(c, stale, creating) ==
  /\ cleaner[c].pc = "idle"
  /\ \A w \in stale : status[w] = "TERMINATING"
  /\ \A w \in creating : status[w] = "CREATING"
  /\ cleaner' = [cleaner EXCEPT ![c] = [IdlePass EXCEPT !.pc = "sweep", !.stale = stale,
                                                        !.creating = creating]]
  /\ UNCHANGED <<tables, fresh, waiter, queueing, enqueuing, verifying, launching, repair, faults>>

MarkStaleCreating(c) ==
  /\ \E w \in cleaner[c].creating :
       /\ SetStatus(w, "TERMINATING")
       /\ cleaner' = [cleaner EXCEPT ![c] = [@ EXCEPT !.creating = cleaner[c].creating \ {w},
                                                      !.stale = cleaner[c].stale \cup {w}]]
  /\ UNCHANGED <<held, late, billed, job, fresh, waiter, queueing, enqueuing, verifying, launching, repair, faults>>

SweepUpsert(c) ==
  /\ \E w \in cleaner[c].stale :
       /\ UpsertPending(w)
       /\ cleaner' = [cleaner EXCEPT ![c].stale = cleaner[c].stale \ {w}]
  /\ UNCHANGED <<status, held, late, billed, fresh, waiter, queueing, enqueuing, verifying, launching, repair, faults>>

\* Fault: a job left RUNNING by a crash is not picked up again.
DueJobsNotRunning == {w \in Workspace : job[w].status \in {"PENDING", "RETRY"} /\ job[w].due}

DueJobs == {w \in Workspace : job[w].status \in Active /\ job[w].due}

ReadJobs(c) ==
  /\ cleaner[c].pc = "sweep"
  /\ cleaner[c].stale = {}
  /\ cleaner[c].creating = {}
  /\ cleaner' = [cleaner EXCEPT ![c] =
                   IF DueJobs = {} THEN IdlePass
                   ELSE [IdlePass EXCEPT !.pc = "jobs", !.todo = DueJobs]]
  /\ UNCHANGED <<tables, fresh, waiter, queueing, enqueuing, verifying, launching, repair, faults>>

\* The row becomes RUNNING whatever it is by now.  attemptCount only matters
\* against maxAttempts, so it is not counted further.
StartAttempt(c) ==
  /\ cleaner[c].pc = "jobs"
  /\ \E w \in cleaner[c].todo :
       LET n == IF job[w].attemptCount < MaxAttempts
                THEN job[w].attemptCount + 1 ELSE MaxAttempts
       IN  /\ job' = [job EXCEPT ![w] = [@ EXCEPT !.status = "RUNNING",
                                                  !.attemptCount = n]]
           /\ cleaner' = [cleaner EXCEPT ![c] =
                            [@ EXCEPT !.pc = "finalize", !.cur = {w},
                                      !.todo = cleaner[c].todo \ {w},
                                      !.last = (n = MaxAttempts)]]
  /\ UNCHANGED <<status, held, late, billed, fresh, waiter, queueing, enqueuing, verifying, launching, repair, faults>>

-----------------------------------------------------------------------------
(* The steps of one attempt, in order.  A call may take effect and its     *)
(* answer be lost: then the attempt goes to its catch block all the same.  *)

Goto(c, pc) == cleaner' = [cleaner EXCEPT ![c].pc = pc]

Fails(c) ==
  /\ faults < MaxFaults
  /\ faults' = faults + 1
  /\ Goto(c, "failed")

\* w is the workspace of the attempt, at the step pc; it goes on, or fails.
Attempt(c, w, pc, next) ==
  /\ cleaner[c].pc = pc
  /\ w \in cleaner[c].cur
  /\ \/ Goto(c, next) /\ UNCHANGED faults
     \/ Fails(c)
  /\ UNCHANGED <<job, fresh, waiter, queueing, enqueuing, verifying, launching, repair>>

FinalizeUsageSessions(c, w) ==
  /\ Attempt(c, w, "finalize", "ports")
  /\ billed' = billed \ {w}
  /\ UNCHANGED <<status, held, late>>

\* Fault: a gateway that does not answer is taken for success.
ReleaseGatewayPortsBestEffort(c, w) ==
  /\ Attempt(c, w, "ports", "vm")
  /\ Drop(w, {"endpoint", "lease"}) \/ UNCHANGED <<held, late>>
  /\ UNCHANGED <<status, billed>>

\* The gateway marks the endpoint row, then frees the ports.
ReleaseGatewayPorts(c, w) ==
  /\ Attempt(c, w, "ports", "vm")
  /\ Drop(w, {"endpoint", "lease"})
  /\ UNCHANGED <<status, billed>>

\* Fault: an error of the hypervisor is logged and the attempt goes on.
DeleteVmIgnored(c, w) ==
  /\ Attempt(c, w, "vm", "gpu")
  /\ Drop(w, {"vm"}) \/ UNCHANGED <<held, late>>
  /\ UNCHANGED <<status, billed>>

\* stopVm, whose errors are ignored, and deleteVm.
DeleteVm(c, w) ==
  /\ Attempt(c, w, "vm", "gpu")
  /\ Drop(w, {"vm"})
  /\ UNCHANGED <<status, billed>>

FreeGpu(c, w) ==
  /\ Attempt(c, w, "gpu", "allocation")
  /\ Drop(w, {"gpu"})
  /\ UNCHANGED <<status, billed>>

ReleaseAllocation(c, w) ==
  /\ Attempt(c, w, "allocation", "endpoint")
  /\ Drop(w, {"allocation"})
  /\ UNCHANGED <<status, billed>>

ReleaseEndpoint(c, w) ==
  /\ Attempt(c, w, "endpoint", "terminate")
  /\ Drop(w, {"endpoint"})
  /\ UNCHANGED <<status, billed>>

MarkTerminated(c, w) ==
  /\ Attempt(c, w, "terminate", "done")
  /\ SetStatus(w, "TERMINATED")
  /\ UNCHANGED <<held, late, billed>>

\* The step fails before it has any effect.
StepFails(c) ==
  /\ cleaner[c].pc \in CleanupPC \ {"failed"}
  /\ Fails(c)
  /\ UNCHANGED <<tables, fresh, waiter, queueing, enqueuing, verifying, launching, repair>>

\* On to the next job of the pass.
NextJob(c) == cleaner' = [cleaner EXCEPT ![c] =
                            IF cleaner[c].todo = {} THEN IdlePass
                            ELSE [IdlePass EXCEPT !.pc = "jobs", !.todo = cleaner[c].todo]]

MarkDone(c) ==
  /\ cleaner[c].pc = "done"
  /\ \E w \in cleaner[c].cur :
       job' = [job EXCEPT ![w] = [@ EXCEPT !.status = "DONE", !.due = TRUE]]
  /\ \/ NextJob(c) /\ UNCHANGED faults
     \/ Fails(c)
  /\ UNCHANGED <<status, held, late, billed, fresh, waiter, queueing, enqueuing, verifying, launching, repair>>

\* Fault: any failed attempt dead-letters the job.
MarkFailedAttemptEarly(c) ==
  /\ cleaner[c].pc = "failed"
  /\ \E w \in cleaner[c].cur :
       job' = [job EXCEPT ![w] = [@ EXCEPT !.status = "FAILED", !.due = TRUE]]
  /\ NextJob(c)
  /\ UNCHANGED <<status, held, late, billed, fresh, waiter, queueing, enqueuing, verifying, launching, repair, faults>>

\* The catch block.  Exhaustion is judged on the count this attempt started
\* with; nextAttemptAt is null, which reads as due, after the last attempt.
MarkFailedAttempt(c) ==
  /\ cleaner[c].pc = "failed"
  /\ \E w \in cleaner[c].cur :
       job' = [job EXCEPT ![w] = [@ EXCEPT
                 !.status = IF cleaner[c].last THEN "FAILED" ELSE "RETRY",
                 !.due = cleaner[c].last]]
  /\ NextJob(c)
  /\ UNCHANGED <<status, held, late, billed, fresh, waiter, queueing, enqueuing, verifying, launching, repair, faults>>

BackoffElapses(w) ==
  /\ job[w].status \in Active
  /\ ~job[w].due
  /\ job' = [job EXCEPT ![w].due = TRUE]
  /\ UNCHANGED <<status, held, late, billed, fresh, threads, faults>>

CleanupStep(c) ==
  \/ MarkStaleCreating(c)
  \/ SweepUpsert(c)
  \/ ReadJobs(c)
  \/ StartAttempt(c)
  \/ \E w \in Workspace : \/ FinalizeUsageSessions(c, w)
                          \/ ReleaseGatewayPorts(c, w)
                          \/ DeleteVm(c, w)
                          \/ FreeGpu(c, w)
                          \/ ReleaseAllocation(c, w)
                          \/ ReleaseEndpoint(c, w)
                          \/ MarkTerminated(c, w)
  \/ MarkDone(c)
  \/ MarkFailedAttempt(c)

-----------------------------------------------------------------------------
(* A pass over the workspaces that wait for their agent.                   *)

WaitingRows == {w \in Workspace : status[w] = "WAITING_FOR_AGENT"}

WaitingRead(t) ==
  /\ waiter[t] = IdleWait
  /\ WaitingRows # {}
  /\ waiter' = [waiter EXCEPT ![t].todo = WaitingRows]
  /\ UNCHANGED <<tables, fresh, cleaner, queueing, enqueuing, verifying, launching, repair, faults>>

\* The row is read again, for its heartbeat and its address, not its status.
WaitingCheck(t) ==
  /\ waiter[t].pc = "idle"
  /\ \E w \in waiter[t].todo, pc \in {"mark", "timeout"} :
       /\ pc = "mark" => w \in fresh
       /\ waiter' = [waiter EXCEPT ![t] = [pc |-> pc, cur |-> {w},
                                         todo |-> waiter[t].todo \ {w}]]
  /\ UNCHANGED <<tables, fresh, cleaner, queueing, enqueuing, verifying, launching, repair, faults>>

MarkRunning(t) ==
  /\ waiter[t].pc = "mark"
  /\ \E w \in waiter[t].cur : SetStatus(w, "RUNNING_ASSIGNED")
  /\ waiter' = [waiter EXCEPT ![t].pc = "open"]
  /\ UNCHANGED <<held, late, billed, job, fresh, cleaner, queueing, enqueuing, verifying, launching, repair, faults>>

\* Guard and insert of a usage session; UsageBilling has the two as steps.
StartUsageSessionForColdWorkspace(t) ==
  /\ waiter[t].pc = "open"
  /\ billed' = billed \cup waiter[t].cur
  /\ waiter' = [waiter EXCEPT ![t].pc = "timeout"]
  /\ UNCHANGED <<status, held, late, job, fresh, cleaner, queueing, enqueuing, verifying, launching, repair, faults>>

\* Reached by every row, also by one that has just become RUNNING_ASSIGNED.
WithinTimeout(t) ==
  /\ waiter[t].pc = "timeout"
  /\ waiter' = [waiter EXCEPT ![t] = [@ EXCEPT !.pc = "idle", !.cur = {}]]
  /\ UNCHANGED <<tables, fresh, cleaner, queueing, enqueuing, verifying, launching, repair, faults>>

\* More than 300 s since the boot: TERMINATING, and the job in a second step.
ExpireWaiting(t) ==
  /\ waiter[t].pc = "timeout"
  /\ \E w \in waiter[t].cur : SetStatus(w, "TERMINATING")
  /\ waiter' = [waiter EXCEPT ![t].pc = "enqueue"]
  /\ UNCHANGED <<held, late, billed, job, fresh, cleaner, queueing, enqueuing, verifying, launching, repair, faults>>

EnqueueExpired(t) ==
  /\ waiter[t].pc = "enqueue"
  /\ \E w \in waiter[t].cur : UpsertPending(w)
  /\ waiter' = [waiter EXCEPT ![t] = [@ EXCEPT !.pc = "idle", !.cur = {}]]
  /\ UNCHANGED <<status, held, late, billed, fresh, cleaner, queueing, enqueuing, verifying, launching, repair, faults>>

-----------------------------------------------------------------------------
(* Calls of the agent, which runs in the VM.                               *)

Live == {"CREATING", "WAITING_FOR_AGENT", "ASSIGNING", "RUNNING_ASSIGNED"}

\* Only a waiting pass that has the row to check looks at its heartbeat.
BeingWaitedFor == UNION {waiter[t].todo : t \in Waiter}

Heartbeat(w) ==
  /\ w \in BeingWaitedFor
  /\ "vm" \in held[w]
  /\ status[w] \in Live
  /\ fresh' = fresh \cup {w}
  /\ UNCHANGED <<tables, threads, faults>>

HeartbeatAges(w) ==
  /\ w \in BeingWaitedFor
  /\ fresh' = fresh \ {w}
  /\ UNCHANGED <<tables, threads, faults>>

VerifyRead(w) ==
  /\ "vm" \in held[w]
  /\ status[w] \in Live
  /\ verifying' = verifying \cup {w}
  /\ UNCHANGED <<tables, fresh, cleaner, waiter, queueing, enqueuing, launching, repair, faults>>

\* The status is written whatever it has become; no usage session is opened.
VerifyWrite(w) ==
  /\ w \in verifying
  /\ \E outcome \in VerifyOutcome :
       SetStatus(w, IF outcome = "pass" THEN "RUNNING_ASSIGNED" ELSE "FAILED")
  /\ verifying' = verifying \ {w}
  /\ UNCHANGED <<held, late, billed, job, fresh, cleaner, waiter, queueing, enqueuing, launching, repair, faults>>

-----------------------------------------------------------------------------
(* Launches of a warm workspace, two of which may have assigned the same:  *)
(* each goes on whatever becomes of the row, or stops anywhere.            *)

LaunchStep(l, pc, next) ==
  /\ launching[l].pc = pc
  /\ launching' = [launching EXCEPT ![l].pc = next]

\* What is taken anew, for a cleanup to release or behind its back.
Take(w, what) ==
  LET new == what \ InUse(w)
  IN  IF job[w].status = "none"
      THEN held' = [held EXCEPT ![w] = @ \cup new] /\ UNCHANGED late
      ELSE late' = [late EXCEPT ![w] = @ \cup new] /\ UNCHANGED held

\* The gateway gives the lease it has in memory, or a new one, row and all.
AllocatePorts(l) ==
  /\ LaunchStep(l, "ports", "endpoint")
  /\ LET w == launching[l].of IN Take(w, IF "lease" \in InUse(w) THEN {} ELSE EntryPoint)
  /\ UNCHANGED <<status, billed, job, fresh, cleaner, waiter, queueing, enqueuing, verifying, repair, faults>>

\* The launch writes the row as well, with releasedAt null.
UpsertEndpoint(l) ==
  /\ LaunchStep(l, "endpoint", "session")
  /\ Take(launching[l].of, {"endpoint"})
  /\ UNCHANGED <<status, billed, job, fresh, cleaner, waiter, queueing, enqueuing, verifying, repair, faults>>

\* Session and status in one transaction; the status also if a session is open.
StartUsageSessionWithStatus(l) ==
  /\ LaunchStep(l, "session", "over")
  /\ billed' = billed \cup {launching[l].of}
  /\ SetStatus(launching[l].of, "RUNNING_ASSIGNED")
  /\ UNCHANGED <<held, late, job, fresh, cleaner, waiter, queueing, enqueuing, verifying, repair, faults>>

-----------------------------------------------------------------------------
(* The incident job, and crashes.                                          *)

Retired == {w \in Workspace : status[w] \in {"TERMINATED", "FAILED"}}

CheckStuckGpus ==
  /\ repair' = [repair EXCEPT !.gpus = {w \in Retired : "gpu" \in held[w]}]
  /\ UNCHANGED <<tables, fresh, cleaner, waiter, queueing, enqueuing, verifying, launching, faults>>

CheckPortLeaks ==
  /\ repair' = [repair EXCEPT !.endpoints = {w \in Retired : "endpoint" \in InUse(w)}]
  /\ UNCHANGED <<tables, fresh, cleaner, waiter, queueing, enqueuing, verifying, launching, faults>>

FreeStuckGpu(w) ==
  /\ w \in repair.gpus
  /\ repair' = [repair EXCEPT !.gpus = @ \ {w}]
  /\ Drop(w, {"gpu"})
  /\ UNCHANGED <<status, billed, job, fresh, cleaner, waiter, queueing, enqueuing, verifying, launching, faults>>

\* Only the row: the gateway keeps the ports.
ReleaseLeakedPort(w) ==
  /\ w \in repair.endpoints
  /\ repair' = [repair EXCEPT !.endpoints = @ \ {w}]
  /\ Drop(w, {"endpoint"})
  /\ UNCHANGED <<status, billed, job, fresh, cleaner, waiter, queueing, enqueuing, verifying, launching, faults>>

\* The worker exits: its passes are lost, requests to the API are not.
WorkerCrash ==
  /\ faults < MaxFaults
  /\ faults' = faults + 1
  /\ cleaner' = [c \in Cleaner |-> IdlePass]
  /\ waiter' = [t \in Waiter |-> IdleWait]
  /\ repair' = [gpus |-> {}, endpoints |-> {}]
  /\ queueing' \in SUBSET queueing
  /\ enqueuing' \in SUBSET enqueuing
  /\ UNCHANGED <<tables, fresh, verifying, launching>>

Next ==
  \/ \E c \in Cleaner :
       \/ CleanupStep(c)
       \/ StepFails(c)
       \/ \E stale, creating \in SUBSET Workspace : SweepRead(c, stale, creating)
  \/ \E t \in Waiter : \/ WaitingRead(t)
                       \/ WaitingCheck(t)
                       \/ MarkRunning(t)
                       \/ StartUsageSessionForColdWorkspace(t)
                       \/ WithinTimeout(t)
                       \/ ExpireWaiting(t)
                       \/ EnqueueExpired(t)
  \/ \E w \in Workspace : \/ TerminateRead(w)
                          \/ IdleTerminationRead(w)
                          \/ QueueTermination(w)
                          \/ MarkTerminating(w)
                          \/ EnqueueCleanup(w)
                          \/ BackoffElapses(w)
                          \/ Heartbeat(w)
                          \/ HeartbeatAges(w)
                          \/ VerifyRead(w)
                          \/ VerifyWrite(w)
                          \/ FreeStuckGpu(w)
                          \/ ReleaseLeakedPort(w)
  \/ \E l \in Launch : \/ AllocatePorts(l)
                       \/ UpsertEndpoint(l)
                       \/ StartUsageSessionWithStatus(l)
  \/ CheckStuckGpus
  \/ CheckPortLeaks
  \/ WorkerCrash

Spec == Init /\ [][Next]_vars

\* leaderTick starts a pass whenever its interval is over, a pass that has
\* begun runs to its end, and a workspace nobody touches any more is read by
\* the sweeper, or by the idle job, once it is old enough.
SweepOf(w) ==
  /\ job[w].status \notin Active
  /\ \E c \in Cleaner, stale, creating \in SUBSET Workspace :
       w \in stale \cup creating /\ SweepRead(c, stale, creating)

IdleOf(w) == "vm" \notin held[w] /\ IdleTerminationRead(w)

CleanupFairness ==
  /\ \A c \in Cleaner : /\ WF_vars(CleanupStep(c))
                        /\ WF_vars(\E stale, creating \in SUBSET Workspace :
                                     SweepRead(c, stale, creating))
  /\ \A w \in Workspace : /\ SF_vars(SweepOf(w))
                          /\ WF_vars(IdleOf(w))
                          /\ WF_vars(QueueTermination(w))
                          /\ WF_vars(BackoffElapses(w))

FairSpec == Spec /\ CleanupFairness

-----------------------------------------------------------------------------
(* Properties.                                                             *)

\* The GPU allocation is marked released only after the VM that uses the GPU
\* is gone, however attempts fail, are retried, overlap or are cut short.
AllocationReleasedAfterVm ==
  \A w \in Workspace : "vm" \in held[w] => "allocation" \in held[w]

\* A workspace is TERMINATED, and its cleanup job DONE, only when it holds nothing
\* any more, in the database, at the hypervisor or in the gateway, but entry points
\* that a launch still under way took after the cleanup had been asked for.
NothingLeftBehind ==
  \A w \in Workspace :
    status[w] = "TERMINATED" \/ job[w].status = "DONE" => held[w] = {}

\* A queued cleanup leaves the queue only when the workspace holds nothing or
\* its attempts are used up, and then as FAILED: nobody drops one silently.
CleanupNotDropped ==
  [][\A w \in Workspace :
       job[w].status \in Active /\ job'[w].status \notin Active =>
         \/ job'[w].status = "DONE" /\ held'[w] = {}
         \/ job'[w].status = "FAILED" /\ job'[w].attemptCount = MaxAttempts]_vars

\* What the contract of Teardown sees of the tables and of the hypervisor.
TeardownView ==
  [w \in Workspace |-> [holds   |-> held[w],
                        over    |-> status[w] = "TERMINATED",
                        cleanup |-> IF job[w].status \in Active THEN "open" ELSE job[w].status,
                        tries   |-> job[w].attemptCount]]

Contract == INSTANCE Teardown WITH teardown <- TeardownView

\* All the writers together, which overwrite one another's rows without looking, keep to
\* the contract: each step is one of its steps on one workspace, or not seen by it.
ImplementsTeardown == Contract!TeardownSpec

\* The retry and the sweeper: a workspace does not stay TERMINATING for ever,
\* though its job may be lost, dead-lettered, or marked DONE under the request.
NeverStuckTerminating ==
  \A w \in Workspace : status[w] = "TERMINATING" ~> status[w] # "TERMINATING"

\* A queued cleanup frees everything but what a launch takes meanwhile, or is dead-lettered for an operator to
\* see, though workers crash, calls fail and the status is overwritten.
QueuedCleanupSettles ==
  \A w \in Workspace :
    job[w].status \in Active ~> held[w] = {} \/ job[w].status = "FAILED"

\* A late verification result or launch, or a heartbeat check, may mark a workspace
\* running after its VM is gone; the idle job takes it down again.
GhostIsTakenDown ==
  \A w \in Workspace :
    status[w] = "RUNNING_ASSIGNED" /\ "vm" \notin held[w] ~> status[w] # "RUNNING_ASSIGNED"

\* INV-5 of docs/billing-invariants.md: terminating leaves no RUNNING session.
TerminatedNotBilled ==
  \A w \in Workspace : status[w] = "TERMINATED" => w \notin billed

\* Comment of the verify-result route: the worker cleans up FAILED workspaces.
FailedIsCleaned ==
  \A w \in Workspace : status[w] = "FAILED" ~> "vm" \notin held[w]
=============================================================================
