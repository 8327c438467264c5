# Formal models of the Aldaro control plane

This directory holds TLA+ models of the parts of Aldaro that decide who has a
GPU workspace, what it holds, and what is charged for it; the TLC
configurations that check them on small instances; and proofs, checked by
TLAPS, of the properties that should hold on every instance. File and line
references are to `src/`.

1. [The system](#1-the-system)
2. [Inventory of components](#2-inventory-of-components)
3. [Modules](#3-modules)
4. [How the models correspond to the code](#4-how-the-models-correspond-to-the-code)
5. [Runs: what is checked, and with which bounds](#5-runs)
6. [Fairness](#6-fairness)
7. [Proofs](#7-proofs)
8. [What the models show that the documents do not say](#8-disagreements-found)
9. [What is not modelled](#9-what-is-not-modelled)
10. [Plan](#10-plan)

## 1. The system

A user asks the **API** for a workspace. The API assigns a pre-booted *warm*
workspace or creates a *cold* row that the **worker** provisions on the
hypervisor: it claims a GPU, clones a VM, boots it. An **agent** in the VM posts
heartbeats and a verification result to the API. While the workspace runs, the
**gateway** forwards its ports and a *usage session* counts its seconds. When it
is terminated (by the user, a timeout, the budget monitor, the idle job, a
finished run, an author) the worker's cleanup job closes the sessions, releases
ports, VM, GPU and rows, and the metering job reports the session to Stripe.

All of this goes through one Postgres database (Prisma, READ COMMITTED unless
said otherwise). There is no queue or lock manager: jobs are rows, and
coordination is by status columns, unique indexes and a handful of
transactions. That makes the following the hard behaviours:

* **Awaits are interleaving points.** Handlers read a row, await, and write it
  by id, without the condition they have read. Whatever another handler commits
  in between is overwritten.
* **Ticks overlap.** `leaderTick` (`worker/src/index.ts`) is a one-second
  `setInterval` without a guard against re-entry; jobs are claimed by elapsed time
  before they run. A pass slower than its interval is overtaken by the next one,
  so every job has to be correct with several passes of itself under way.
* **Anything may be the last step.** A pass can die, or an external call can
  fail with or without having had its effect, between any two steps.
* **External answers get lost.** Stripe, the gateway and the hypervisor are
  called over HTTP with timeouts, and called again.

## 2. Inventory of components

| component | state it keeps | operations | talks to | what makes it correct |
|---|---|---|---|---|
| usage sessions, outbox, metering | `usage_sessions`, `workspace_meter_event_outbox` | open, close with enqueue, send, retry, dead-letter | API, every terminating job, Stripe | one RUNNING session per workspace; closed iff enqueued; charged once for the stored total |
| termination and cleanup | `workspaces.status`, `workspace_cleanup_jobs`, the resources | queue, sweep, attempt (7 releases), retry, dead-letter, waiting pass, verification, incident repairs | gateway, hypervisor, agent | over or done only without what was held when the cleanup was asked for; nothing queued gets lost; no workspace stuck |
| GPU provisioning and warm pool | `fleet_gpus`, `gpu_allocations`, `vm_clone_semaphores`, `workspaces.vmid` | claim, clone, boot, roll back, sweep, spawn, shrink | hypervisor | no GPU or workspace with two passes; an allocated GPU has its row; slots, GPUs and rows come back |
| launch operations | `workspace_launch_operations`, `workspaces.assignedUserId` | look up, open, wait, assign, create, complete, fail | gateway | one workspace per idempotency key; every request told the same, final outcome |
| gateway leases | ports in memory, `workspace_endpoints` | allocate, release, reconcile at start | API, worker | who was told a lease keeps it, unless two calls for the workspace overlap; the lease of a workspace that is gone ends |
| exposed ports | `exposed_ports`, the gateway's proxy map | expose, release, change the mode, load at start | gateway | one mode per port, one its user chose |
| worker leadership | session lock, `worker_leader`, token in memory | acquire, fence, exit, restart | every job | somebody leads in the end |
| worker ticks | last-run times in memory | start a tick, start the due jobs | every job | a due job is started though others hang |
| runs and run executor | `runs`, reported charges | create, retry, cancel, agent events, every stage of a pass | warm pool, cleanup, Stripe | a run ends for good, or stays where the code lets it; is charged, and marked only when it is |
| persistent volumes | `volumes` | create, attach, detach, delete; the manager's lists | provisioning | not attached twice; no volume stuck half-way but for want of space |
| incident detection | `incidents` | count, open, refresh, resolve | the tables of all others | cleared when nothing is wrong any more |
| webhook delivery | `webhook_deliveries`, `webhook_endpoints` | queue, inline send, pass with retry, disable | the customer's endpoint | every delivery settles; DELIVERED was accepted |
| email outbox | `email_outbox` | queue, list, claim, outcome, recover | the mail service | a mail with attempts left is taken up |
| customer applications | `users`, `customer_applications`, mails | sign up, review, allow, suspend | email outbox | account, application and mail agree |
| budget monitor | budgets, alerts, `workspaces.status` | list, check, stop, warn | cleanup, mails | who stays over the limit is stopped |
| event retention | `events`, rollups | roll up, delete, each night | | nothing deleted that was not rolled up |
| spot pricing | `warm_pool_configs`, a session's price | price pass, launch, session start | launch, billing | no bait and switch; floor, ceiling, order |
| fleet aggregates, burst orchestrator, organisations, accounts, content, recommender, agent | one table each | | | see section 9 |

The hazards of the modelled parts (what could go wrong that a test would
hardly reach), each with its line and the properties aimed at it, are listed in
`PROJECT.json` under `hazards`.

## 3. Modules

| module | what it is |
|---|---|
| `BillingLedger` | abstract: a session is opened, closed and charged, in that order, once each, for the seconds it was closed with |
| `UsageBilling` | the tables, the openers and closers, the metering passes and Stripe; implements `BillingLedger` |
| `Teardown` | abstract: a workspace gives back what it holds, entry points before the VM and the claim on the GPU last; it is over, and its cleanup done, only when it holds nothing of what it held when the cleanup was asked for; entry points taken later are promised nothing; a cleanup asked for stays open until it is done or all its attempts are made |
| `WorkspaceCleanup` | termination from all its sources to TERMINATED, with retries, sweeps and repairs; implements `Teardown` |
| `GpuProvisioning` | from a CREATING row or a gap in the warm pool to a booted VM, with rollback, the fast path of terminate and the sweeps |
| `LaunchContract` | abstract: what an idempotent launch promises |
| `LaunchOperations` | `WorkspaceService.launch` with the run executor and the pool's shrinking as competitors; implements `LaunchContract` |
| `RunExecutor` | a run from its creation to its last state: executor, agent, cancel route, charges; the workspace's boot, address and end |
| `WorkerLeadership` | the lock of the database, the fencing token, and what a worker does when it loses them |
| `LeaderTick` | ticks that overlap, and jobs that may hang |
| `Incidents` | the passes of the incident detection and the authors who resolve |
| `Volumes` | the requests on volumes and the volume manager |
| `GatewayLeases` | the gateway's memory, the endpoint table, the API's launch and the cleanup, with crashes and reconciliation |
| `ExposedPorts` | the routes for exposed ports and what the gateway loads of them |
| `Fleet` | the six modules before, side by side |
| `WebhookDelivery`, `EmailOutbox` | the two outboxes, each with its overlapping passes |
| `Applications` | sign-up, review, allow list, suspension and their mails |
| `BudgetMonitor` | the pass over users and organisations against launches and ends of workspaces |
| `EventRetention` | the nightly rollup and deletion |
| `SpotPricing` | the price pass, the launches that read prices and the sessions that are billed at them |
| `BackOffice` | the six modules before, side by side |
| `MC*` | symmetry for TLC; in `MCLaunchOperations`, what each request may ask for |
| `*Proofs` | the theorems about the module they are named after; `FleetProofs` and `BackOfficeProofs` about its parts as well |

The modules meet at the tables. Each has a small, unconstrained
stand-in for what the others do to the tables it reads, and names it:
`LaunchOperations` ends workspaces in one step (`EndWorkspace`, `EndExtra`) where
`WorkspaceCleanup` has the steps; `GpuProvisioning` has the cleanup as far as it
frees VM, GPU and row, and `WorkspaceCleanup` starts with workspaces already
provisioned, of which launches may be handing one to a user (`AllocatePorts`, `UpsertEndpoint`,
`StartUsageSessionWithStatus`); both have a terminate request. `RunExecutor` boots, ends and cleans a workspace in
one step each (`Boot`, `EndSpace`, `CleanSpace`); `GatewayLeases` has the cleanup
as far as it frees ports, and its calls are the launches; `BudgetMonitor` and `SpotPricing` launch and end workspaces in a step.

`Fleet` and `BackOffice` put six components each side by side. These share no variable, so there is
nothing in their product that the parts do not show; a variable (`focus`, `desk`)
says which of them a behaviour is about, and the others stand still. One
run then checks all six, each under its own fairness, and the theorems of the parts are carried over to the
composition in `FleetProofs` and `BackOfficeProofs`.

Operators named `...Anyway`, `...Unfiltered`, `...OffByOne` and so on, each under a
comment that begins with "Fault:", are not part of the specifications. They are the plausible
mistakes each property is tested against: with the definition replaced, TLC
finds the property violated.

## 4. How the models correspond to the code

`PROJECT.json` maps each definition to its lines. The conventions:

* One action per await that changes state, or that reads what is later relied
  on. A Prisma `$transaction` is one action unless its isolation lets another
  transaction in between its statements; then its reads and writes are actions
  of their own (`AcquireCloneSemaphore`, `GetNextVmid`, `AssignWarmWorkspace`).
* An update by id is unconditional in the model if it is so in the code; an
  `updateMany` with a condition, and a unique index, are the guard.
* A thread (request or pass) is a `pc` and what it has read. "No value" is `{}`
  and a value `v` is `{v}`; vmid 0 is null.
* A clock is used only where seconds or days matter (`UsageBilling`, `EventRetention`). Elsewhere "old enough"
  or "due" is a step that may happen (`BackoffElapses`, `HeartbeatAges`,
  `WithinTimeout`, the sweep's sets of stale rows).
* Formatting, prices (but for `SpotPricing`), images, logs, audit events and e-mails are left out.

**UsageBilling.** `CreateSession` is the insert, refused by the partial unique index
on RUNNING sessions, which the openers' own `findFirst` does not replace.
`StampClose` computes the total from the copy read earlier; `CommitClose` is the
transaction that ends the session where it is still RUNNING and inserts the
outbox row. A metering pass reads the due rows (`MeterRead`), posts each
(`PostMeterEvent`: accepted, refused, or accepted with the answer lost) and
records the outcome from its stale copy. Stripe keeps one event per
identifier; that is the external assumption the whole scheme rests on, and
`metered` counts events by it. `STRIPE_SECRET_KEY` is taken to be set.

**WorkspaceCleanup.** `held[w]` is the set of things a workspace still holds; "vm" is
gone once the hypervisor has accepted the deletion. A launch that has assigned the workspace takes its entry points while
anybody may terminate it: `AllocatePorts` is the gateway's answer, `UpsertEndpoint` the API's own upsert with `releasedAt: null`
(`workspaceService.ts:360`), which comes whatever the row says by then, and `StartUsageSessionWithStatus` writes RUNNING_ASSIGNED. What they take
once the cleanup has been asked for is in `late[w]`; the code cannot tell the two apart, and the cleanup gives back both where it comes by. An attempt
(`FinalizeUsageSessions` .. `MarkTerminated`) repeats every release from the beginning.
`StepFails` is a call that throws, with or without effect. `IdleTerminationRead`,
`MarkTerminating` and `EnqueueCleanup` are the jobs that write status and job in two steps;
`QueueTermination` those that write both in one transaction. The agent's
heartbeat is one step, and happens where a waiting pass will look at it; its verification result is two (`VerifyRead`, `VerifyWrite`).

**GpuProvisioning.** One fleet node, and every GPU of the type asked for. A pass works
off the list of cold workspaces it has read (`ProcessCreatingWorkspaces`) or spawns a
warm one. `ClaimGpu` is the transaction of `claimFreeGpu`; the unique `gpuId` counts
released allocations too, so that a GPU freed by a cleanup makes every later
claim of it throw (`ClaimThrows`). The four rollback steps follow the order of the `catch` block:
GPU, allocation, row, VM. WAITING_FOR_AGENT stands for all later live statuses.

**LaunchOperations.** A request is single-use; a client's retry is another request
with the same key. `Lookup` is the read of the operation, first of all and after a
refused insert (`CreateOperation`, P2002); `Poll` and `PollTimeout` are
`waitForOperationWorkspace`. The launch itself runs from `CheckQuota` to `CompleteOperation`. `RecordingCutOff` is that
update throwing before or after its effect: the launch goes to its failure path although the operation may have been recorded.
`Sends` says which keys and payloads a request may come with.
`ReadWarmWorkspace` and `AssignWarmWorkspace` are two steps of one READ COMMITTED
transaction, between which another may commit. CREATING stands for the statuses of
a cold start. The payment and budget gates, prices and the endpoint row are
left out: they refuse before or do not decide who gets which workspace.

**RunExecutor.** A pass lists a run with `Pick` (one of the stages of `runExecutorTick`, by the status of the row)
and keeps the copy; what is left of the stage is its `todo`, one entry per await, and
every write is by id from that copy. The agent's events are read and written in
two steps (`ReadStatus`, `WriteStatus`, with `ValidTransitions` on the status read), and so is
the cancel route. `Charge`, `MarkReported` and `FailCharge` are `reportRunBilling`;
`PostCharge` and `PostMark` the API's own report. `GoOverdue` is hoursMax running out. `ip` holds the workspaces whose address is
known: without it `AwaitIp` passes the run over (`run-executor.ts:251`), `FindIp` is the warm-pool job's look-up for a workspace that waits for its agent, from its list
to its write, and `VerifyPass` the agent's verdict, which makes a workspace RUNNING_ASSIGNED with or without an address. Two branches of the code are
dead and have no action: a queued run never has a workspace, so that the shortcut of
`run-executor.ts:91` is not taken, and nothing calls `processTimedOutRuns`.

**WorkerLeadership.** The lock is one of a *session*, and a process has a pool of them: `TakeLock` is granted
to the connection that has it already and refused (`LockRefused`) to every other, one of the same
process too. The token is in memory before the row is written (`UpsertLeader`), and a tick reads the row
(`ReadLeader`) and compares (`CompareToken`). A worker that fails `MaxRetries`
times exits, and its connections close.

**LeaderTick.** A tick keeps the set of jobs its `now` finds due and works through them in order;
`StartJob` stamps the last run with the tick's own `now`, so that `younger` ticks may still find the job due and older ones do not.
`JobHangs` is a job that never returns. The fourteen jobs are numbers.

**Incidents.** A check counts, then opens, refreshes or resolves in steps of their own (`FindIncident`,
`CreateIncident`, `ResolveIncident`); `CheckThrows` leaves the rest of the pass out. Two checks stand for all: one with a
precondition that may silence it and one that decides about two types.

**Volumes.** `Decide...` is a request that reads, `Write...` the update that follows by id, with
what the database itself checks (the unique `attachedToWorkspaceId`). The manager works off a list (`ListVolumes`,
`MakeDisk`, `DropDisk`) whatever has happened to its members since, `Batch` of them at most. `lacking` are the volumes that no active node has the
space for, which changes at any time; one of these is passed over (`AwaitSpace`), as often as it is so.

**GatewayLeases.** `AskPorts` .. `TellPorts` is one launch's call for the workspace it has assigned, of which there may be several, in turn or at once:
a lease in memory is the answer (`AskPorts`), then an unreleased row (`ReadRow`, `RebuildEntry`); otherwise ports are picked in memory (`PickPorts`), the row is upserted (`UpsertLease`),
the memory completed (`CacheLease`), the API answered, which may have given up after 10 s (`AnswerDropped`) or upserts the row itself (`UpsertAgain`) and writes the ports to the workspace (`TellPorts`).
`contested` is a history of the live workspaces that two calls were in the gateway for at once.
`LoadLeases`, `ReleaseStale`, `Listen` are `reconcileLeases`. The cleaner releases in the row, in the gateway
(or fails to reach it) and ends; `ReleaseLeak` is the incident job.

**ExposedPorts.** The routes write the table, the gateway reads it at its start, and nothing else connects
the two (section 8).

**WebhookDelivery.** A sender works on a copy of the row. `Attempt` is a worker's pass on it, with `FailDelivery`
counting from the copy; `Inline...` is the sender of the test button, whose three attempts the pass may overtake.
Failures in a row disable the endpoint. The backoff is "due at any time".

**EmailOutbox.** `ListEmail`, `ClaimEmail`, then the outcome; `RecoverEmail` puts back what has been SENDING for five
minutes, be its pass dead or merely slow.

**Applications.** Sign-up is three creates (`CreateCustomer`, `CreateApplication`, `QueueReceived`), any of which may be the last
(`SignupStops`); a review two reads and a commit, as READ COMMITTED lets two reviews pass the second read together.

**BudgetMonitor.** The spend is a level (under, near, over) that moves; accounts are listed with action and cooldown, summed
when their turn comes, their workspaces listed and stopped one by one (`StopOffice`).

**EventRetention.** Events of one user and day share a rollup and are one group. A night's pass adds the groups of its window one at a time, then
deletes; `MaxMissed` bounds the days without a complete pass, and `RetentionAssumption` says that
this is less than the window (23 days in the code). That bound is the assumption under which the property is true.

**SpotPricing.** `SpotCents` is the code's formula in exact arithmetic, rounding included. A cold launch locks the price it reads
and its session starts later; a warm one is billed at the price of the moment.

## 5. Runs

A *pass* run ends with no error. Between them the pass runs take every action
and every disjunct of the next-state relations. A *violation* run checks one
property that a document, a comment or a test of the repository states, and
TLC shows it violated (section 8).

| run | instance | what it shows |
|---|---|---|
| `usage_billing` | 1 workspace, 2 sessions, 2 openers, 2 closers, 1 metering pass, 2 attempts, clock to 2, 1 abort | INV-1 and INV-2 of `docs/billing-invariants.md` under every race: one running session, ended iff enqueued |
| `usage_metering` | 1 session, 1 opener, 2 closers, 2 overlapping metering passes, 1 abort | charged once for the stored total; refines `BillingLedger`; every closed session is settled, for good |
| `workspace_cleanup` | 1 workspace, 2 cleanup passes, 1 waiting pass, 1 launch, 2 attempts, 1 fault, failed verification | the allocation row outlives the VM; TERMINATED or DONE means nothing is left of what was held when the cleanup was asked for |
| `cleanup_liveness` | 1 workspace, 1 cleanup pass, 1 waiting pass, 1 launch, 2 attempts, 2 faults, passed verification | refines `Teardown`, so that no cleanup is dropped; TERMINATING is left; queued cleanups settle; a workspace revived after its VM is gone is taken down |
| `gpu_provisioning` | 1 cold, 1 warm, 2 GPUs, 2 overlapping passes, no faults | no two passes with one workspace or GPU; every allocated GPU has its row |
| `provisioning_crash` | the same with 1 pass and 1 fault | every allocated GPU has its row, at a death in any step too; launches, slots and stuck GPUs settle |
| `launch` | 1 user, 2 keys, 2 payloads, 2 requests, 1 warm and 2 cold workspaces, 1 run, quota 1, 2 faults; what the requests ask for up to renaming | one workspace per operation; PROCESSING only with a leader; refines `LaunchContract`; every request is answered |
| `runs` | 1 run, 1 workspace, 1 pass with the agent and the cancel route beside it, 1 fault | a run is marked as reported only when charged; is finished for good, or stays in its upload or without an address; is charged if it stays finished with seconds to bill |
| `fleet` | per part: 2 workers with 2 connections, 2 faults; 2 ticks, 2 jobs, 1 hang; 2 passes, 1 throw; 2 volumes, 2 requests, batches of 2; 2 workspaces, 2 calls, 2 ports; 1 port, 2 requests | somebody leads; a due job starts; incidents clear; volumes settle, or wait for space, and none is attached twice; a lease lasts as long as its workspace, unless calls overlap, and no longer |
| `back_office` | per part: 1 delivery, 2 passes, 4 attempts; 2 mails, 2 passes, 3 attempts, 1 death; 2 customers, 2 reviews; 2 workspaces, 2 passes, 1 move of the budget; 3 groups, 7 days; 1 region, 1 rental, target and stock to 3 | deliveries and mails settle; DELIVERED was accepted; decisions are told; nothing is deleted unrolled; over budget is stopped; prices read are kept |
| `double_assignment`, `upload_ends` | the smallest instance that shows it | section 8 |

Distinct states: `usage_billing` 811 474, `workspace_cleanup` 1 902 270 (seen through a `VIEW` that leaves out whether a session is open,
which no step of that module reads) and `gpu_provisioning` 753 656 (with symmetry), `usage_metering` 16 590, `cleanup_liveness`
179 770, `provisioning_crash` 72 554, `launch` 153 250, `runs` 149 613, `fleet` 292 831, `back_office`
135 795; each takes at most about three and a half
minutes with two workers. Symmetry and the view are used in runs without liveness properties only.

Nine configurations belong to no run, and TLC finds their one property violated: `TerminatedBilled.cfg` and
`FailedCleanup.cfg` (of `WorkspaceCleanup`), `VmidCollision.cfg`, `OrphanVm.cfg` and `TerminateFastPath.cfg` (of
`GpuProvisioning`), `SharedPort.cfg` and `LeaseReplaced.cfg` (of `MCGatewayLeases`), `VolumeStarves.cfg` (of `Volumes`),
`InitializationEnds.cfg` (of `RunExecutor`). They reproduce disagreements
of section 8, each under its name there: `tlc -config VmidCollision.cfg GpuProvisioning`.

Why these bounds are enough to be interesting:

* *Workspaces.* Rows of different workspaces meet only in pools (GPUs, vmids,
  slots, the warm list, the `workspaceId` of operations). Where there is such a pool there are
  two workspaces; where there is none, as in billing and cleanup, one with
  several threads has all the races.
* *Threads.* Two of a kind give the overlap of a job with itself and the race of two
  requests; the invariants that hold for two are proved for any number.
* *Attempts.* With two there is a retry and a last one. *Faults.* One fault at
  every possible step; two where a cleanup has to be dead-lettered (two failed attempts).
* *The contract of a teardown* is checked with one pass, where its liveness is; that it is kept with any number of passes is a theorem.
* *Passes of the executor.* One at a time beside the agent and the cancel route, which is where its stale copies matter most; with two passes on one run
  the state space is too large for liveness. The theorems about `RunExecutor` hold for any number.
* *Leases.* Two calls, for one workspace or for two, and two ports: a port that is given away wrongly has a taker, and ports that a crash or a failed answer leaves taken let the other request find none.
* *Days.* To 6 with rollup at 1, deletion at 3 and one missed night: the window's first and last night can both be the one
  that is missed. *Tokens.* Eight: one that nobody has, awaits or has read is always left for two workers, though a new lock asks for a fresh one.
* *Attempts of webhooks.* Four, one more than the inline sender's three, so that both senders can have the last one.
* *Sessions.* Two per workspace: the second is opened while the first is
  closed and billed. *Clock.* To 2, so that two closers compute different totals.
* *Requests.* Two: a leader and one that waits, or two leaders of different
  keys for one warm workspace. Two more would only wait. The first comes with the first key and payload, the second with any: other
  choices are renamings of these.
* *Volumes.* Both fit into one batch; what a smaller batch does is in `VolumeStarves.cfg`.
* `Cold` of `LaunchOperations` has as many rows as there are operations, so that a cold launch
  always finds a fresh id. `MaxClones` = 1 makes the second clone wait.

Deadlock is checked except where the system may really come to rest:
`launch` and `double_assignment` (requests are single-use and run out), the
provisioning runs (ids of warm workspaces run out), `usage_billing` and `usage_metering` (all is charged or given up), `runs` and `upload_ends` (the run is finished),
`fleet` and `back_office` (bounded environments, the last day).

## 6. Fairness

Only what the code's scheduling gives:

* *Metering.* A tick comes every 15 s and a pass that has read its batch goes
  through it; a backoff elapses. Weak fairness of reading, of posting and of
  recording, per pass. No fairness for openers, closers or aborts.
* *Cleanup.* A pass that has begun runs to its end (its calls have timeouts, its
  errors are caught), weak fairness of `CleanupStep`; the tick comes every 15 s and its sweep
  reads whatever is old enough: weak fairness of sweeping at all, strong fairness
  of the sweep of a given stale workspace, since other writes make a row young
  again and only stop eventually. The idle job, queued requests and backoffs: weak.
  Nothing is assumed of the agent, the user, verification or the waiting pass.
* *Provisioning.* Weak fairness of a pass's steps and of both sweeps; strong fairness of
  starting a pass, as a pass under way disables it. Nothing is assumed of
  launches and terminations.
* *Launch.* Weak fairness of `Serve(r)`: an await returns, the gateway's by a 10 s
  timeout, the poll loop by its deadline. `RequestLost` and `RecordingCutOff` are bounded by `MaxFaults`; no fairness rests on either.
* *Runs.* A tick lists every run it has work for: strong fairness of listing a run, as a pass at work on it disables it.
  A pass and a handler finish what they have begun, hoursMax goes by, a VM boots or is given up, a cleanup takes the workspace down: weak.
  Nothing is assumed of the user, the idle job (it decides by heartbeats and GPU load, not by runs), an address being found, or the agent, which may be lost at any moment.
* *Leadership.* Weak fairness of what a live process does by its timers and awaits, and of `StartWorker`: the process manager
  starts a worker again that has exited. Failures are bounded, not fair.
* *Ticks, incidents, volumes.* Weak fairness of the next step of each tick or pass. A hung job is a job whose step does not come.
  Nothing is assumed of conditions, authors, users and the space on the nodes; `IncidentsClear` speaks of behaviours in which nothing is wrong from some time on and launches go on.
* *Leases.* Weak fairness of the incident job alone: that is all it takes to release what launches and cleanups leave behind.
* *Webhooks, mails, budgets.* Weak fairness of the steps of the passes, of a pass taking a given due delivery (the batch is by age), of recovery after five minutes, and of a cooldown
  ending. Deaths are bounded.

## 7. Proofs

Unless it says otherwise, a theorem holds for every value of the constants allowed by the `ASSUME` of
each module (bounds are naturals, attempts at least 1, `Cold` and `Warm`
disjoint); in particular for any number of workspaces, threads and faults.
Each rests on an inductive invariant, `IInv`, that holds initially
(`InvInit...`) and is kept by every step (`InvNext`, `InvKept`), one lemma per group
of actions.

**UsageBilling** (`UsageBillingProofs`). `OneRunningSession`, `EndedIffEnqueued`, `ChargedOnceForStoredTotal` and `SentWasCharged`
are not inductive alone: a metering pass works from copies. `CopiesAgree` says that each
copy, however stale, is of an ENDED session and has its total, which is
final; `AcceptedWasCharged` that a pass about to record success has been accepted.
Theorems: `TypeCorrect`, `OneSessionAtATime`, `NoCloseIsLost`, `NoDoubleCharge`,
`NoFalseSent`, `ClosedOnce` (an action property) and the refinement
`BillingIsALedger`, each step being one of the ledger's or a stutter.

**WorkspaceCleanup** (`WorkspaceCleanupProofs`). That DONE means "nothing held" depends on where
a pass stands: `ReleasedBehind` says that a pass at a step has released all that the steps
before it release (`Behind`), whatever other passes and launches do, because what is taken once a cleanup has been
asked for is in `late`, not in `held` (`TakeKept`); `OneJob`, that a pass in an attempt has exactly one job;
`LastIsExhausted`, that a pass which takes itself to be at the last attempt is.
Theorems: `TypeCorrect`, `ReleaseOrder`, `NothingHeldAtTheEnd`, `NoCleanupDropped` (an action property) and the
refinement `TeardownIsKept`. The contract sees a workspace as what it holds, whether it is over, its cleanup and the
attempts made (`TeardownView`); a step of a pass is then an attempt, a thing given back, an end or a stutter.
That needs one invariant more, `JobIsThere`: the jobs a pass has listed exist, and are never deleted, so that whatever a
pass gives back or ends has been asked for. The difficult steps are those that write the row of a
workspace whose teardown is done or under way: they revive it, which the contract allows, and keep what it holds, which the contract is about.

**GpuProvisioning** (`GpuProvisioningProofs`). What excludes a second pass is the allocation row:
`WorkHasRow` says that a pass past its claim has the row of its workspace and GPU, `RowsUnique`
that rows agree in neither, `OneAtATime` that a pass has one of each, `RolledBack`
that a rollback has freed its GPU before it deletes the row. Theorems: `TypeCorrect`, `NoDoubleWork`, `GpuIsAccountedFor`, all for any number
of overlapping passes. Nothing is proved of ids and of VMs, as with two passes neither that ids are distinct nor that a row names every VM is true (section 8).

**LaunchOperations** (`LaunchOperationsProofs`). Everything goes back to the request that has opened the
operation: it is the only one (`OneLeader`, from the unique pair of user and
key), of a row that exists (`LedIsOpen`); whoever leads or waits asks for the row's payload
(`SamePayload`); the row records what the leader has come to (`Recorded`, `FailedIsLed`,
`NothingYet`), but for a recording that was cut off, after which a failed leader may have left its workspace in the row; and a workspace launched by an operation is held by its leader
(`LaunchedByLeader`). Theorems: `TypeCorrect`, `LaunchesOnce`, `ProcessingHasLeader`, and the refinement
`LaunchIsAContract`: the insert begins the operation, the leader's failure
(recorded or not) fails it, its record launches it, and every answer agrees, but for
that of the one leader whose recording was cut off after its effect: it is told of a failure, and the others of the launch (`AnswerCutOff`). `RefusedIsFailed`, with
the invariant beside it, says who may be told of a failure: the leader that has failed, and whoever
has found its operation without a workspace. As it covers
any number of users, keys, requests and faults, it includes two users who are
assigned the same warm workspace: the operation of one of them then fails.

**RunExecutor** (`RunExecutorProofs`). `TypeCorrect`: a pass that works from a stale copy has one of the lists of
steps that the stages give it, whatever it writes. `SpacesAreNotShared` needs `HeldIsThere` beside it: a
workspace some run has exists, so that the fresh id of a cold launch cannot hit it. A claimed one is kept
apart by the unique `upstreamInstanceId`; the claim itself has no condition, and its look-up is a step before. `ReportedMeansCharged`: in what a pass
has left to do a mark never comes before its charge (`PassesInOrder`), and the API's own report marks what it has posted (`PostsInOrder`), so
that a run marked as reported has its charge, though copies of its row are written back at any time.

**Fleet** (`FleetProofs`). *Leases.* `LeaseSurvives` is inductive only with `LiveIsLeftAlone` (nobody cleans a
live workspace), `OnlyLiveTold`, `GateIsUp` (a call is in a gateway that listens) and, of each live workspace whose calls did not overlap, `Kept`: a call in the gateway is the only one, and there is no row before
its upsert and its lease after (`FirstCall`); with none in the gateway, memory is what the table has (`Matched`); and a lease that was told, or is on its way to a caller,
is backed by the row and the memory (`Backed`). Together `LeaseInv`. The difficult steps are the start of the gateway, where memory comes from the table, and an answer or
upsert that comes while a later call is under way. *Volumes.* `VolumeInv` adds `Singular`: a request holds one decision at most, so that the volume and the workspace it writes are the ones it has checked; the unique index then leaves the
workspace to one volume. *Ports.* `ShareInv` adds `RowsAreChosen`: every row, active or released, has a mode the user has chosen, so that a gateway that starts serves none other. `RowsApart` (of leases): an upsert, the gateway's or the API's, puts into a row only what the unique indexes let pass, apart from all others column by column.
*Leadership.* `TokensApart`: a token is in the memory of one process, and only that process may still write it to the row. It needs a fresh token to be
unused everywhere: in the row, in memory, in an upsert under way, in what a tick has read. Theorems, each for the part and for the composition: `LeasesSurvive`, `VolumesInUseAreAttached`, `PortsServedAsChosen`; and
`LeasesTypeCorrect`, `VolumesTypeCorrect`, `PortsApartInColumns`; `OneWorkerLeads` (the check of a tick passes in one process at a time),
`FencingHolds` (whom the row has left behind, no late upsert brings back); and `FleetTypeCorrect`, the type invariant of all six parts.

**BackOffice** (`BackOfficeProofs`). `DeletedEventsAreRolledUp` rests on `UnrolledIsYoung`: a group in no
rollup is at most a day older than the window's lower end and the nights missed, which `RetentionAssumption` keeps below the age of
deletion. `DecisionsAreTold` rests on `UndecidedBefore`: until the sign-up has opened an application, nobody decides on one. `DeliveredIsAccepted`: a sender about to write DELIVERED has been accepted. `PricesAreKept` is an action property, proved step by step.
`SpotPricesSound`: the formula is monotone in the stock and keeps between floor and ceiling for every base price, target and stock; the
`Rounded...` lemmas carry rounding through the products. *Mails.* `CopiesAreBehind`: the row a pass works on has had the attempts of its copy and, once claimed, one
more; so a mail marked FAILED has had them all (`GivenUpMeansTried`). `ClaimsAreFew` counts the attempts made and the passes about to make one: together they stay
below `MaxTries` and the number of passes, by which the cap may be exceeded but no further (`AttemptsAreBounded`, for finitely many passes).
`BackOfficeTypeCorrect` is the type invariant of all six parts. The theorems about retention, applications, webhooks and prices are
carried over to `BackOfficeSpec` by one lemma per part: a step of the composition is a step of the part or leaves its variables alone.

**Proved and in no run**: `ToldApartInColumns`, `ServedAsChosen`, `OneLeads`, `FencedStaysOut`, `SpacesNotShared`,
`CleanupNotDropped`, `SentWasCharged`, `EndedIsFinal`, `GivenUpWasTried`, `AttemptsBounded`, `SpotPriceSound`, and the type invariants of the single modules.
TLC has found no counterexample to any of them on the instances of section 5.

**Only model-checked.** The liveness properties: temporal induction under fairness and
ENABLED are out of the prover's reach. Every invariant, action property and refinement that a run checks is the statement of a theorem.
No module has a recursive definition, so nothing is left out for that reason.

## 8. Disagreements found

* **A terminated workspace is billed** (`TerminatedBilled.cfg`). `docs/billing-invariants.md` INV-5:
  "Terminate cannot leave a RUNNING session behind". The waiting pass reads a
  heartbeat, then marks the workspace running and opens a session in later
  steps, and a whole termination fits in between.
* **FAILED workspaces keep their VM** (`FailedCleanup.cfg`). A comment in
  `apps/api/src/routes/internal/agent.ts:235` says the worker cleans them up; no job reads them.
* **vmids collide** (`VmidCollision.cfg`). The comment in `warm-pool.ts:1123` says the
  isolation of the transaction prevents it, but the transaction writes nothing. The pass whose clone
  is refused then deletes the other's VM when it rolls back.
* **A VM that no row names** (`OrphanVm.cfg`). `tests/integration/INTEGRATION_TEST_PLAN.md:31` asks for "Zero orphan VMs in Proxmox". Two passes of the provisioning
  overlap on one row (`worker/src/index.ts:99` keeps none out, nothing in `warm-pool.ts` does); the one that finds the GPU claimed undoes its own beginning by
  `proxmoxVmid: null` (`warm-pool.ts:554`), on the row whose VM the other is about to clone or has cloned. No cleanup deletes such a VM, as each goes by the row.
* **A VM for a TERMINATED workspace** (`TerminateFastPath.cfg`). The fast path of terminate takes a
  row without a vmid to have no infrastructure; a pass that has read it before
  provisions it all the same.
* **A warm workspace assigned to two users** (`double_assignment`).
  `tests/integration/INTEGRATION_TEST_PLAN.md:82` asks for "Each warm workspace assigned to exactly one user".
* **A lease is replaced** (`LeaseReplaced.cfg`). "Idempotent: check cache first, then DB" (`apps/gateway/src/index.ts:345`): two calls for one workspace, as the two launches of `double_assignment` make them,
  both find neither and pick a lease each; the second upsert overwrites the first, whose user has been told ports that lead nowhere. `tests/stress/gateway-stress.test.ts:133` tests such calls.
* **A run stays in its initialization for ever** (`InitializationEnds.cfg`). The executor "transitions them forward" (`run-executor.ts:12`), but it passes over a run whose
  workspace has no address, without a limit (`:251`). A verification that passes early makes the workspace RUNNING_ASSIGNED (`routes/internal/agent.ts:217`) before `processWaitingWorkspaces`, which
  looks at WAITING_FOR_AGENT alone, has found the address; nobody looks for it after that.
* **A volume waits for ever, and others behind it** (`VolumeStarves.cfg`). "Try again on next tick, another node may free up" (`volume-manager.ts:49`): there is no timeout, and the
  tick takes five rows (`take: 5`) in no order, so that five which do not fit may keep out one that does. `VolumeSettles` allows the first, and holds where all volumes fit into one batch.
* **An upload goes on for ever** (`upload_ends`). "Timeout: if uploading has been going on too long, finalize anyway" (`run-executor.ts:473`):
  the timeout counts from `finishedAt`, which nothing has set. The run counts against `maxConcurrentRuns` and is never charged.
* **A canceled run is not charged.** The cancel route writes no `billedSeconds`, on which both reports depend; `lib/billing.ts:32` says a run is reported on
  "completion/cancel/timeout".
* **Nobody leads for a while.** A worker that fences itself off leaves the lock with one of its pooled connections (`worker/src/index.ts:172`); it and all others are refused until it
  has failed often enough to exit. `EventuallyLed` shows that this is the way out. A tick under way is not stopped by the loss.
* **Incidents.** Two overlapping passes open two for one condition (`index.ts:402` says "single-writer"); the check of the failure rate returns before it resolves when
  fewer than five workspaces were launched in the hour (`:436`). And `incidentDetector.ts`, a second implementation, is called by nobody.
* **A volume deleted in use, a deletion lost** (`volumes.ts:278`, `volume-manager.ts:64`): both writes are by id after a check or a list. A volume of a workspace that has ended stays IN_USE.
* **Ports of a failed pick are lost** (`gateway/src/index.ts:382`): picked before the one that cannot be found, they stay taken until a restart.
* **A live workspace's port is given away** (`gateway/src/index.ts:237`; `SharedPort.cfg`). "Port uniqueness under pressure" (`tests/stress/gateway-stress.test.ts:7`). A row the API has opened again behind
  a cleanup (`workspaceService.ts:360`) is released by the reconciliation, which deletes its ports from memory although a live workspace may have them in other columns; the three columns are unique each on its own
  (`schema.prisma:690`). The next allocation takes them.
* **Exposed ports** (`routes/workspaces.ts:265`): the routes tell the gateway nothing, and its `/internal/gateway/expose-port` and `release-port` have no caller. What the user changes comes into force when the gateway restarts,
  and rows of ended workspaces stay ACTIVE.
* **Webhooks** (`webhook-delivery.ts:18`): five seconds do not keep a pass away from an inline sender that may take 35, and an old copy puts a DELIVERED row back to PENDING, to be sent again.
* **Mails** (`email-outbox.ts:27`): the row of a worker that dies in the last attempt stays SENDING, and one that two passes have claimed may stay PENDING without an attempt left.
* **Sign-up is not a transaction** (`routes/public.ts:159` says it is): after a crash the address is taken and there is no application. Two reviews may both commit and mail opposite decisions
  (`customers.ts:134`), and lifting the suspension of a rejected customer approves them (`:345`).
* **Rollups count an event up to 23 times** (`event-retention.ts:96`): each night adds the whole window again.
* **Spot prices never exceed 83 cents** (`spot-pricing.ts:33`): `basePriceCents` keeps its default of 55, and the ceilings of 200 and 500 are out of reach. A launch reads the price of the type's first row,
  whatever its region.
* **Invitations are never delivered** (`organizations.ts:331`): the token is stored hashed and told to nobody. **The burst orchestrator** looks for nodes of a status that no node has (`burst-orchestrator.ts:73`).

Behaviour worth knowing that no document denies, and which the models contain:

* TERMINATED is not final in the code: a waiting pass, a verification result or a
  provisioning pass may write over it. `docs/workspace-lifecycle-state-machine.md:71`
  calls it terminal; `GhostIsTakenDown` shows that the idle job takes such a
  workspace down again.
* With overlapping metering passes a dead letter may come back and the attempt
  cap be exceeded; what is charged stays right (`usage_metering`).
* A job dead-lettered by the cleanup is revived by the sweeper, which upserts it
  to PENDING; `NeverStuckTerminating` relies on it.
* A failed launch burns its key: replays are answered the old error. One whose
  API process died stays PROCESSING for ever, and every replay is told to wait.
* A warm workspace whose ports are refused stays ASSIGNING; no job reads it,
  and it counts against the quota.
* A GPU released by a cleanup is FREE and can never be claimed again, as `gpuId` is unique over
  released rows too (`schema.prisma:674`, `docs/db-constraint-review.md:81`).
* A rollback frees the GPU before it deletes the VM it was attached to, and goes on if that fails (`warm-pool.ts:419`);
  `deleteVm` returns when the task is accepted, not when the VM is gone (`proxmoxFleet.ts:135`).
* The quota is counted and the workspace created in two steps: requests with different keys pass it together
  (`workspaceService.ts:204`). The shrinking of the pool terminates by id what it listed before (`warm-pool.ts:184`).
* Stages of the executor that fail a run in its initialization release nothing: the workspace stays assigned until its user, the budget or the idle
  job ends it, and the idle job looks at heartbeats and GPU load, never at runs (`idle-termination.ts:44`). That it is given back at last is therefore no property here.
* The API's upsert may open the endpoint of a workspace again whose cleanup is DONE (`workspaceService.ts:360`): `NothingLeftBehind` speaks of what was held when the cleanup was asked for,
  `TerminalLeaseReleased` of the incident job that releases the rest. Such a launch also writes RUNNING_ASSIGNED over TERMINATED.
* A launch whose recording throws after its effect tells its client of a failure, and writes FAILED over COMPLETED; a replay
  in between, and a request that polls, is told of the launch (`workspaceService.ts:139`).

## 9. What is not modelled

* *Fleet aggregates*: one upsert a day, recomputed from rows that it does not change; no other step can disturb it.
* *Burst orchestrator*: its condition is never met (section 8), so a model of its decisions would not be one of a running system.
* *Organisations*: no invitation can be accepted, so that an organisation never has a second member and the rules of its routes have nothing to act on. Its budget is in `BudgetMonitor`.
* *Accounts and sessions, content*: requests over single rows, with no protocol of several steps. *Recommender*: a scoring of text without state; a model would repeat its tables.
* *Agent*: its posts are inputs of `WorkspaceCleanup` and `RunExecutor`; what it does in the VM is not modelled. *Hypervisor, Stripe, mail service, endpoints*:
  external, as far as the code's use of them shows. A hypervisor refuses
  to clone onto a vmid in use; how long its tasks run after they are accepted
  is not modelled.
* Code that nothing calls: `incidentDetector.ts`, the gateway's routes for exposed ports, `processTimedOutRuns`. Incidents opened by hand.
* Of the modelled parts: signatures and credentials of the gateway, sizes and the quota of volumes, logs, metrics and artifacts of
  runs, sums of the budget, the counts in a rollup.
* Batch limits (`take: n`) are modelled in `Volumes` alone. Elsewhere they are not reached on these instances, and a longer queue is
  worked off by the next passes only as far as rows leave it: cold workspaces that wait for a GPU (`warm-pool.ts:445`) and runs
  without an address (`run-executor.ts:239`) stay in theirs, and may keep others out as large volumes do. `LaunchSettles` and `RunSettles` are about queues within the limit.
* In `WorkspaceCleanup`: the API's fast path (it is in `GpuProvisioning`), so that `NothingLeftBehind` is a statement about workspaces that have
  been provisioned; and the warm-pool shrink, which is not a cleanup job (its status writes are in `LaunchOperations`). The shrink goes on when `stopVm` or `deleteVm` fails
  (`warm-pool.ts:1008`) and releases the allocation of a VM that may still run: `AllocationReleasedAfterVm` is not true of it.
* In `GatewayLeases`: FAILED, which the reconciliation (`gateway/src/index.ts:225`) and the incident job (`worker/src/index.ts:490`) treat as they do TERMINATED.
* In `Volumes`: `DecideAttach` merges the three reads of the request (`volumes.ts:129`: the volume, the workspace, its other volumes), so that what they see is of one moment. The write after them repeats none of the checks, and the
  unique index, which keeps two volumes apart, looks at the table and not at what was read.
* In `BudgetMonitor`: `StopOffice` merges the write of the status with that of the job, which `WorkspaceCleanup` has apart (`MarkTerminating`, `EnqueueCleanup`); the
  rounding of sums and percentages (`budget-monitor.ts:105`) and that of the gate at the launch are left out, though a spend at the very limit may be over it for one and not for the other.
* In `SpotPricing`: a session of a cold workspace without a locked price, as the executor creates them, falls back to the price of the moment or
  of the SKU (`warm-pool.ts:845`). `PriceReadIsKept` is about launches that have read one.
* In `RunExecutor`: the reads of the warm-pool job before it writes an address (`FindIp`), and a workspace row that is missing altogether, which nothing deletes
  once a run names it.
* In `GpuProvisioning`: the target size of the pool, volumes, buckets, network isolation.

## 10. Plan

Done, in the order of importance: billing, cleanup, provisioning, launch; then
runs, the fleet's services and the back office; each with its runs and its theorems. What is left, in the order of what it would add:

1. *One-step stand-ins replaced by the steps.* The lease in `WorkspaceCleanup` by that of `GatewayLeases`, the claim of a warm workspace in
   `RunExecutor` by the one of `LaunchOperations`: the modules agree at the tables, but no run has both sides in detail.
2. *Proofs.* A refinement of an abstract outbox (a message is sent or given up, an attempt never uncounted) by `WebhookDelivery`; what a pass of `BudgetMonitor` and a tick of `LeaderTick` never do,
   of which only the types are proved.
3. *Two executor passes on one run* for the liveness of `RunExecutor`, which needs an abstraction of its copies.

Runs are kept few, one for each distinct question; components that share nothing are asked their questions in one run.
