--------------------------- MODULE GpuProvisioning ---------------------------
(***************************************************************************)
(* Provisioning of workspaces: passes of the warm-pool job claim a GPU,    *)
(* take a slot of the clone semaphore, clone a VM, attach the GPU and boot,*)
(* and roll back what fails; the cleanup job, the incident job and the     *)
(* user's terminate write the same rows meanwhile.                         *)
(*                                                                         *)
(* A tick that takes longer than its interval overlaps with the next one,  *)
(* so several passes run at once.  One fleet node, every GPU of the type   *)
(* asked for, a template always there.  Every await that changes state is  *)
(* a step of its own.                                                      *)
(***************************************************************************)
EXTENDS Naturals, FiniteSets

CONSTANTS Cold,          \* workspaces users launch, provisioned on demand
          Warm,          \* workspaces the job creates ahead of demand
          Gpu,           \* GPUs of the fleet
          Provisioner,   \* passes of warmPoolTick under way
          MaxClones,     \* MAX_CONCURRENT_CLONES
          MaxFaults      \* bound on failed calls and worker crashes

ASSUME ProvisioningAssumption ==
  /\ MaxClones \in Nat \ {0}
  /\ MaxFaults \in Nat
  /\ Cold \cap Warm = {}

Workspace == Cold \cup Warm

VARIABLES status,    \* table workspaces: status, "none" without a row
          vmid,      \* table workspaces: proxmoxVmid, 0 for null
          gpu,       \* table fleet_gpus: currentWorkspaceId, {} when FREE
          alloc,     \* table workspace_gpu_allocations: (workspaceId, gpuId)
          slot,      \* table clone_semaphores: one row per workspace
          vm,        \* hypervisor: (id, workspace that had it cloned)
          pass,      \* per pass: what it works on
          fast,      \* terminate requests that have found no vmid
          cleaner,   \* the cleanup attempt under way: what it has read
          stuck,     \* GPUs the incident job has read as stuck
          faults     \* failed calls and crashes so far

tables == <<status, vmid, gpu, alloc, slot>>
vars == <<tables, vm, pass, fast, cleaner, stuck, faults>>

Status == {"none", "CREATING", "WAITING_FOR_AGENT", "FAILED", "TERMINATING", "TERMINATED"}

\* Past its claim of a GPU: a pass that provisions, defers or rolls back.
ProvisionPC == {"count", "acquire", "clone", "release", "boot", "up"}
DeferPC     == {"defer_gpu", "defer_row", "undo"}
CatchPC     == {"catch_slot", "catch_status", "catch_gpu", "catch_row", "catch_vm"}
Pass == [pc : {"idle", "next", "vmid", "create", "claim", "no_gpu"}
                \cup ProvisionPC \cup DeferPC \cup CatchPC,
         todo : SUBSET Cold, ws : SUBSET Workspace, gpu : SUBSET Gpu, vmid : Nat]
Cleaning == [pc : {"idle", "vm", "gpu", "row", "terminate"},
             ws : SUBSET Workspace, gpu : SUBSET Gpu, vmid : Nat, row : BOOLEAN]

IdlePass    == [pc |-> "idle", todo |-> {}, ws |-> {}, gpu |-> {}, vmid |-> 0]
IdleCleaner == [pc |-> "idle", ws |-> {}, gpu |-> {}, vmid |-> 0, row |-> FALSE]

TypeOK ==
  /\ status \in [Workspace -> Status]
  /\ vmid \in [Workspace -> Nat]
  /\ gpu \in [Gpu -> SUBSET Workspace]
  /\ alloc \subseteq Workspace \X Gpu
  /\ slot \in [Workspace -> {"none", "held", "released"}]
  /\ vm \subseteq Nat \X Workspace
  /\ pass \in [Provisioner -> Pass]
  /\ fast \subseteq Cold
  /\ cleaner \in Cleaning
  /\ stuck \subseteq Gpu
  /\ faults \in Nat

Init ==
  /\ status = [w \in Workspace |-> "none"]
  /\ vmid = [w \in Workspace |-> 0]
  /\ gpu = [g \in Gpu |-> {}]
  /\ alloc = {}
  /\ slot = [w \in Workspace |-> "none"]
  /\ vm = {}
  /\ pass = [p \in Provisioner |-> IdlePass]
  /\ fast = {}
  /\ cleaner = IdleCleaner
  /\ stuck = {}
  /\ faults = 0

Free == {g \in Gpu : gpu[g] = {}}
SetStatus(w, s)   == status' = [status EXCEPT ![w] = s]
SetGpu(g, owner)  == gpu' = [gpu EXCEPT ![g] = owner]
DeleteVm(id)      == vm' = {v \in vm : v[1] # id}
Goto(p, pc)       == pass' = [pass EXCEPT ![p].pc = pc]

\* Pass p has come to pc with workspace w and GPU g.
At(p, pc, w, g) ==
  /\ pass[p].pc = pc
  /\ w \in pass[p].ws
  /\ g \in pass[p].gpu

\* On to the next workspace of the list, if any.
NextWorkspace(p) ==
  pass' = [pass EXCEPT ![p] =
             IF pass[p].todo = {} THEN IdlePass
             ELSE [IdlePass EXCEPT !.pc = "next", !.todo = pass[p].todo]]

-----------------------------------------------------------------------------
(* What a pass takes up: a warm workspace it will create, or the list of   *)
(* cold ones that wait, read once and then worked off.                     *)

\* Ids are fresh; Warm bounds how many are in use.
NewWarm == {w \in Warm : status[w] = "none"}
Spawning == {p \in Provisioner : pass[p].pc \in {"vmid", "create"} /\ pass[p].ws = {}}

SpawnWarmWorkspace(p) ==
  /\ pass[p].pc = "idle"
  /\ Cardinality(Spawning) < Cardinality(NewWarm)
  /\ \E g \in Free : pass' = [pass EXCEPT ![p] = [IdlePass EXCEPT !.pc = "vmid", !.gpu = {g}]]
  /\ UNCHANGED <<tables, vm, fast, cleaner, stuck, faults>>

Creating == {w \in Cold : status[w] = "CREATING" /\ vmid[w] = 0}

ProcessCreatingWorkspaces(p) ==
  /\ pass[p].pc = "idle"
  /\ Creating # {}
  /\ pass' = [pass EXCEPT ![p] = [IdlePass EXCEPT !.pc = "next", !.todo = Creating]]
  /\ UNCHANGED <<tables, vm, fast, cleaner, stuck, faults>>

\* The row is not read again: it may have been terminated or taken meanwhile.
ProvisionColdWorkspace(p) ==
  /\ pass[p].pc = "next"
  /\ \E w \in pass[p].todo :
       LET taken == [pass[p] EXCEPT !.ws = {w}, !.todo = @ \ {w}]
       IN  IF Free = {} THEN pass' = [pass EXCEPT ![p] = [taken EXCEPT !.pc = "no_gpu"]]
           ELSE \E g \in Free :
                  pass' = [pass EXCEPT ![p] = [taken EXCEPT !.pc = "vmid", !.gpu = {g}]]
  /\ UNCHANGED <<tables, vm, fast, cleaner, stuck, faults>>

FailNoGpu(p) ==
  /\ pass[p].pc = "no_gpu"
  /\ \E w \in pass[p].ws : SetStatus(w, "FAILED")
  /\ NextWorkspace(p)
  /\ UNCHANGED <<vmid, gpu, alloc, slot, vm, fast, cleaner, stuck, faults>>

\* One more than the largest vmid of these workspaces.
Above(ws) == {m + 1 : m \in {n \in {0} \cup {vmid[w] : w \in ws} : \A w \in ws : vmid[w] <= n}}

NextVmid == Above(Workspace)

\* The transaction only reads: nothing is reserved.
GetNextVmid(p) ==
  /\ pass[p].pc = "vmid"
  /\ \E id \in NextVmid : pass' = [pass EXCEPT ![p] = [@ EXCEPT !.pc = "create", !.vmid = id]]
  /\ UNCHANGED <<tables, vm, fast, cleaner, stuck, faults>>

\* The row of a warm workspace is inserted, that of a cold one updated.
RecordVmid(p, w) ==
  /\ pass[p].pc = "create"
  /\ \/ w \in pass[p].ws /\ UNCHANGED status
     \/ pass[p].ws = {} /\ w \in Warm /\ status[w] = "none" /\ SetStatus(w, "CREATING")
  /\ vmid' = [vmid EXCEPT ![w] = pass[p].vmid]
  /\ pass' = [pass EXCEPT ![p] = [@ EXCEPT !.pc = "claim", !.ws = {w}]]
  /\ UNCHANGED <<gpu, alloc, slot, vm, fast, cleaner, stuck, faults>>

-----------------------------------------------------------------------------
(* The claim of the GPU and the slot of the clone semaphore.               *)

\* workspaceId and gpuId are unique in the table, released rows included.
RowFits(w, g) == \A r \in alloc : r[1] # w /\ r[2] # g

\* Fault: the row is written without looking at the GPU's status.
ClaimGpuBlind(p, w, g) ==
  /\ At(p, "claim", w, g)
  /\ SetGpu(g, {w})
  /\ alloc' = {r \in alloc : r[1] # w} \cup {<<w, g>>}
  /\ Goto(p, "count")
  /\ UNCHANGED <<status, vmid, slot, vm, fast, cleaner, stuck, faults>>

\* Fault: a row the workspace has is moved to the new GPU.
ClaimGpuMovingRow(p, w, g) ==
  /\ At(p, "claim", w, g)
  /\ g \in Free
  /\ SetGpu(g, {w})
  /\ alloc' = {r \in alloc : r[1] # w} \cup {<<w, g>>}
  /\ Goto(p, "count")
  /\ UNCHANGED <<status, vmid, slot, vm, fast, cleaner, stuck, faults>>

\* One transaction: the GPU must still be FREE and the row fit.
ClaimGpu(p, w, g) ==
  /\ At(p, "claim", w, g)
  /\ g \in Free
  /\ RowFits(w, g)
  /\ SetGpu(g, {w})
  /\ alloc' = alloc \cup {<<w, g>>}
  /\ Goto(p, "count")
  /\ UNCHANGED <<status, vmid, slot, vm, fast, cleaner, stuck, faults>>

GpuAlreadyClaimed(p, w, g) ==
  /\ At(p, "claim", w, g)
  /\ g \notin Free
  /\ Goto(p, "undo")
  /\ UNCHANGED <<tables, vm, fast, cleaner, stuck, faults>>

\* Not the error the pass expects: it leaves the row as it is, CREATING and
\* with a vmid, for the sweeper.
ClaimThrows(p, w, g) ==
  /\ At(p, "claim", w, g)
  /\ g \in Free
  /\ ~RowFits(w, g)
  /\ NextWorkspace(p)
  /\ UNCHANGED <<tables, vm, fast, cleaner, stuck, faults>>

Held == {w \in Workspace : slot[w] = "held"}

\* READ COMMITTED: count and create are two steps of the transaction.
CountSlots(p) ==
  /\ pass[p].pc = "count"
  /\ Goto(p, IF Cardinality(Held) < MaxClones THEN "acquire" ELSE "defer_gpu")
  /\ UNCHANGED <<tables, vm, fast, cleaner, stuck, faults>>

\* Any error reads as a full semaphore.
AcquireCloneSemaphore(p, w) ==
  /\ pass[p].pc = "acquire"
  /\ w \in pass[p].ws
  /\ IF slot[w] = "none"
     THEN slot' = [slot EXCEPT ![w] = "held"] /\ Goto(p, "clone")
     ELSE Goto(p, "defer_gpu") /\ UNCHANGED slot
  /\ UNCHANGED <<status, vmid, gpu, alloc, vm, fast, cleaner, stuck, faults>>

-----------------------------------------------------------------------------
(* Clone, attach, boot.                                                    *)

Fails(p) ==
  /\ faults < MaxFaults
  /\ faults' = faults + 1
  /\ Goto(p, "catch_slot")

\* The hypervisor refuses an id that is taken.  The clone may be there though
\* the wait for its task has failed.
CloneVm(p, w) ==
  /\ pass[p].pc = "clone"
  /\ w \in pass[p].ws
  /\ IF \E v \in vm : v[1] = pass[p].vmid
     THEN Goto(p, "catch_slot") /\ UNCHANGED <<vm, faults>>
     ELSE \/ /\ vm' = vm \cup {<<pass[p].vmid, w>>}
             /\ \/ Goto(p, "release") /\ UNCHANGED faults
                \/ Fails(p)
          \/ Fails(p) /\ UNCHANGED vm
  /\ UNCHANGED <<tables, fast, cleaner, stuck>>

\* After the clone, and first of all in the catch block.
ReleaseCloneSemaphore(p, w) ==
  /\ pass[p].pc \in {"release", "catch_slot"}
  /\ w \in pass[p].ws
  /\ slot' = [slot EXCEPT ![w] = IF @ = "held" THEN "released" ELSE @]
  /\ Goto(p, IF pass[p].pc = "release" THEN "boot" ELSE "catch_status")
  /\ UNCHANGED <<status, vmid, gpu, alloc, vm, fast, cleaner, stuck, faults>>

\* GPU passthrough, network, cloud-init, start: the VM must be there.
AttachAndBoot(p) ==
  /\ pass[p].pc = "boot"
  /\ \/ (\E v \in vm : v[1] = pass[p].vmid) /\ Goto(p, "up") /\ UNCHANGED faults
     \/ (\A v \in vm : v[1] # pass[p].vmid) /\ Goto(p, "catch_slot") /\ UNCHANGED faults
     \/ Fails(p)
  /\ UNCHANGED <<tables, vm, fast, cleaner, stuck>>

\* Whatever the status has become since the row was read.
MarkWaiting(p) ==
  /\ pass[p].pc = "up"
  /\ \E w \in pass[p].ws : SetStatus(w, "WAITING_FOR_AGENT")
  /\ NextWorkspace(p)
  /\ UNCHANGED <<vmid, gpu, alloc, slot, vm, fast, cleaner, stuck, faults>>

-----------------------------------------------------------------------------
(* Deferring without a slot, and the catch block.                          *)

MarkFailed(p) ==
  /\ pass[p].pc = "catch_status"
  /\ \E w \in pass[p].ws : SetStatus(w, "FAILED")
  /\ Goto(p, "catch_gpu")
  /\ UNCHANGED <<vmid, gpu, alloc, slot, vm, fast, cleaner, stuck, faults>>

\* Fault: the row is deleted first, while the GPU is still ALLOCATED.
RollBackRowFirst(p) ==
  /\ pass[p].pc \in {"defer_gpu", "catch_gpu"}
  /\ IF \E r \in alloc : r[1] \in pass[p].ws
     THEN alloc' = {r \in alloc : r[1] \notin pass[p].ws} /\ UNCHANGED <<gpu, pass>>
     ELSE /\ \E g \in pass[p].gpu : SetGpu(g, {})
          /\ Goto(p, IF pass[p].pc = "defer_gpu" THEN "defer_row" ELSE "catch_row")
          /\ UNCHANGED alloc
  /\ UNCHANGED <<status, vmid, slot, vm, fast, cleaner, stuck, faults>>

RollBackGpu(p) ==
  /\ pass[p].pc \in {"defer_gpu", "catch_gpu"}
  /\ \E g \in pass[p].gpu : SetGpu(g, {})
  /\ Goto(p, IF pass[p].pc = "defer_gpu" THEN "defer_row" ELSE "catch_row")
  /\ UNCHANGED <<status, vmid, alloc, slot, vm, fast, cleaner, stuck, faults>>

\* A cleanup attempt that has read the row will not find it by its id again.
ForgetRow(ws) == cleaner' = [cleaner EXCEPT !.row = @ /\ cleaner.ws # ws]

RollBackAllocation(p) ==
  /\ pass[p].pc \in {"defer_row", "catch_row"}
  /\ alloc' = {r \in alloc : r[1] \notin pass[p].ws}
  /\ Goto(p, IF pass[p].pc = "defer_row" THEN "undo" ELSE "catch_vm")
  /\ ForgetRow(pass[p].ws)
  /\ UNCHANGED <<status, vmid, gpu, slot, vm, fast, stuck, faults>>

\* A deferred warm workspace is deleted, a cold one waits for the next tick.
UndoWorkspace(p, w) ==
  /\ pass[p].pc = "undo"
  /\ w \in pass[p].ws
  /\ vmid' = [vmid EXCEPT ![w] = 0]
  /\ IF w \in Warm THEN SetStatus(w, "none") ELSE UNCHANGED status
  /\ NextWorkspace(p)
  /\ UNCHANGED <<gpu, alloc, slot, vm, fast, cleaner, stuck, faults>>

\* Best effort, and by the id alone.
RollBackVm(p) ==
  /\ pass[p].pc = "catch_vm"
  /\ \/ DeleteVm(pass[p].vmid) /\ UNCHANGED faults
     \/ faults < MaxFaults /\ faults' = faults + 1 /\ UNCHANGED vm
  /\ NextWorkspace(p)
  /\ UNCHANGED <<tables, fast, cleaner, stuck>>

ProvisionStep(p) ==
  \/ ProvisionColdWorkspace(p)
  \/ FailNoGpu(p)
  \/ GetNextVmid(p)
  \/ \E w \in Workspace : \/ RecordVmid(p, w)
                          \/ AcquireCloneSemaphore(p, w)
                          \/ CloneVm(p, w)
                          \/ ReleaseCloneSemaphore(p, w)
                          \/ UndoWorkspace(p, w)
                          \/ \E g \in Gpu : \/ ClaimGpu(p, w, g)
                                            \/ GpuAlreadyClaimed(p, w, g)
                                            \/ ClaimThrows(p, w, g)
  \/ CountSlots(p)
  \/ AttachAndBoot(p)
  \/ MarkWaiting(p)
  \/ MarkFailed(p)
  \/ RollBackGpu(p)
  \/ RollBackAllocation(p)
  \/ RollBackVm(p)

-----------------------------------------------------------------------------
(* The rest of the system, as far as it writes what passes read.           *)

LaunchCold(w) ==
  /\ status[w] = "none"
  /\ SetStatus(w, "CREATING")
  /\ UNCHANGED <<vmid, gpu, alloc, slot, vm, pass, fast, cleaner, stuck, faults>>

Live == {"CREATING", "WAITING_FOR_AGENT"}

\* The user's terminate: a workspace without a vmid takes the fast path.
TerminateRead(w) ==
  /\ status[w] \in Live
  /\ vmid[w] = 0
  /\ fast' = fast \cup {w}
  /\ UNCHANGED <<tables, vm, pass, cleaner, stuck, faults>>

TerminateFastPath(w) ==
  /\ w \in fast
  /\ fast' = fast \ {w}
  /\ SetStatus(w, "TERMINATED")
  /\ UNCHANGED <<vmid, gpu, alloc, slot, vm, pass, cleaner, stuck, faults>>

\* With a vmid a termination is queued, by the user, the waiting pass or the
\* budget; WorkspaceCleanup has the steps of each, and the later statuses.
QueueTermination(w) ==
  /\ status[w] \in Live
  /\ vmid[w] # 0
  /\ w \in Cold \/ status[w] = "WAITING_FOR_AGENT"
  /\ SetStatus(w, "TERMINATING")
  /\ UNCHANGED <<vmid, gpu, alloc, slot, vm, pass, fast, cleaner, stuck, faults>>

\* Fault: rows that have a vmid are left to their pass.
SweepCreatingWithoutVmid(w) ==
  /\ status[w] = "CREATING"
  /\ vmid[w] = 0
  /\ \A p \in Provisioner : w \notin pass[p].ws
  /\ SetStatus(w, "TERMINATING")
  /\ UNCHANGED <<vmid, gpu, alloc, slot, vm, pass, fast, cleaner, stuck, faults>>

\* CREATING and not updated for 15 minutes: no pass works on the row, since
\* each of its calls is over in 3 minutes and every tick updates the row.
SweepCreating(w) ==
  /\ status[w] = "CREATING"
  /\ vmid[w] # 0
  /\ \A p \in Provisioner : w \notin pass[p].ws
  /\ SetStatus(w, "TERMINATING")
  /\ UNCHANGED <<vmid, gpu, alloc, slot, vm, pass, fast, cleaner, stuck, faults>>

\* An attempt of the cleanup job reads the row, with its allocation.
CleanupRead(w) ==
  /\ cleaner.pc = "idle"
  /\ status[w] = "TERMINATING"
  /\ LET row == {r \in alloc : r[1] = w}
     IN  cleaner' = [pc |-> "vm", ws |-> {w}, gpu |-> {r[2] : r \in row},
                     vmid |-> vmid[w], row |-> row # {}]
  /\ UNCHANGED <<tables, vm, pass, fast, stuck, faults>>

CleanVm ==
  /\ cleaner.pc = "vm"
  /\ DeleteVm(cleaner.vmid)
  /\ cleaner' = [cleaner EXCEPT !.pc = IF cleaner.gpu = {} THEN "terminate" ELSE "gpu"]
  /\ UNCHANGED <<tables, pass, fast, stuck, faults>>

CleanGpu ==
  /\ cleaner.pc = "gpu"
  /\ \E g \in cleaner.gpu : SetGpu(g, {})
  /\ cleaner' = [cleaner EXCEPT !.pc = "row"]
  /\ UNCHANGED <<status, vmid, alloc, slot, vm, pass, fast, stuck, faults>>

\* releasedAt is set, which nothing here reads; the attempt fails if the row
\* has been deleted, and is retried from the start.
CleanRow ==
  /\ cleaner.pc = "row"
  /\ cleaner' = IF cleaner.row THEN [cleaner EXCEPT !.pc = "terminate"] ELSE IdleCleaner
  /\ UNCHANGED <<tables, vm, pass, fast, stuck, faults>>

CleanTerminate ==
  /\ cleaner.pc = "terminate"
  /\ \E w \in cleaner.ws : SetStatus(w, "TERMINATED")
  /\ cleaner' = IdleCleaner
  /\ UNCHANGED <<vmid, gpu, alloc, slot, vm, pass, fast, stuck, faults>>

\* Fault: the slots of workspaces that have ended, only.
CleanupSemaphoresOfEnded(w) ==
  /\ w \in Held
  /\ status[w] = "FAILED"
  /\ \A p \in Provisioner : w \notin pass[p].ws
  /\ slot' = [slot EXCEPT ![w] = "released"]
  /\ UNCHANGED <<status, vmid, gpu, alloc, vm, pass, fast, cleaner, stuck, faults>>

\* Held for 15 minutes, longer than any clone: its pass is gone.
CleanupOrphanedSemaphores(w) ==
  /\ w \in Held
  /\ \A p \in Provisioner : w \notin pass[p].ws
  /\ slot' = [slot EXCEPT ![w] = "released"]
  /\ UNCHANGED <<status, vmid, gpu, alloc, vm, pass, fast, cleaner, stuck, faults>>

Stuck == {g \in Gpu \ Free :
            \E r \in alloc : r[2] = g /\ status[r[1]] \in {"TERMINATED", "FAILED"}}

\* Fault: the GPUs of failed workspaces only.
CheckStuckGpusOfFailed ==
  /\ stuck = {}
  /\ stuck' = {g \in Stuck : \E r \in alloc : r[2] = g /\ status[r[1]] = "FAILED"}
  /\ UNCHANGED <<tables, vm, pass, fast, cleaner, faults>>

CheckStuckGpus ==
  /\ stuck = {}
  /\ Stuck # {}
  /\ stuck' = Stuck
  /\ UNCHANGED <<tables, vm, pass, fast, cleaner, faults>>

FreeStuckGpu(g) ==
  /\ g \in stuck
  /\ stuck' = stuck \ {g}
  /\ SetGpu(g, {})
  /\ UNCHANGED <<status, vmid, alloc, slot, vm, pass, fast, cleaner, faults>>

WorkerCrash ==
  /\ faults < MaxFaults
  /\ faults' = faults + 1
  /\ pass' = [p \in Provisioner |-> IdlePass]
  /\ cleaner' = IdleCleaner
  /\ stuck' = {}
  /\ UNCHANGED <<tables, vm, fast>>

CleanerStep == CleanVm \/ CleanGpu \/ CleanRow \/ CleanTerminate

Next ==
  \/ \E p \in Provisioner : \/ SpawnWarmWorkspace(p)
                            \/ ProcessCreatingWorkspaces(p)
                            \/ ProvisionStep(p)
  \/ \E w \in Cold : \/ LaunchCold(w)
                     \/ TerminateRead(w)
                     \/ TerminateFastPath(w)
  \/ \E w \in Workspace : \/ QueueTermination(w)
                          \/ SweepCreating(w)
                          \/ CleanupRead(w)
                          \/ CleanupOrphanedSemaphores(w)
  \/ CleanerStep
  \/ CheckStuckGpus
  \/ \E g \in Gpu : FreeStuckGpu(g)
  \/ WorkerCrash

Spec == Init /\ [][Next]_vars

\* Ticks come at their intervals, a pass that has begun runs to its end, and
\* rows nobody updates any more grow old enough for the sweepers.
ProvisioningFairness ==
  /\ \A p \in Provisioner : /\ WF_vars(ProvisionStep(p))
                            /\ SF_vars(ProcessCreatingWorkspaces(p))
  /\ \A w \in Workspace : /\ WF_vars(SweepCreating(w))
                          /\ WF_vars(CleanupOrphanedSemaphores(w))
  /\ WF_vars(CheckStuckGpus)
  /\ \A g \in Gpu : WF_vars(FreeStuckGpu(g))

FairSpec == Spec /\ ProvisioningFairness

-----------------------------------------------------------------------------
(* Properties.                                                             *)

\* Between the claim of its GPU and the deletion of its row, or the end.
Working(p) == pass[p].pc \in ProvisionPC \cup {"defer_gpu", "defer_row"}
                               \cup (CatchPC \ {"catch_vm"})

\* No double allocation: however passes overlap, defer and roll back, no two
\* that clone, boot or roll back share a workspace or a GPU.
NoDoubleAllocation ==
  \A p, q \in Provisioner :
    p # q /\ Working(p) /\ Working(q) =>
      /\ pass[p].ws \cap pass[q].ws = {}
      /\ pass[p].gpu \cap pass[q].gpu = {}

\* A GPU marked ALLOCATED has the allocation row of the workspace it names: a
\* cleanup of that workspace, or the incident job, will find and free it.
AllocatedHasRow ==
  \A g \in Gpu, w \in Workspace : w \in gpu[g] => <<w, g>> \in alloc

\* Comment of getNextVmid: no two callers get the same id.  Overlapping passes do.
VmidsDistinct ==
  \A v, w \in Workspace : v # w /\ vmid[v] # 0 => vmid[v] # vmid[w]

\* INTEGRATION_TEST_PLAN.md:31: no orphan VMs.  Here: a VM is named by the row of the
\* workspace it was cloned for, so that its cleanup deletes it.  Overlapping passes
\* leave one without: the second writes its own vmid to the row, and may clear it again.
NoOrphanVm == \A v \in vm : vmid[v[2]] = v[1]

\* A launch is decided: the row does not stay CREATING for ever, though the
\* worker dies, the claim throws, or there is no slot for a clone.
LaunchSettles ==
  \A w \in Workspace : status[w] = "CREATING" ~> status[w] # "CREATING"

\* A slot of the clone semaphore comes back though its pass is lost.
SlotsComeBack == \A w \in Workspace : slot[w] = "held" ~> slot[w] = "released"

\* A GPU whose workspace is over is not left ALLOCATED, by a crash between two
\* steps or by a termination that overtakes the provisioning.
StuckGpuIsFreed == \A g \in Gpu : g \in Stuck ~> g \notin Stuck

\* Comment of the fast path of terminate: a workspace without a vmid needs no
\* cleanup of its infrastructure by the worker.
TerminatedHasNoVm == \A v \in vm : status[v[2]] # "TERMINATED"
=============================================================================
