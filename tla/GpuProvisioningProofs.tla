------------------------ MODULE GpuProvisioningProofs ------------------------
(***************************************************************************)
(* Proofs about GpuProvisioning, for any number of passes, workspaces,     *)
(* GPUs and faults.  What makes the claim safe is not the status of the    *)
(* GPU, which the cleanup and the incident job reset as they please, but   *)
(* the allocation row: a pass keeps its row from its claim to the end of   *)
(* its rollback, nobody else deletes it, and no second row fits beside it. *)
(***************************************************************************)
EXTENDS GpuProvisioning, TLAPS

\* A pass works on at most one workspace and one GPU.
OneAtATime ==
  \A p \in Provisioner : /\ \A v, w \in pass[p].ws : v = w
                         /\ \A g, h \in pass[p].gpu : g = h

\* A pass past its claim has its workspace, its GPU and their row.
WorkHasRow ==
  \A p \in Provisioner : Working(p) =>
    /\ pass[p].ws # {}
    /\ pass[p].gpu # {}
    /\ \A w \in pass[p].ws, g \in pass[p].gpu : <<w, g>> \in alloc

\* The unique columns of the table.
RowsUnique == \A r, s \in alloc : r[1] = s[1] \/ r[2] = s[2] => r = s

\* A rollback has freed its GPU before it deletes the row.
RolledBack ==
  \A p \in Provisioner : pass[p].pc \in {"defer_row", "catch_row"} =>
    \A g \in pass[p].gpu : gpu[g] = {}

Inv == /\ OneAtATime
       /\ WorkHasRow
       /\ RowsUnique
       /\ RolledBack
       /\ NoDoubleAllocation
       /\ AllocatedHasRow

IInv == TypeOK /\ Inv

-----------------------------------------------------------------------------
(* Type correctness.                                                       *)

\* The states a pass or a cleaner may be in, and going on to the next entry.
LEMMA PassTypes ==
  ASSUME TypeOK, NEW p \in Provisioner
  PROVE  /\ pass[p] \in Pass
         /\ IdlePass \in Pass
         /\ IdleCleaner \in Cleaning
         /\ NextWorkspace(p) => pass' \in [Provisioner -> Pass]
<1>1. pass[p] \in Pass
  BY DEF TypeOK
<1>2. IdlePass \in Pass /\ IdleCleaner \in Cleaning
  BY DEF IdlePass, IdleCleaner, Pass, Cleaning
<1>3. [IdlePass EXCEPT !.pc = "next", !.todo = pass[p].todo] \in Pass
  BY <1>1 DEF IdlePass, Pass
<1> QED
  BY <1>1, <1>2, <1>3 DEF NextWorkspace, TypeOK

\* A pass that moves to another step is still a pass.
LEMMA GotoTypes ==
  ASSUME TypeOK, NEW p \in Provisioner, NEW pc, Goto(p, pc),
         pc \in ProvisionPC \cup DeferPC \cup CatchPC
  PROVE  pass' \in [Provisioner -> Pass]
BY DEF TypeOK, Goto, Pass

\* The steps of a pass before its claim, and the claim itself.
LEMMA TypeClaim ==
  ASSUME TypeOK, NEW p \in Provisioner,
         \/ SpawnWarmWorkspace(p) \/ ProcessCreatingWorkspaces(p)
         \/ ProvisionColdWorkspace(p) \/ FailNoGpu(p) \/ GetNextVmid(p)
         \/ \E w \in Workspace : RecordVmid(p, w)
         \/ \E w \in Workspace, g \in Gpu :
              ClaimGpu(p, w, g) \/ GpuAlreadyClaimed(p, w, g) \/ ClaimThrows(p, w, g)
  PROVE  TypeOK'
<1> USE PassTypes
<1>0. \A r \in Pass : pass' = [pass EXCEPT ![p] = r] => pass' \in [Provisioner -> Pass]
  BY DEF TypeOK
<1>1. CASE SpawnWarmWorkspace(p)
  <2>1. PICK g \in Free : pass' = [pass EXCEPT ![p] = [IdlePass EXCEPT !.pc = "vmid", !.gpu = {g}]]
    BY <1>1 DEF SpawnWarmWorkspace
  <2>2. [IdlePass EXCEPT !.pc = "vmid", !.gpu = {g}] \in Pass
    BY <2>1 DEF IdlePass, Pass, Free
  <2> QED
    BY <1>0, <1>1, <2>1, <2>2 DEF SpawnWarmWorkspace, TypeOK, tables
<1>2. CASE ProcessCreatingWorkspaces(p)
  BY <1>2 DEF ProcessCreatingWorkspaces, Creating, TypeOK, IdlePass, Pass, tables
<1>3. CASE ProvisionColdWorkspace(p)
  <2>1. PICK w \in pass[p].todo :
          \/ pass' = [pass EXCEPT ![p] = [pass[p] EXCEPT !.ws = {w}, !.todo = @ \ {w}, !.pc = "no_gpu"]]
          \/ \E g \in Free : pass' = [pass EXCEPT ![p] =
               [pass[p] EXCEPT !.ws = {w}, !.todo = @ \ {w}, !.pc = "vmid", !.gpu = {g}]]
    BY <1>3, PassTypes DEF ProvisionColdWorkspace, Pass
  <2>2. w \in Workspace
    BY <2>1, PassTypes DEF Pass, Workspace
  <2>3. [pass[p] EXCEPT !.ws = {w}, !.todo = @ \ {w}, !.pc = "no_gpu"] \in Pass
    BY <2>2, PassTypes DEF Pass
  <2>4. \A g \in Free : [pass[p] EXCEPT !.ws = {w}, !.todo = @ \ {w}, !.pc = "vmid", !.gpu = {g}] \in Pass
    BY <2>2, PassTypes DEF Pass, Free
  <2> QED
    BY <1>0, <1>3, <2>1, <2>3, <2>4 DEF ProvisionColdWorkspace, TypeOK, tables
<1>4. CASE FailNoGpu(p)
  BY <1>4 DEF FailNoGpu, SetStatus, TypeOK, Status
<1>5. CASE GetNextVmid(p)
  <2>1. NextVmid \subseteq Nat
    BY <1>5 DEF NextVmid, Above, TypeOK
  <2>2. \A id \in Nat : [pass[p] EXCEPT !.pc = "create", !.vmid = id] \in Pass
    BY DEF Pass
  <2> QED
    BY <1>0, <1>5, <2>1, <2>2 DEF GetNextVmid, TypeOK, tables
<1>6. ASSUME NEW w \in Workspace, RecordVmid(p, w) PROVE TypeOK'
  <2>1. [pass[p] EXCEPT !.pc = "claim", !.ws = {w}] \in Pass
    BY DEF Pass
  <2>2. pass' \in [Provisioner -> Pass]
    BY <1>0, <1>6, <2>1 DEF RecordVmid
  <2>3. vmid' \in [Workspace -> Nat] /\ status' \in [Workspace -> Status]
    BY <1>6 DEF RecordVmid, SetStatus, TypeOK, Pass, Status
  <2> QED
    BY <1>6, <2>2, <2>3 DEF RecordVmid, TypeOK
<1>7. ASSUME NEW w \in Workspace, NEW g \in Gpu,
             ClaimGpu(p, w, g) \/ GpuAlreadyClaimed(p, w, g) \/ ClaimThrows(p, w, g)
      PROVE  TypeOK'
  <2>1. CASE ClaimGpu(p, w, g)
    BY <2>1, GotoTypes DEF ClaimGpu, SetGpu, TypeOK, ProvisionPC
  <2>2. CASE GpuAlreadyClaimed(p, w, g)
    BY <2>2, GotoTypes DEF GpuAlreadyClaimed, TypeOK, DeferPC, tables
  <2>3. CASE ClaimThrows(p, w, g)
    BY <2>3 DEF ClaimThrows, TypeOK, tables
  <2> QED
    BY <1>7, <2>1, <2>2, <2>3
<1> QED
  BY <1>1, <1>2, <1>3, <1>4, <1>5, <1>6, <1>7

\* The steps from the claim to the end of the pass.
LEMMA TypeWork ==
  ASSUME TypeOK, NEW p \in Provisioner,
         \/ CountSlots(p) \/ AttachAndBoot(p) \/ MarkWaiting(p) \/ MarkFailed(p)
         \/ RollBackGpu(p) \/ RollBackAllocation(p) \/ RollBackVm(p)
         \/ \E w \in Workspace : \/ AcquireCloneSemaphore(p, w) \/ CloneVm(p, w)
                                 \/ ReleaseCloneSemaphore(p, w) \/ UndoWorkspace(p, w)
  PROVE  TypeOK'
<1> USE PassTypes, GotoTypes
<1>1. CASE CountSlots(p)
  BY <1>1 DEF CountSlots, TypeOK, ProvisionPC, DeferPC, tables
<1>2. CASE AttachAndBoot(p)
  BY <1>2 DEF AttachAndBoot, Fails, TypeOK, ProvisionPC, CatchPC, tables
<1>3. CASE MarkWaiting(p)
  <2>1. status' \in [Workspace -> Status]
    BY <1>3 DEF MarkWaiting, SetStatus, TypeOK, Status
  <2> QED
    BY <1>3, <2>1 DEF MarkWaiting, TypeOK
<1>4. CASE MarkFailed(p)
  <2>1. status' \in [Workspace -> Status]
    BY <1>4 DEF MarkFailed, SetStatus, TypeOK, Status
  <2> QED
    BY <1>4, <2>1 DEF MarkFailed, TypeOK, CatchPC
<1>5. CASE RollBackGpu(p)
  BY <1>5 DEF RollBackGpu, SetGpu, TypeOK, CatchPC, DeferPC
<1>6. CASE RollBackAllocation(p)
  <2>1. cleaner' \in Cleaning
    BY <1>6 DEF RollBackAllocation, ForgetRow, TypeOK, Cleaning
  <2> QED
    BY <1>6, <2>1 DEF RollBackAllocation, TypeOK, CatchPC, DeferPC
<1>7. CASE RollBackVm(p)
  BY <1>7 DEF RollBackVm, DeleteVm, TypeOK, tables
<1>8. ASSUME NEW w \in Workspace, AcquireCloneSemaphore(p, w) PROVE TypeOK'
  BY <1>8 DEF AcquireCloneSemaphore, TypeOK, ProvisionPC, DeferPC
<1>9. ASSUME NEW w \in Workspace, CloneVm(p, w) PROVE TypeOK'
  <2>1. pass[p].vmid \in Nat
    BY DEF Pass
  <2> QED
    BY <1>9, <2>1 DEF CloneVm, Fails, TypeOK, ProvisionPC, CatchPC, tables
<1>10. ASSUME NEW w \in Workspace, ReleaseCloneSemaphore(p, w) PROVE TypeOK'
  BY <1>10 DEF ReleaseCloneSemaphore, TypeOK, ProvisionPC, CatchPC
<1>11. ASSUME NEW w \in Workspace, UndoWorkspace(p, w) PROVE TypeOK'
  BY <1>11 DEF UndoWorkspace, SetStatus, TypeOK, Status
<1> QED
  BY <1>1, <1>2, <1>3, <1>4, <1>5, <1>6, <1>7, <1>8, <1>9, <1>10, <1>11

\* The steps of everybody else: Rest leaves the passes alone.
RestOf(w) == \/ QueueTermination(w) \/ SweepCreating(w) \/ CleanupRead(w)
             \/ CleanupOrphanedSemaphores(w)
Rest == \/ \E w \in Cold : LaunchCold(w) \/ TerminateRead(w) \/ TerminateFastPath(w)
        \/ \E w \in Workspace : RestOf(w)
        \/ CleanerStep
        \/ CheckStuckGpus
        \/ \E g \in Gpu : FreeStuckGpu(g)

\* Launches, terminations, cleanups, the sweep, repairs and crashes.
LEMMA TypeRest ==
  ASSUME TypeOK, Rest \/ WorkerCrash \/ UNCHANGED vars
  PROVE  TypeOK'
<1>1. ASSUME NEW w \in Cold, LaunchCold(w) \/ TerminateRead(w) \/ TerminateFastPath(w)
      PROVE  TypeOK'
  BY <1>1 DEF LaunchCold, TerminateRead, TerminateFastPath, SetStatus, TypeOK, Status, tables
<1>2. ASSUME NEW w \in Workspace, RestOf(w) PROVE TypeOK'
  <2>1. CASE QueueTermination(w) \/ SweepCreating(w)
    BY <2>1 DEF QueueTermination, SweepCreating, SetStatus, TypeOK, Status
  <2>2. CASE CleanupRead(w)
    <3>1. cleaner' \in Cleaning
      BY <2>2 DEF CleanupRead, Cleaning, TypeOK
    <3> QED
      BY <2>2, <3>1 DEF CleanupRead, TypeOK, tables
  <2>3. CASE CleanupOrphanedSemaphores(w)
    BY <2>3 DEF CleanupOrphanedSemaphores, TypeOK
  <2> QED
    BY <1>2, <2>1, <2>2, <2>3 DEF RestOf
<1>3. CASE CleanerStep
  <2>1. \A pc \in {"gpu", "row", "terminate"} : [cleaner EXCEPT !.pc = pc] \in Cleaning
    BY DEF TypeOK, Cleaning
  <2>2. IdleCleaner \in Cleaning
    BY DEF IdleCleaner, Cleaning
  <2>3. CASE CleanVm
    BY <2>1, <2>3 DEF CleanVm, DeleteVm, TypeOK, tables
  <2>4. CASE CleanGpu
    BY <2>1, <2>4 DEF CleanGpu, SetGpu, TypeOK
  <2>5. CASE CleanRow
    BY <2>1, <2>2, <2>5 DEF CleanRow, TypeOK, tables
  <2>6. CASE CleanTerminate
    BY <2>2, <2>6 DEF CleanTerminate, SetStatus, TypeOK, Status
  <2> QED
    BY <1>3, <2>3, <2>4, <2>5, <2>6 DEF CleanerStep
<1>4. CASE CheckStuckGpus
  BY <1>4 DEF CheckStuckGpus, Stuck, TypeOK, tables
<1>5. ASSUME NEW g \in Gpu, FreeStuckGpu(g) PROVE TypeOK'
  BY <1>5 DEF FreeStuckGpu, SetGpu, TypeOK
<1>6. CASE WorkerCrash
  <2>1. IdlePass \in Pass /\ IdleCleaner \in Cleaning
    BY DEF IdlePass, IdleCleaner, Pass, Cleaning
  <2> QED
    BY <1>6, <2>1 DEF WorkerCrash, TypeOK, tables
<1>7. CASE UNCHANGED vars
  BY <1>7 DEF vars, tables, TypeOK
<1> QED
  BY <1>1, <1>2, <1>3, <1>4, <1>5, <1>6, <1>7 DEF Rest

\* Next by who takes the step.
LEMMA StepKinds ==
  ASSUME [Next]_vars
  PROVE  \/ \E p \in Provisioner : \/ SpawnWarmWorkspace(p)
                                   \/ ProcessCreatingWorkspaces(p)
                                   \/ ProvisionStep(p)
         \/ Rest
         \/ WorkerCrash
         \/ UNCHANGED vars
BY DEF Next, Rest, RestOf

\* Every step keeps the types.
LEMMA TypeKept == TypeOK /\ [Next]_vars => TypeOK'
<1> SUFFICES ASSUME TypeOK, [Next]_vars PROVE TypeOK'
  OBVIOUS
<1>1. ASSUME NEW p \in Provisioner,
             SpawnWarmWorkspace(p) \/ ProcessCreatingWorkspaces(p) \/ ProvisionStep(p)
      PROVE  TypeOK'
  BY <1>1, TypeClaim, TypeWork DEF ProvisionStep
<1> QED
  BY <1>1, StepKinds, TypeRest

\* The initial tables and idle passes are well typed.
LEMMA TypeInitially == Init => TypeOK
<1>1. IdlePass \in Pass /\ IdleCleaner \in Cleaning
  BY DEF IdlePass, IdleCleaner, Pass, Cleaning
<1> QED
  BY <1>1 DEF Init, TypeOK, Status

\* Every reachable state is well typed.
THEOREM TypeCorrect == Spec => []TypeOK
BY TypeInitially, TypeKept, PTL DEF Spec

-----------------------------------------------------------------------------
(* The invariant.  All steps but two leave the rows alone, only free GPUs, *)
(* and bring no pass past its claim.                                       *)

\* What a step may do to a pass without endangering the invariant.
Moves(p) ==
  /\ \A v, w \in pass'[p].ws : v = w
  /\ \A g, h \in pass'[p].gpu : g = h
  /\ Working(p)' => Working(p) /\ pass'[p].ws = pass[p].ws /\ pass'[p].gpu = pass[p].gpu
  /\ pass'[p].pc \in {"defer_row", "catch_row"} =>
       \A g \in pass'[p].gpu : gpu'[g] = {}

\* A step that leaves the allocation rows, claims no GPU and moves no pass to a
\* step that relies on more keeps the invariant.
LEMMA Kept ==
  ASSUME Inv, alloc' = alloc, \A g \in Gpu : gpu'[g] \subseteq gpu[g],
         \A p \in Provisioner : Moves(p)
  PROVE  Inv'
<1>1. OneAtATime'
  BY DEF OneAtATime, Moves
<1>2. WorkHasRow'
  BY DEF WorkHasRow, Moves, Inv
<1>3. RowsUnique'
  BY DEF RowsUnique, Inv
<1>4. RolledBack'
  BY DEF RolledBack, Moves
<1>5. NoDoubleAllocation'
  BY DEF NoDoubleAllocation, Moves, Inv
<1>6. AllocatedHasRow'
  BY DEF AllocatedHasRow, Inv
<1> QED
  BY <1>1, <1>2, <1>3, <1>4, <1>5, <1>6 DEF Inv

\* A pass that stands still, as long as its GPU is not given away again.
LEMMA StandsStill ==
  ASSUME TypeOK, Inv, NEW p \in Provisioner, pass'[p] = pass[p],
         \A g \in Gpu : gpu'[g] \subseteq gpu[g]
  PROVE  Moves(p)
<1>1. pass[p].gpu \subseteq Gpu
  BY DEF TypeOK, Pass
<1> QED
  BY <1>1 DEF Moves, Inv, OneAtATime, RolledBack, Working

\* One pass moves, nothing but passes and GPUs is looked at.
LEMMA OnePassMoves ==
  ASSUME TypeOK, Inv, NEW p \in Provisioner, NEW r,
         pass' = [pass EXCEPT ![p] = r], Moves(p), alloc' = alloc,
         \A g \in Gpu : gpu'[g] \subseteq gpu[g]
  PROVE  Inv'
<1>1. \A q \in Provisioner \ {p} : pass'[q] = pass[q]
  BY DEF TypeOK
<1>2. \A q \in Provisioner : Moves(q)
  BY <1>1, StandsStill
<1> QED
  BY <1>2, Kept

\* A pass that has nothing in hand, or goes back to a workspace of its list.
LEMMA Leaves ==
  ASSUME TypeOK, NEW p \in Provisioner, NextWorkspace(p)
  PROVE  /\ Moves(p)
         /\ \E r : pass' = [pass EXCEPT ![p] = r]
<1>1. pass'[p].ws = {} /\ pass'[p].gpu = {} /\ pass'[p].pc \in {"idle", "next"}
  BY DEF NextWorkspace, IdlePass, TypeOK
<1> QED
  BY <1>1 DEF Moves, Working, NextWorkspace, ProvisionPC, CatchPC

\* A pass that keeps what it has.
LEMMA GoesTo ==
  ASSUME TypeOK, Inv, NEW p \in Provisioner, NEW pc, Goto(p, pc),
         Working(p) \/ pc \in {"undo"},
         pc \in {"defer_row", "catch_row"} => \A g \in pass[p].gpu : gpu'[g] = {}
  PROVE  /\ Moves(p)
         /\ \E r : pass' = [pass EXCEPT ![p] = r]
<1>1. pass'[p].ws = pass[p].ws /\ pass'[p].gpu = pass[p].gpu /\ pass'[p].pc = pc
  BY DEF Goto, TypeOK, Pass
<1>2. pass' = [pass EXCEPT ![p] = [pass[p] EXCEPT !.pc = pc]]
  BY DEF Goto
<1> QED
  BY <1>1, <1>2 DEF Moves, Working, Inv, OneAtATime, ProvisionPC, CatchPC

\* The steps that bring a pass to its claim.
LEMMA InvBefore ==
  ASSUME TypeOK, Inv, NEW p \in Provisioner,
         \/ SpawnWarmWorkspace(p) \/ ProcessCreatingWorkspaces(p)
         \/ ProvisionColdWorkspace(p) \/ FailNoGpu(p) \/ GetNextVmid(p)
         \/ \E w \in Workspace : RecordVmid(p, w)
         \/ \E w \in Workspace, g \in Gpu : GpuAlreadyClaimed(p, w, g) \/ ClaimThrows(p, w, g)
  PROVE  Inv'
<1> USE OnePassMoves DEF tables
<1>1. CASE SpawnWarmWorkspace(p)
  <2>1. PICK g \in Free : pass' = [pass EXCEPT ![p] = [IdlePass EXCEPT !.pc = "vmid", !.gpu = {g}]]
    BY <1>1 DEF SpawnWarmWorkspace
  <2>2. pass'[p].ws = {} /\ pass'[p].gpu = {g} /\ pass'[p].pc = "vmid"
    BY <2>1 DEF IdlePass, TypeOK
  <2>3. Moves(p)
    BY <2>2 DEF Moves, Working, ProvisionPC, CatchPC
  <2> QED
    BY <1>1, <2>1, <2>3 DEF SpawnWarmWorkspace
<1>2. CASE ProcessCreatingWorkspaces(p)
  <2>1. pass'[p].ws = {} /\ pass'[p].gpu = {} /\ pass'[p].pc = "next"
    BY <1>2 DEF ProcessCreatingWorkspaces, IdlePass, TypeOK
  <2>2. Moves(p)
    BY <2>1 DEF Moves, Working, ProvisionPC, CatchPC
  <2> QED
    BY <1>2, <2>2 DEF ProcessCreatingWorkspaces
<1>3. CASE ProvisionColdWorkspace(p)
  <2>1. PICK r, w, g :
          /\ pass' = [pass EXCEPT ![p] = r]
          /\ r.ws = {w}
          /\ r.gpu = pass[p].gpu \/ r.gpu = {g}
          /\ r.pc \in {"vmid", "no_gpu"}
    <3>1. PICK w \in pass[p].todo :
            \/ pass' = [pass EXCEPT ![p] = [pass[p] EXCEPT !.ws = {w}, !.todo = @ \ {w}, !.pc = "no_gpu"]]
            \/ \E g \in Free : pass' = [pass EXCEPT ![p] =
                 [pass[p] EXCEPT !.ws = {w}, !.todo = @ \ {w}, !.pc = "vmid", !.gpu = {g}]]
      BY <1>3, PassTypes DEF ProvisionColdWorkspace, Pass
    <3>2. CASE pass' = [pass EXCEPT ![p] = [pass[p] EXCEPT !.ws = {w}, !.todo = @ \ {w}, !.pc = "no_gpu"]]
      <4> DEFINE r == [pass[p] EXCEPT !.ws = {w}, !.todo = @ \ {w}, !.pc = "no_gpu"]
      <4>1. r.ws = {w} /\ r.gpu = pass[p].gpu /\ r.pc = "no_gpu"
        BY PassTypes DEF Pass
      <4>2. pass' = [pass EXCEPT ![p] = r]
        BY <3>2
      <4> HIDE DEF r
      <4> QED
        BY <4>1, <4>2
    <3>3. ASSUME NEW g \in Free, pass' = [pass EXCEPT ![p] =
                 [pass[p] EXCEPT !.ws = {w}, !.todo = @ \ {w}, !.pc = "vmid", !.gpu = {g}]]
          PROVE  \E r, v, h : /\ pass' = [pass EXCEPT ![p] = r]
                              /\ r.ws = {v} /\ r.gpu = {h} /\ r.pc = "vmid"
      <4> DEFINE r == [pass[p] EXCEPT !.ws = {w}, !.todo = @ \ {w}, !.pc = "vmid", !.gpu = {g}]
      <4>1. r.ws = {w} /\ r.gpu = {g} /\ r.pc = "vmid"
        BY PassTypes DEF Pass
      <4>2. pass' = [pass EXCEPT ![p] = r]
        BY <3>3
      <4> HIDE DEF r
      <4> QED
        BY <4>1, <4>2
    <3> QED
      BY <3>1, <3>2, <3>3
  <2>2. pass'[p] = r
    BY <2>1 DEF TypeOK
  <2>3. Moves(p)
    BY <2>1, <2>2 DEF Moves, Working, ProvisionPC, CatchPC, Inv, OneAtATime
  <2> QED
    BY <1>3, <2>1, <2>3 DEF ProvisionColdWorkspace
<1>4. CASE FailNoGpu(p)
  BY <1>4, Leaves DEF FailNoGpu
<1>5. CASE GetNextVmid(p)
  <2>1. PICK id : pass' = [pass EXCEPT ![p] = [pass[p] EXCEPT !.pc = "create", !.vmid = id]]
    BY <1>5 DEF GetNextVmid
  <2>2. pass'[p].ws = pass[p].ws /\ pass'[p].gpu = pass[p].gpu /\ pass'[p].pc = "create"
    BY <2>1 DEF TypeOK, Pass
  <2>3. Moves(p)
    BY <2>2 DEF Moves, Working, ProvisionPC, CatchPC, Inv, OneAtATime
  <2> QED
    BY <1>5, <2>1, <2>3 DEF GetNextVmid
<1>6. ASSUME NEW w \in Workspace, RecordVmid(p, w) PROVE Inv'
  <2>1. pass' = [pass EXCEPT ![p] = [pass[p] EXCEPT !.pc = "claim", !.ws = {w}]]
    BY <1>6 DEF RecordVmid
  <2>2. pass'[p].ws = {w} /\ pass'[p].gpu = pass[p].gpu /\ pass'[p].pc = "claim"
    BY <2>1 DEF TypeOK, Pass
  <2>3. Moves(p)
    BY <2>2 DEF Moves, Working, ProvisionPC, CatchPC, Inv, OneAtATime
  <2> QED
    BY <1>6, <2>1, <2>3 DEF RecordVmid
<1>7. ASSUME NEW w \in Workspace, NEW g \in Gpu, GpuAlreadyClaimed(p, w, g) PROVE Inv'
  BY <1>7, GoesTo DEF GpuAlreadyClaimed
<1>8. ASSUME NEW w \in Workspace, NEW g \in Gpu, ClaimThrows(p, w, g) PROVE Inv'
  BY <1>8, Leaves DEF ClaimThrows
<1> QED
  BY <1>1, <1>2, <1>3, <1>4, <1>5, <1>6, <1>7, <1>8

\* The claim: as its row fits, nobody else works on the workspace or the GPU.
LEMMA InvClaim ==
  ASSUME TypeOK, Inv, NEW p \in Provisioner, NEW w \in Workspace, NEW g \in Gpu,
         ClaimGpu(p, w, g)
  PROVE  Inv'
<1>1. /\ pass'[p].ws = {w} /\ pass'[p].gpu = {g} /\ pass'[p].pc = "count"
      /\ \A q \in Provisioner \ {p} : pass'[q] = pass[q]
  <2>1. pass[p].ws = {w} /\ pass[p].gpu = {g}
    BY DEF ClaimGpu, At, Inv, OneAtATime
  <2> QED
    BY <2>1 DEF ClaimGpu, Goto, TypeOK, Pass
<1>2. /\ alloc' = alloc \cup {<<w, g>>}
      /\ gpu' = [gpu EXCEPT ![g] = {w}]
      /\ \A r \in alloc : r[1] # w /\ r[2] # g
  BY DEF ClaimGpu, SetGpu, RowFits
<1>3. \A q \in Provisioner \ {p} : Working(q) => w \notin pass[q].ws /\ g \notin pass[q].gpu
  BY <1>2 DEF Inv, WorkHasRow
<1>4. OneAtATime'
  BY <1>1 DEF OneAtATime, Inv
<1>5. WorkHasRow'
  BY <1>1, <1>2 DEF WorkHasRow, Working, Inv
<1>6. RowsUnique'
  BY <1>2 DEF RowsUnique, Inv
<1>7. RolledBack'
  <2> SUFFICES ASSUME NEW q \in Provisioner \ {p}, pass[q].pc \in {"defer_row", "catch_row"},
                      NEW h \in pass[q].gpu
               PROVE  gpu'[h] = {}
    BY <1>1 DEF RolledBack
  <2>1. Working(q)
    BY DEF Working, CatchPC
  <2> QED
    BY <1>2, <1>3, <2>1 DEF Inv, RolledBack, TypeOK, Pass
<1>8. NoDoubleAllocation'
  BY <1>1, <1>3 DEF NoDoubleAllocation, Working, Inv
<1>9. AllocatedHasRow'
  BY <1>2 DEF AllocatedHasRow, Inv, TypeOK
<1> QED
  BY <1>4, <1>5, <1>6, <1>7, <1>8, <1>9 DEF Inv

\* The deletion of the rows of a workspace by the pass that works on it.
LEMMA InvRollBackAllocation ==
  ASSUME TypeOK, Inv, NEW p \in Provisioner, RollBackAllocation(p)
  PROVE  Inv'
<1>1. /\ pass'[p].ws = pass[p].ws /\ pass'[p].gpu = pass[p].gpu
      /\ pass'[p].pc \in {"undo", "catch_vm"}
      /\ \A q \in Provisioner \ {p} : pass'[q] = pass[q]
  BY DEF RollBackAllocation, Goto, TypeOK, Pass
<1>2. /\ alloc' = {r \in alloc : r[1] \notin pass[p].ws}
      /\ gpu' = gpu
  BY DEF RollBackAllocation
<1>3. Working(p) /\ pass[p].pc \in {"defer_row", "catch_row"}
  BY DEF RollBackAllocation, Working, CatchPC
<1>4. ~Working(p)'
  BY <1>1 DEF Working, ProvisionPC, CatchPC
<1>5. OneAtATime'
  BY <1>1 DEF OneAtATime, Inv
<1>6. WorkHasRow'
  <2> SUFFICES ASSUME NEW q \in Provisioner \ {p}, Working(q),
                      NEW w \in pass[q].ws, NEW g \in pass[q].gpu
               PROVE  <<w, g>> \in alloc'
    BY <1>1, <1>4 DEF WorkHasRow, Working, Inv
  <2>1. w \notin pass[p].ws
    BY <1>3 DEF Inv, NoDoubleAllocation
  <2>2. <<w, g>> \in alloc
    BY DEF Inv, WorkHasRow
  <2> QED
    BY <1>2, <2>1, <2>2
<1>7. RowsUnique'
  BY <1>2 DEF RowsUnique, Inv
<1>8. RolledBack'
  BY <1>1, <1>2 DEF RolledBack, Inv
<1>9. NoDoubleAllocation'
  BY <1>1, <1>4 DEF NoDoubleAllocation, Working, Inv
<1>10. AllocatedHasRow'
  <2> SUFFICES ASSUME NEW g \in Gpu, NEW w \in Workspace, w \in gpu[g], w \in pass[p].ws
               PROVE  FALSE
    BY <1>2 DEF AllocatedHasRow, Inv
  <2>1. PICK h \in pass[p].gpu : <<w, h>> \in alloc /\ gpu[h] = {}
    BY <1>3 DEF Inv, WorkHasRow, RolledBack
  <2>2. <<w, g>> \in alloc
    BY DEF Inv, AllocatedHasRow
  <2>3. g = h
    BY <2>1, <2>2 DEF Inv, RowsUnique
  <2> QED
    BY <2>1, <2>3
<1> QED
  BY <1>5, <1>6, <1>7, <1>8, <1>9, <1>10 DEF Inv

\* The other steps of a pass past its claim.
LEMMA InvWork ==
  ASSUME TypeOK, Inv, NEW p \in Provisioner,
         \/ CountSlots(p) \/ AttachAndBoot(p) \/ MarkWaiting(p) \/ MarkFailed(p)
         \/ RollBackGpu(p) \/ RollBackVm(p)
         \/ \E w \in Workspace : \/ AcquireCloneSemaphore(p, w) \/ CloneVm(p, w)
                                 \/ ReleaseCloneSemaphore(p, w) \/ UndoWorkspace(p, w)
  PROVE  Inv'
<1> USE OnePassMoves, GoesTo, Leaves DEF tables
<1>1. CASE CountSlots(p)
  <2>1. Working(p)
    BY <1>1 DEF CountSlots, Working, ProvisionPC
  <2> QED
    BY <1>1, <2>1 DEF CountSlots
<1>2. CASE AttachAndBoot(p)
  <2>1. Working(p)
    BY <1>2 DEF AttachAndBoot, Working, ProvisionPC
  <2> QED
    BY <1>2, <2>1 DEF AttachAndBoot, Fails
<1>3. CASE MarkWaiting(p)
  BY <1>3 DEF MarkWaiting
<1>4. CASE MarkFailed(p)
  <2>1. Working(p)
    BY <1>4 DEF MarkFailed, Working, CatchPC
  <2> QED
    BY <1>4, <2>1 DEF MarkFailed
<1>5. CASE RollBackGpu(p)
  <2>1. Working(p)
    BY <1>5 DEF RollBackGpu, Working, CatchPC
  <2>2. PICK g \in pass[p].gpu : gpu' = [gpu EXCEPT ![g] = {}]
    BY <1>5 DEF RollBackGpu, SetGpu
  <2>3. g \in Gpu /\ \A h \in pass[p].gpu : h = g
    BY DEF TypeOK, Pass, Inv, OneAtATime
  <2>4. (\A h \in Gpu : gpu'[h] \subseteq gpu[h]) /\ \A h \in pass[p].gpu : gpu'[h] = {}
    BY <2>2, <2>3 DEF TypeOK
  <2> QED
    BY <1>5, <2>1, <2>4 DEF RollBackGpu
<1>6. CASE RollBackVm(p)
  BY <1>6 DEF RollBackVm
<1>7. ASSUME NEW w \in Workspace, AcquireCloneSemaphore(p, w) PROVE Inv'
  <2>1. Working(p)
    BY <1>7 DEF AcquireCloneSemaphore, Working, ProvisionPC
  <2> QED
    BY <1>7, <2>1 DEF AcquireCloneSemaphore
<1>8. ASSUME NEW w \in Workspace, CloneVm(p, w) PROVE Inv'
  <2>1. Working(p)
    BY <1>8 DEF CloneVm, Working, ProvisionPC
  <2> QED
    BY <1>8, <2>1 DEF CloneVm, Fails
<1>9. ASSUME NEW w \in Workspace, ReleaseCloneSemaphore(p, w) PROVE Inv'
  <2>1. Working(p)
    BY <1>9 DEF ReleaseCloneSemaphore, Working, ProvisionPC, CatchPC
  <2> QED
    BY <1>9, <2>1 DEF ReleaseCloneSemaphore
<1>10. ASSUME NEW w \in Workspace, UndoWorkspace(p, w) PROVE Inv'
  BY <1>10 DEF UndoWorkspace
<1> QED
  BY <1>1, <1>2, <1>3, <1>4, <1>5, <1>6, <1>7, <1>8, <1>9, <1>10

\* The cleanup and the incident job free GPUs as they please; rows they keep.
LEMMA InvRest ==
  ASSUME TypeOK, Inv, Rest \/ WorkerCrash \/ UNCHANGED vars
  PROVE  Inv'
<1>1. CASE Rest \/ UNCHANGED vars
  <2>1. alloc' = alloc /\ pass' = pass
    BY <1>1 DEF Rest, RestOf, LaunchCold, TerminateRead, TerminateFastPath, QueueTermination,
                SweepCreating, CleanupRead, CleanupOrphanedSemaphores, CleanerStep, CleanVm,
                CleanGpu, CleanRow, CleanTerminate, CheckStuckGpus, FreeStuckGpu, vars, tables
  <2>2. gpu' = gpu \/ \E g : gpu' = [gpu EXCEPT ![g] = {}]
    BY <1>1 DEF Rest, RestOf, LaunchCold, TerminateRead, TerminateFastPath, QueueTermination,
                SweepCreating, CleanupRead, CleanupOrphanedSemaphores, CleanerStep, CleanVm,
                CleanGpu, CleanRow, CleanTerminate, CheckStuckGpus, FreeStuckGpu, SetGpu,
                vars, tables
  <2>3. \A g \in Gpu : gpu'[g] \subseteq gpu[g]
    BY <2>2 DEF TypeOK
  <2>4. \A p \in Provisioner : Moves(p)
    BY <2>1, <2>3, StandsStill
  <2> QED
    BY <2>1, <2>3, <2>4, Kept
<1>2. CASE WorkerCrash
  <2>1. alloc' = alloc /\ gpu' = gpu /\ pass' = [p \in Provisioner |-> IdlePass]
    BY <1>2 DEF WorkerCrash, tables
  <2>2. \A p \in Provisioner : Moves(p)
    BY <2>1 DEF Moves, IdlePass, Working, ProvisionPC, CatchPC
  <2> QED
    BY <2>1, <2>2, Kept
<1> QED
  BY <1>1, <1>2

\* Every step keeps the invariant.
LEMMA InvKept == IInv /\ [Next]_vars => IInv'
<1> SUFFICES ASSUME TypeOK, Inv, [Next]_vars PROVE IInv'
  BY DEF IInv
<1>1. ASSUME NEW p \in Provisioner,
             SpawnWarmWorkspace(p) \/ ProcessCreatingWorkspaces(p) \/ ProvisionStep(p)
      PROVE  Inv'
  BY <1>1, InvBefore, InvClaim, InvRollBackAllocation, InvWork DEF ProvisionStep
<1> QED
  BY <1>1, StepKinds, InvRest, TypeKept DEF IInv

\* The invariant holds before anything has happened.
LEMMA InvInitially == Init => IInv
<1> SUFFICES ASSUME Init PROVE IInv
  OBVIOUS
<1>1. TypeOK
  BY TypeInitially
<1>2. \A p \in Provisioner : pass[p].ws = {} /\ pass[p].gpu = {} /\ pass[p].pc = "idle"
  BY DEF Init, IdlePass
<1>3. Inv
  BY <1>2 DEF Init, Inv, OneAtATime, WorkHasRow, RowsUnique, RolledBack, NoDoubleAllocation,
              AllocatedHasRow, Working, ProvisionPC, CatchPC
<1> QED
  BY <1>1, <1>3 DEF IInv

\* No two passes of the warm-pool job ever work on the same workspace or GPU.
THEOREM NoDoubleWork == Spec => []NoDoubleAllocation
<1>1. IInv => NoDoubleAllocation
  BY DEF IInv, Inv
<1> QED
  BY <1>1, InvInitially, InvKept, PTL DEF Spec

\* An ALLOCATED GPU always has the row by which it will be found and freed.
THEOREM GpuIsAccountedFor == Spec => []AllocatedHasRow
<1>1. IInv => AllocatedHasRow
  BY DEF IInv, Inv
<1> QED
  BY <1>1, InvInitially, InvKept, PTL DEF Spec
=============================================================================
