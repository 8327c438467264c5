----------------------------- MODULE RunExecutor -----------------------------
(***************************************************************************)
(* A training run from POST /v1/projects/:id/runs to its last state, as    *)
(* worker/src/jobs/run-executor.ts drives it, with the writers that race   *)
(* with the executor: the events of the agent in the VM and the cancel     *)
(* route (apps/api/src/routes/v1/runs.ts).                                 *)
(*                                                                         *)
(* A pass of the executor lists runs by status and works them off one by   *)
(* one; each step of a pass uses the row as it was listed, and every write *)
(* is an update by id that repeats no condition.  Ticks of the worker may  *)
(* overlap, so there are several Passes.  A pass here works on one run at  *)
(* a time; `todo' is what is left to do for it, one entry per await.       *)
(*                                                                         *)
(* Seconds are abstracted: `billed' says that billedSeconds is positive,   *)
(* `overdue' that hoursMax has gone by since startedAt.  Heartbeats are    *)
(* events only (the agent sends no HEARTBEAT), so a run of any agent may   *)
(* be found silent.  All users have a Stripe customer.                     *)
(***************************************************************************)
EXTENDS Naturals, FiniteSets, Sequences

CONSTANTS
    Runs,           \* rows of runs that may come to exist
    Spaces,         \* workspace ids
    Warm,           \* workspaces that may wait in the warm pool at first
    Passes,         \* executor ticks that may overlap
    MaxConcurrent,  \* User.maxConcurrentRuns
    MaxFaults       \* bound: crashes and failed calls in a behaviour

ASSUME WarmAssumption == Warm \subseteq Spaces
ASSUME FaultAssumption == MaxFaults \in Nat
ASSUME LimitAssumption == MaxConcurrent \in Nat

VARIABLES
    run,        \* run -> its row
    through,    \* runs whose latest STATUS event says completed or failed
    admitted,   \* runs whose create request has passed the limits
    ws,         \* workspace -> its status
    ip,         \* workspaces whose vmInternalIp is set
    pass,       \* pass -> what it works on
    agent,      \* run -> the state its agent reports next
    post,       \* run -> the event request of its agent
    cancel,     \* run -> its cancel request
    overdue,    \* runs that have run for hoursMax
    charged,    \* identifiers of the meter events Stripe holds
    faults      \* crashes and failed calls so far

vars == <<run, through, admitted, ws, ip, pass, agent, post, cancel, overdue, charged,
          faults>>

-----------------------------------------------------------------------------
(* Rows and requests.                                                      *)

Active == {"provisioning", "initializing", "running", "uploading_artifacts"}
Final == {"completed", "failed", "canceled", "timed_out"}
Statuses == {"none", "queued"} \cup Active \cup Final

SpaceStatuses == {"ABSENT", "WARM_AVAILABLE", "CREATING", "RUNNING_ASSIGNED",
                  "TERMINATING", "TERMINATED", "FAILED"}

\* What the executor's passes do after their reads; each entry is an await.
Steps == {"find", "claim", "check", "to_initializing", "execute",
          "to_running", "init_failed", "no_space", "monitor", "timed_out",
          "fail", "cleanup", "charge", "mark", "upload", "finalize", "release"}

\* The statuses the agent reports (apps/agent/aldaro_agent/main.py).
Reports == {"initializing", "running", "uploading_artifacts", "completed", "failed"}

Row == [status : Statuses, space : SUBSET Spaces, started : BOOLEAN,
        finished : BOOLEAN, billed : BOOLEAN, reported : BOOLEAN]

NoRow == [status |-> "none", space |-> {}, started |-> FALSE,
          finished |-> FALSE, billed |-> FALSE, reported |-> FALSE]

\* What a pass uses of the row it has listed.
Copy == [space : SUBSET Spaces, started : BOOLEAN, finished : BOOLEAN, billed : BOOLEAN]

NoCopy == [space |-> {}, started |-> FALSE, finished |-> FALSE, billed |-> FALSE]

CopyOf(row) == [space |-> row.space, started |-> row.started,
                finished |-> row.finished, billed |-> row.billed]

Work == [todo : Seq(Steps), run : SUBSET Runs, copy : Copy, found : SUBSET Spaces]

Idle == [todo |-> <<>>, run |-> {}, copy |-> NoCopy, found |-> {}]

NoPost == [at |-> "none", state |-> "failed", started |-> FALSE]

NoCancel == [at |-> "none", space |-> {}]

\* VALID_TRANSITIONS, as far as the agent's reports go.
ValidTransitions ==
    {<<"provisioning", "initializing">>, <<"initializing", "running">>,
     <<"running", "uploading_artifacts">>, <<"running", "completed">>,
     <<"uploading_artifacts", "completed">>}
        \cup {<<s, "failed">> : s \in {"queued"} \cup Active}

TypeOK ==
    /\ run \in [Runs -> Row]
    /\ through \in SUBSET Runs
    /\ admitted \in SUBSET Runs
    /\ ws \in [Spaces -> SpaceStatuses]
    /\ ip \in SUBSET Spaces
    /\ pass \in [Passes -> Work]
    /\ agent \in [Runs -> Reports \cup {"none", "gone"}]
    /\ post \in [Runs -> [at : {"none", "read", "write", "charge", "mark"},
                          state : Reports, started : BOOLEAN]]
    /\ cancel \in [Runs -> [at : {"none", "write", "deprovision"}, space : SUBSET Spaces]]
    /\ overdue \in SUBSET Runs
    /\ charged \in SUBSET Runs
    /\ faults \in 0 .. MaxFaults

Init ==
    /\ run = [r \in Runs |-> NoRow]
    /\ through = {}
    /\ admitted = {}
    /\ \E pool \in SUBSET Warm :
         /\ ws = [w \in Spaces |-> IF w \in pool THEN "WARM_AVAILABLE" ELSE "ABSENT"]
         /\ ip \in SUBSET pool
    /\ pass = [p \in Passes |-> Idle]
    /\ agent = [r \in Runs |-> "none"]
    /\ post = [r \in Runs |-> NoPost]
    /\ cancel = [r \in Runs |-> NoCancel]
    /\ overdue = {}
    /\ charged = {}
    /\ faults = 0

-----------------------------------------------------------------------------
(* The API: create (or retry) a run, cancel it.                            *)

\* POST /projects/:id/runs and POST /runs/:id/retry: the limits are counted ...
PassLimits(r) ==
    /\ run[r].status = "none" /\ r \notin admitted
    /\ Cardinality({q \in Runs : run[q].status \in Active}) < MaxConcurrent
    /\ admitted' = admitted \cup {r}
    /\ UNCHANGED <<run, through, ws, ip, pass, agent, post, cancel, overdue, charged, faults>>

\* ... and the row is created in a later await; the worker provisions it.
CreateRun(r) ==
    /\ r \in admitted
    /\ admitted' = admitted \ {r}
    /\ run' = [run EXCEPT ![r].status = "queued"]
    /\ UNCHANGED <<through, ws, ip, pass, agent, post, cancel, overdue, charged, faults>>

\* POST /runs/:id/cancel reads the row; a finished run is refused.
ReadCancel(r) ==
    /\ cancel[r].at = "none"
    /\ run[r].status \notin Final \cup {"none"}
    /\ cancel' = [cancel EXCEPT ![r] = [at |-> "write", space |-> run[r].space]]
    /\ UNCHANGED <<run, through, admitted, ws, ip, pass, agent, post, overdue, charged, faults>>

\* The status and infraFinishedAt are written; billedSeconds and finishedAt are not.
WriteCancel(r) ==
    /\ cancel[r].at = "write"
    /\ run' = [run EXCEPT ![r].status = "canceled"]
    /\ cancel' = [cancel EXCEPT ![r] =
                    IF @.space = {} THEN NoCancel ELSE [@ EXCEPT !.at = "deprovision"]]
    /\ UNCHANGED <<through, admitted, ws, ip, pass, agent, post, overdue, charged, faults>>

\* provisioner.deprovision: the VM of the workspace read before is deleted, and
\* its agent with it.  The workspace row keeps its status.
Deprovision(r) ==
    /\ cancel[r].at = "deprovision"
    /\ agent' = [agent EXCEPT ![r] = IF run[r].space = cancel[r].space THEN "gone" ELSE @]
    /\ cancel' = [cancel EXCEPT ![r] = NoCancel]
    /\ UNCHANGED <<run, through, admitted, ws, ip, pass, post, overdue, charged, faults>>

-----------------------------------------------------------------------------
(* The agent and its events.                                               *)

\* The agent of an assigned workspace shakes hands and works towards its first report.
StartAgent(r) ==
    /\ agent[r] = "none"
    /\ \E w \in run[r].space : ws[w] = "RUNNING_ASSIGNED"
    /\ agent' = [agent EXCEPT ![r] = "initializing"]
    /\ UNCHANGED <<run, through, admitted, ws, ip, pass, post, cancel, overdue, charged, faults>>

\* The agent, its VM or its network is lost, after all its retries.
LoseAgent(r) ==
    /\ agent[r] \in Reports
    /\ agent' = [agent EXCEPT ![r] = "gone"]
    /\ UNCHANGED <<run, through, admitted, ws, ip, pass, post, cancel, overdue, charged, faults>>

\* What the agent goes on to report after `s'.
NextReports(s) ==
    CASE s = "initializing" -> {"running"}
      [] s = "running" -> {"uploading_artifacts", "failed"}
      [] s = "uploading_artifacts" -> {"completed"}
      [] OTHER -> {"gone"}

\* POST /runs/:id/events: the event is stored before the status is looked at.
PostStatus(r) ==
    /\ agent[r] \in Reports
    /\ post[r].at = "none"
    /\ through' = IF agent[r] \in Final THEN through \cup {r} ELSE through \ {r}
    /\ post' = [post EXCEPT ![r] = [NoPost EXCEPT !.at = "read", !.state = agent[r]]]
    /\ UNCHANGED <<run, admitted, ws, ip, pass, agent, cancel, overdue, charged, faults>>

\* The status is read and the transition validated; a refusal is ignored by the agent.
ReadStatus(r) ==
    /\ post[r].at = "read"
    /\ IF <<run[r].status, post[r].state>> \in ValidTransitions
         THEN /\ post' = [post EXCEPT ![r].at = "write", ![r].started = run[r].started]
              /\ UNCHANGED agent
         ELSE /\ post' = [post EXCEPT ![r] = NoPost]
              /\ \E s \in NextReports(post[r].state) :
                    agent' = [agent EXCEPT ![r] = IF @ = "gone" THEN @ ELSE s]
    /\ UNCHANGED <<run, through, admitted, ws, ip, pass, cancel, overdue, charged, faults>>

\* The validated state is written over whatever the row holds by now.
WriteStatus(r) ==
    /\ post[r].at = "write"
    /\ LET s == post[r].state IN
       /\ run' = [run EXCEPT
            ![r].status = s,
            ![r].started = @ \/ s = "running",
            ![r].finished = @ \/ s \in Final,
            ![r].billed = IF s \in Final /\ post[r].started THEN TRUE ELSE @]
       /\ overdue' = IF s = "running" THEN overdue \ {r} ELSE overdue
       /\ post' = [post EXCEPT ![r] =
            IF s \in Final THEN [NoPost EXCEPT !.at = "charge"] ELSE NoPost]
       /\ \E n \in NextReports(s) :
            agent' = [agent EXCEPT ![r] = IF @ = "gone" THEN @ ELSE n]
    /\ UNCHANGED <<through, admitted, ws, ip, pass, cancel, charged, faults>>

\* reportUsageToStripe, not awaited by the request: Stripe keeps one event per run id.
Due(r) == run[r].billed /\ ~run[r].reported

PostCharge(r) ==
    /\ post[r].at = "charge"
    /\ IF Due(r)
         THEN /\ charged' = charged \cup {r}
              /\ post' = [post EXCEPT ![r].at = "mark"]
         ELSE /\ post' = [post EXCEPT ![r] = NoPost]
              /\ UNCHANGED charged
    /\ UNCHANGED <<run, through, admitted, ws, ip, pass, agent, cancel, overdue, faults>>

PostMark(r) ==
    /\ post[r].at = "mark"
    /\ run' = [run EXCEPT ![r].reported = TRUE]
    /\ post' = [post EXCEPT ![r] = NoPost]
    /\ UNCHANGED <<through, admitted, ws, ip, pass, agent, cancel, overdue, charged, faults>>

-----------------------------------------------------------------------------
(* The executor: which step a pass is at, and how it goes on.              *)

At(p, r, step) ==
    /\ pass[p].todo # <<>> /\ Head(pass[p].todo) = step
    /\ r \in pass[p].run

\* The pass has done its first step; the run is off its hands after the last.
Done(p) ==
    pass' = [pass EXCEPT ![p] =
        IF Len(pass[p].todo) = 1 THEN Idle ELSE [pass[p] EXCEPT !.todo = Tail(pass[p].todo)]]

Goto(p, todo) ==
    pass' = [pass EXCEPT ![p] = IF todo = <<>> THEN Idle ELSE [@ EXCEPT !.todo = todo]]

\* What is left to do after the next n steps.
After(p, n) == SubSeq(pass[p].todo, n + 1, Len(pass[p].todo))

Report == <<"charge", "mark">>

Stage(row) ==
    CASE row.status = "queued" -> <<"find">>
      [] row.status = "provisioning" -> <<"check">>
      [] row.status = "initializing" -> <<"execute">>
      [] row.status = "running" -> <<"monitor">>
      [] row.status = "uploading_artifacts" -> <<"upload">>

\* A tick lists the runs of every status in turn; the run is worked off with this copy.
Pick(p, r) ==
    /\ pass[p] = Idle
    /\ run[r].status \in {"queued"} \cup Active
    /\ run[r].status \in {"provisioning", "initializing"} => run[r].space # {}
    /\ pass' = [pass EXCEPT ![p] = [todo |-> Stage(run[r]), run |-> {r},
                                    copy |-> CopyOf(run[r]), found |-> {}]]
    /\ UNCHANGED <<run, through, admitted, ws, ip, agent, post, cancel, overdue, charged, faults>>

\* processUnreportedRunBilling: finished runs with seconds that Stripe was not told of.
\* Fault: the sweep leaves out the runs that failed or timed out.
PickUnreportedCompleted(p, r) ==
    /\ pass[p] = Idle
    /\ run[r].status \in {"completed", "canceled"} /\ Due(r)
    /\ pass' = [pass EXCEPT ![p] = [todo |-> Report, run |-> {r},
                                    copy |-> NoCopy, found |-> {}]]
    /\ UNCHANGED <<run, through, admitted, ws, ip, agent, post, cancel, overdue, charged, faults>>

PickUnreported(p, r) ==
    /\ pass[p] = Idle
    /\ run[r].status \in Final /\ Due(r)
    /\ pass' = [pass EXCEPT ![p] = [todo |-> Report, run |-> {r},
                                    copy |-> NoCopy, found |-> {}]]
    /\ UNCHANGED <<run, through, admitted, ws, ip, agent, post, cancel, overdue, charged, faults>>

-----------------------------------------------------------------------------
(* queued -> provisioning                                                  *)

\* (A queued row has no workspace: the code's skip of one that has is never taken.)
FindWarm(p, r) ==
    /\ At(p, r, "find")
    /\ LET warm == {w \in Spaces : ws[w] = "WARM_AVAILABLE"} IN
       \E found \in IF warm = {} THEN {{}} ELSE {{w} : w \in warm} :
          pass' = [pass EXCEPT ![p].todo = <<"claim">>, ![p].found = found]
    /\ UNCHANGED <<run, through, admitted, ws, ip, agent, post, cancel, overdue, charged, faults>>

Holds(r, w) == w \in run[r].space

\* The transaction assigns the workspace and the run.  It is rolled back when another
\* run has the workspace, upstreamInstanceId being unique, or by an error.
\* Fault: nothing keeps two runs from one workspace.
ClaimWarmAnyway(p, r) ==
    /\ At(p, r, "claim") /\ pass[p].found # {}
    /\ ws' = [w \in Spaces |-> IF w \in pass[p].found THEN "RUNNING_ASSIGNED" ELSE ws[w]]
    /\ run' = [run EXCEPT ![r].status = "provisioning", ![r].space = pass[p].found]
    /\ Done(p)
    /\ UNCHANGED <<through, admitted, ip, agent, post, cancel, overdue, charged, faults>>

ClaimWarm(p, r) ==
    /\ At(p, r, "claim") /\ pass[p].found # {}
    /\ \A q \in Runs \ {r} : run[q].space \cap pass[p].found = {}
    /\ ws' = [w \in Spaces |-> IF w \in pass[p].found THEN "RUNNING_ASSIGNED" ELSE ws[w]]
    /\ run' = [run EXCEPT ![r].status = "provisioning", ![r].space = pass[p].found]
    /\ Done(p)
    /\ UNCHANGED <<through, admitted, ip, agent, post, cancel, overdue, charged, faults>>

ClaimRefused(p, r) ==
    /\ At(p, r, "claim")
    /\ \/ /\ \E q \in Runs \ {r} : run[q].space \cap pass[p].found # {}
          /\ UNCHANGED faults
       \/ faults < MaxFaults /\ faults' = faults + 1
    /\ Goto(p, <<"no_space">>)
    /\ UNCHANGED <<run, through, admitted, ws, ip, agent, post, cancel, overdue, charged>>

\* No warm workspace was found: a fresh row is created for the run.
CreateCold(p, r) ==
    /\ At(p, r, "claim") /\ pass[p].found = {}
    /\ \E w \in Spaces :
         /\ ws[w] = "ABSENT"
         /\ ws' = [ws EXCEPT ![w] = "CREATING"]
         /\ run' = [run EXCEPT ![r].status = "provisioning", ![r].space = {w}]
    /\ Done(p)
    /\ UNCHANGED <<through, admitted, ip, agent, post, cancel, overdue, charged, faults>>

\* The run fails without a workspace, or with one that has failed or is gone.
NoSpace(p, r) ==
    /\ At(p, r, "no_space")
    /\ run' = [run EXCEPT ![r].status = "failed", ![r].finished = TRUE]
    /\ Done(p)
    /\ UNCHANGED <<through, admitted, ws, ip, agent, post, cancel, overdue, charged, faults>>

-----------------------------------------------------------------------------
(* provisioning -> initializing -> running                                 *)

\* The workspace of the copy is read: ready, lost, or still booting.
CheckSpace(p, r) ==
    /\ At(p, r, "check")
    /\ \E w \in pass[p].copy.space :
         Goto(p, CASE ws[w] = "RUNNING_ASSIGNED" -> <<"to_initializing">>
                   [] ws[w] \in {"FAILED", "TERMINATED"} -> <<"no_space">>
                   [] OTHER -> <<>>)
    /\ UNCHANGED <<run, through, admitted, ws, ip, agent, post, cancel, overdue, charged, faults>>

ToInitializing(p, r) ==
    /\ At(p, r, "to_initializing")
    /\ run' = [run EXCEPT ![r].status = "initializing"]
    /\ Done(p)
    /\ UNCHANGED <<through, admitted, ws, ip, agent, post, cancel, overdue, charged, faults>>

\* Without an address to call the run is passed over, on this tick and on every other.
AwaitIp(p, r) ==
    /\ At(p, r, "execute")
    /\ pass[p].copy.space \cap ip = {}
    /\ Goto(p, <<>>)
    /\ UNCHANGED <<run, through, admitted, ws, ip, agent, post, cancel, overdue, charged, faults>>

\* POST /execute to the VM: an answer, or an error after at most 30 s.
Execute(p, r) ==
    /\ At(p, r, "execute")
    /\ pass[p].copy.space \cap ip # {}
    /\ \E next \in {"to_running", "init_failed"} : Goto(p, <<next>>)
    /\ UNCHANGED <<run, through, admitted, ws, ip, agent, post, cancel, overdue, charged, faults>>

ToRunning(p, r) ==
    /\ At(p, r, "to_running")
    /\ run' = [run EXCEPT ![r].status = "running", ![r].started = TRUE]
    /\ overdue' = overdue \ {r}
    /\ Done(p)
    /\ UNCHANGED <<through, admitted, ws, ip, agent, post, cancel, charged, faults>>

\* The call failed: the run is over, and its workspace is left to the idle job.
InitFailed(p, r) ==
    /\ At(p, r, "init_failed")
    /\ run' = [run EXCEPT ![r].status = "failed", ![r].finished = TRUE]
    /\ Done(p)
    /\ UNCHANGED <<through, admitted, ws, ip, agent, post, cancel, overdue, charged, faults>>

-----------------------------------------------------------------------------
(* running -> timed_out or failed                                          *)

\* checkRunTimeout comes first: hoursMax since startedAt.
MonitorTimeout(p, r) ==
    /\ At(p, r, "monitor")
    /\ pass[p].copy.started /\ r \in overdue
    /\ Goto(p, <<"timed_out">> \o <<"cleanup">> \o Report)
    /\ UNCHANGED <<run, through, admitted, ws, ip, agent, post, cancel, overdue, charged, faults>>

\* checkRunHeartbeat: no session, or no event of it, for five minutes.
MonitorSilent(p, r) ==
    /\ At(p, r, "monitor")
    /\ ~(pass[p].copy.started /\ r \in overdue)
    /\ Goto(p, <<"fail">> \o <<"cleanup">> \o Report)
    /\ UNCHANGED <<run, through, admitted, ws, ip, agent, post, cancel, overdue, charged, faults>>

\* Fault: an agent that reports keeps its run, however long.
MonitorAnyway(p, r) ==
    /\ At(p, r, "monitor")
    /\ Goto(p, <<>>)
    /\ UNCHANGED <<run, through, admitted, ws, ip, agent, post, cancel, overdue, charged, faults>>

MonitorHealthy(p, r) ==
    /\ At(p, r, "monitor")
    /\ ~(pass[p].copy.started /\ r \in overdue)
    /\ Goto(p, <<>>)
    /\ UNCHANGED <<run, through, admitted, ws, ip, agent, post, cancel, overdue, charged, faults>>

WriteTimedOut(p, r) ==
    /\ At(p, r, "timed_out")
    /\ run' = [run EXCEPT ![r].status = "timed_out", ![r].finished = TRUE, ![r].billed = TRUE]
    /\ Done(p)
    /\ UNCHANGED <<through, admitted, ws, ip, agent, post, cancel, overdue, charged, faults>>

\* failRun: the seconds come from the copy, and are 0 if it was not started.
WriteFailed(p, r) ==
    /\ At(p, r, "fail")
    /\ run' = [run EXCEPT ![r].status = "failed", ![r].finished = TRUE,
                          ![r].billed = pass[p].copy.started]
    /\ Done(p)
    /\ UNCHANGED <<through, admitted, ws, ip, agent, post, cancel, overdue, charged, faults>>

-----------------------------------------------------------------------------
(* uploading_artifacts -> completed                                        *)

\* The latest STATUS event says that the agent is through, or the upload has
\* taken too long, counted from finishedAt.
UploadIsOver(p, r) ==
    /\ At(p, r, "upload")
    /\ r \in through \/ pass[p].copy.finished
    /\ Goto(p, <<"finalize">> \o Report \o <<"release">>)
    /\ UNCHANGED <<run, through, admitted, ws, ip, agent, post, cancel, overdue, charged, faults>>

UploadGoesOn(p, r) ==
    /\ At(p, r, "upload")
    /\ r \notin through
    /\ Goto(p, <<>>)
    /\ UNCHANGED <<run, through, admitted, ws, ip, agent, post, cancel, overdue, charged, faults>>

\* finalizeRun: everything but the status is computed from the copy.
Finalize(p, r) ==
    /\ At(p, r, "finalize")
    /\ run' = [run EXCEPT ![r].status = "completed", ![r].finished = TRUE,
                          ![r].billed = pass[p].copy.billed \/ pass[p].copy.started]
    /\ Done(p)
    /\ UNCHANGED <<through, admitted, ws, ip, agent, post, cancel, overdue, charged, faults>>

\* releaseRunWorkspace: a workspace that is being cleaned up, or was, is left alone.
ReleaseSpace(p, r) ==
    /\ At(p, r, "release")
    /\ Goto(p, IF \E w \in pass[p].copy.space :
                    ws[w] \notin {"TERMINATED", "TERMINATING", "FAILED"}
               THEN <<"cleanup">> ELSE <<>>)
    /\ UNCHANGED <<run, through, admitted, ws, ip, agent, post, cancel, overdue, charged, faults>>

-----------------------------------------------------------------------------
(* Cleanup of the workspace, and the bill.                                 *)

\* enqueueWorkspaceCleanup sets TERMINATING whatever the status, and enqueues the job
\* in a next await (that the sweeper makes up for a lost job is WorkspaceCleanup's).
EnqueueCleanup(p, r) ==
    /\ At(p, r, "cleanup")
    /\ ws' = [w \in Spaces |-> IF w \in pass[p].copy.space THEN "TERMINATING" ELSE ws[w]]
    /\ Done(p)
    /\ UNCHANGED <<run, through, admitted, ip, agent, post, cancel, overdue, charged, faults>>

\* reportRunBilling reads the row again; Stripe keeps one event per run id.
Charge(p, r) ==
    /\ At(p, r, "charge")
    /\ IF Due(r)
         THEN charged' = charged \cup {r} /\ Done(p)
         ELSE /\ Goto(p, After(p, 2))
              /\ UNCHANGED charged
    /\ UNCHANGED <<run, through, admitted, ws, ip, agent, post, cancel, overdue, faults>>

MarkReported(p, r) ==
    /\ At(p, r, "mark")
    /\ run' = [run EXCEPT ![r].reported = TRUE]
    /\ Done(p)
    /\ UNCHANGED <<through, admitted, ws, ip, agent, post, cancel, overdue, charged, faults>>

-----------------------------------------------------------------------------
(* The rest of the platform, as the executor sees it.                      *)

\* The warm-pool job finds the address of a VM that waits for its agent (CREATING here).
FindIp(w) ==
    /\ ws[w] = "CREATING" /\ w \notin ip
    /\ ip' = ip \cup {w}
    /\ UNCHANGED <<run, through, admitted, ws, pass, agent, post, cancel, overdue, charged, faults>>

\* With an address and a heartbeat the workspace is up; one that does not come up is given up.
Boot(w) ==
    /\ ws[w] = "CREATING"
    /\ \E s \in {"FAILED", "TERMINATING", "RUNNING_ASSIGNED"} :
         /\ s = "RUNNING_ASSIGNED" => w \in ip
         /\ ws' = [ws EXCEPT ![w] = s]
    /\ UNCHANGED <<run, through, admitted, ip, pass, agent, post, cancel, overdue, charged, faults>>

\* /verify-result: the agent's own verdict is taken, whether the address is known or not.
\* Once it has passed, the warm-pool job does not look for the address any more.
VerifyPass(w) ==
    /\ ws[w] = "CREATING"
    /\ ws' = [ws EXCEPT ![w] = "RUNNING_ASSIGNED"]
    /\ UNCHANGED <<run, through, admitted, ip, pass, agent, post, cancel, overdue, charged, faults>>

\* The user, the budget or the idle job ends a workspace, whether a run works on it or not.
EndSpace(w) ==
    /\ ws[w] = "RUNNING_ASSIGNED"
    /\ ws' = [ws EXCEPT ![w] = "TERMINATING"]
    /\ UNCHANGED <<run, through, admitted, ip, pass, agent, post, cancel, overdue, charged, faults>>

\* The cleanup job takes it down, and its agent with it.
CleanSpace(w) ==
    /\ ws[w] = "TERMINATING"
    /\ ws' = [ws EXCEPT ![w] = "TERMINATED"]
    /\ agent' = [r \in Runs |-> IF Holds(r, w) THEN "gone" ELSE agent[r]]
    /\ UNCHANGED <<run, through, admitted, ip, pass, post, cancel, overdue, charged, faults>>

\* Time passes: hoursMax is over.
GoOverdue(r) ==
    /\ run[r].started /\ r \notin overdue
    /\ overdue' = overdue \cup {r}
    /\ UNCHANGED <<run, through, admitted, ws, ip, pass, agent, post, cancel, charged, faults>>

-----------------------------------------------------------------------------
(* Faults: the worker dies in a pass, Stripe or the database refuses a     *)
(* call, the API dies in a request.                                        *)

CrashPass(p) ==
    /\ faults < MaxFaults /\ pass[p] # Idle
    /\ pass' = [pass EXCEPT ![p] = Idle]
    /\ faults' = faults + 1
    /\ UNCHANGED <<run, through, admitted, ws, ip, agent, post, cancel, overdue, charged>>

\* Fault: an error of Stripe is swallowed by itself, and the mark follows.
FailChargeAndMark(p, r) ==
    /\ faults < MaxFaults
    /\ At(p, r, "charge") /\ Goto(p, After(p, 1))
    /\ faults' = faults + 1
    /\ UNCHANGED <<run, through, admitted, ws, ip, agent, post, cancel, overdue, charged>>

\* Errors of Stripe, of the update after it, and of the cleanup are swallowed:
\* the pass goes on with the next call.
FailCharge(p, r) ==
    /\ faults < MaxFaults
    /\ \/ At(p, r, "charge") /\ Goto(p, After(p, 2))
       \/ At(p, r, "mark") /\ Goto(p, After(p, 1))
    /\ faults' = faults + 1
    /\ UNCHANGED <<run, through, admitted, ws, ip, agent, post, cancel, overdue, charged>>

LoseRequests(r) ==
    /\ faults < MaxFaults
    /\ post[r] # NoPost \/ cancel[r] # NoCancel
    /\ post' = [post EXCEPT ![r] = NoPost]
    /\ cancel' = [cancel EXCEPT ![r] = NoCancel]
    /\ faults' = faults + 1
    /\ UNCHANGED <<run, through, admitted, ws, ip, pass, agent, overdue, charged>>

-----------------------------------------------------------------------------
Api(r) ==
    \/ PassLimits(r) \/ CreateRun(r) \/ ReadCancel(r) \/ WriteCancel(r) \/ Deprovision(r)

Events(r) == ReadStatus(r) \/ WriteStatus(r) \/ PostCharge(r) \/ PostMark(r)

Agent(r) == StartAgent(r) \/ LoseAgent(r) \/ PostStatus(r)

Step(p, r) ==
    \/ FindWarm(p, r) \/ ClaimWarm(p, r) \/ ClaimRefused(p, r)
    \/ CreateCold(p, r) \/ NoSpace(p, r) \/ CheckSpace(p, r) \/ ToInitializing(p, r)
    \/ AwaitIp(p, r) \/ Execute(p, r) \/ ToRunning(p, r) \/ InitFailed(p, r)
    \/ MonitorTimeout(p, r) \/ MonitorSilent(p, r) \/ MonitorHealthy(p, r) \/ WriteTimedOut(p, r)
    \/ WriteFailed(p, r) \/ UploadIsOver(p, r) \/ UploadGoesOn(p, r) \/ Finalize(p, r)
    \/ ReleaseSpace(p, r) \/ EnqueueCleanup(p, r) \/ Charge(p, r) \/ MarkReported(p, r)

Others(w) == FindIp(w) \/ Boot(w) \/ VerifyPass(w) \/ EndSpace(w) \/ CleanSpace(w)

Next ==
    \/ \E r \in Runs : Api(r) \/ Agent(r) \/ Events(r) \/ GoOverdue(r) \/ LoseRequests(r)
    \/ \E p \in Passes, r \in Runs :
         Pick(p, r) \/ PickUnreported(p, r) \/ Step(p, r) \/ FailCharge(p, r)
    \/ \E p \in Passes : CrashPass(p)
    \/ \E w \in Spaces : Others(w)

Spec == Init /\ [][Next]_vars

-----------------------------------------------------------------------------
(* Fairness.                                                               *)

\* Every tick lists every run it has work for; a run is not passed over forever.
\* A pass, a handler, the boot and the cleanup finish what they have begun, and time
\* passes.  Nothing is assumed of the idle job, of agents and of addresses.
Fairness ==
    /\ \A r \in Runs :
         /\ SF_vars(\E p \in Passes : Pick(p, r))
         /\ SF_vars(\E p \in Passes : PickUnreported(p, r))
         /\ WF_vars(Events(r))
         /\ WF_vars(GoOverdue(r))
    /\ \A p \in Passes : WF_vars(\E r \in Runs : Step(p, r))
    /\ \A w \in Spaces : WF_vars(Boot(w)) /\ WF_vars(CleanSpace(w))

FairSpec == Spec /\ Fairness

-----------------------------------------------------------------------------
(* Properties.                                                             *)

\* Two runs never have one workspace, though warm workspaces are looked up before
\* they are claimed (the unique upstreamInstanceId and the transaction).
SpacesNotShared ==
    \A q, r \in Runs : q # r => run[q].space \cap run[r].space = {}

\* A run is marked as reported only after Stripe has its charge: nothing charges it after
\* that, whatever stale copies are written and whichever calls are lost.
ReportedWasCharged == \A r \in Runs : run[r].reported => r \in charged

\* The two places where a run may stay: an upload nobody finishes, and an initialization
\* that waits for the address of its workspace.
Uploads(r)  == run[r].status = "uploading_artifacts"
AwaitsIp(r) == run[r].status = "initializing" /\ run[r].space \cap ip = {}

\* A run that was created is at last finished for good, or in one of the two: whatever
\* stale copies its passes write, however the agent and the cancel route race with them.
RunSettles ==
    \A r \in Runs :
        (run[r].status = "queued") ~> [](run[r].status \in Final \/ Uploads(r) \/ AwaitsIp(r))

\* A run that stays finished with seconds to bill is charged, although each report
\* is best effort (the comment of processUnreportedRunBilling).
FinishedIsCharged ==
    \A r \in Runs :
        (run[r].status \in Final /\ run[r].billed)
            ~> (r \in charged \/ run[r].status \notin Final \/ ~run[r].billed)

\* "Timeout: if uploading has been going on too long, finalize anyway"
\* (run-executor.ts:473).
UploadEnds ==
    \A r \in Runs : Uploads(r) ~> ~Uploads(r)
\* The agent loop "drives the ML training run lifecycle" and "transitions them forward"
\* (run-executor.ts:6-12): a run in initialization gets to run, or is over.
InitializationEnds ==
    \A r \in Runs : run[r].status = "initializing" ~> run[r].status # "initializing"
=============================================================================
