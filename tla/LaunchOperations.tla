-------------------------- MODULE LaunchOperations --------------------------
(***************************************************************************)
(* WorkspaceService.launch: requests with an idempotency key open a launch *)
(* operation, take a warm workspace or create a cold one, and record it;   *)
(* repeated and concurrent requests of the same key wait for its outcome.  *)
(*                                                                         *)
(* The run executor and the shrinking of the warm pool write the same warm *)
(* workspaces.  Every await that changes state, or that reads what is      *)
(* later relied on, is a step.  Transactions are READ COMMITTED: a read    *)
(* locks nothing, and an update by id applies whatever was committed since.*)
(***************************************************************************)
EXTENDS Naturals, FiniteSets

CONSTANTS User, Key,      \* an operation is named by both
          Payload,        \* requestHash: what is asked for
          Cold, Warm,     \* rows a launch may create (one per operation is
                          \* enough), and the warm workspaces there are
          Request,        \* POST /workspaces/launch, each served once
          Sends,          \* what a request may be for: (request, operation, payload)
          Run,            \* runs whose executor looks for a warm workspace
          MaxActive,      \* user.maxActiveWorkspaces
          MaxFaults       \* bound on requests lost and on calls that fail

ASSUME LaunchAssumption ==
  /\ MaxActive \in Nat
  /\ MaxFaults \in Nat
  /\ Cold \cap Warm = {}

Operation == User \X Key
UserOf(o) == o[1]
Workspace == Cold \cup Warm

VARIABLES operation,  \* table workspace_launch_operations
          status,     \* table workspaces: status, "none" without a row
          owner,      \* table workspaces: assignedUserId, {} for null
          launchedBy, \* table workspaces: launchOperationKey, with its user
          session,    \* table usage_sessions: user of the RUNNING one
          req,        \* the requests
          run,        \* run executor: the warm workspace it has read
          shrink,     \* warm-pool shrink: how far with each workspace
          faults      \* requests lost and calls failed so far

workspaces == <<status, owner, launchedBy, session>>
workers == <<run, shrink>>
vars == <<operation, workspaces, req, workers, faults>>

AtMostOne(S) == {{}} \cup {{x} : x \in S}

Row == [status : {"none", "PROCESSING", "COMPLETED", "FAILED"},
        requestHash : AtMostOne(Payload), ws : AtMostOne(Workspace)]
NoRow == [status |-> "none", requestHash |-> {}, ws |-> {}]

\* A request keeps its pc when it is answered or lost.
PC == {"new", "lookup", "create", "reread", "poll", "quota", "find", "read",
       "assign", "ports", "session", "running", "cold", "complete", "answer", "fail"}
Reply == {"none", "launched", "failed", "conflict", "in_progress", "lost"}
RequestState == [pc : PC, op : AtMostOne(Operation), hash : AtMostOne(Payload),
                 ws : AtMostOne(Workspace), reply : Reply]
NewRequest == [pc |-> "new", op |-> {}, hash |-> {}, ws |-> {}, reply |-> "none"]

Status == {"none", "WARM_AVAILABLE", "ASSIGNING", "CREATING", "RUNNING_ASSIGNED",
           "TERMINATING", "TERMINATED"}
\* ACTIVE_WORKSPACE_STATUSES: CREATING stands for those of a cold start too.
ActiveStatus == {"RUNNING_ASSIGNED", "ASSIGNING", "CREATING"}

TypeOK ==
  /\ operation \in [Operation -> Row]
  /\ status \in [Workspace -> Status]
  /\ owner \in [Workspace -> AtMostOne(User)]
  /\ launchedBy \in [Workspace -> AtMostOne(Operation)]
  /\ session \in [Workspace -> AtMostOne(User)]
  /\ req \in [Request -> RequestState]
  /\ run \in [Run -> AtMostOne(Warm)]
  /\ shrink \in [Warm -> {"none", "listed", "marked"}]
  /\ faults \in 0..MaxFaults

Init ==
  /\ operation = [o \in Operation |-> NoRow]
  /\ status = [w \in Workspace |-> IF w \in Warm THEN "WARM_AVAILABLE" ELSE "none"]
  /\ owner = [w \in Workspace |-> {}]
  /\ launchedBy = [w \in Workspace |-> {}]
  /\ session = [w \in Workspace |-> {}]
  /\ req = [r \in Request |-> NewRequest]
  /\ run = [n \in Run |-> {}]
  /\ shrink = [w \in Warm |-> "none"]
  /\ faults = 0

\* Request r is served, stands at pc and is about operation o.
At(r, pc, o) ==
  /\ req[r].reply = "none"
  /\ req[r].pc = pc
  /\ o \in req[r].op

Goto(r, pc)  == req' = [req EXCEPT ![r].pc = pc]
Answer(r, a) == req' = [req EXCEPT ![r].reply = a]
AnswerWorkspace(r, ws) == req' = [req EXCEPT ![r] = [@ EXCEPT !.reply = "launched", !.ws = ws]]

-----------------------------------------------------------------------------
(* The operation is looked up, or opened.                                  *)

\* A client, a retry of it or its second tab.
Arrive(r) ==
  /\ req[r].pc = "new"
  /\ req[r].reply = "none"
  /\ \E o \in Operation, p \in Payload :
       /\ <<r, o, p>> \in Sends
       /\ req' = [req EXCEPT ![r] = [@ EXCEPT !.pc = "lookup", !.op = {o}, !.hash = {p}]]
  /\ UNCHANGED <<operation, workspaces, workers, faults>>

\* Reads the row: first of all, and again when it cannot be created.
Lookup(r, o) ==
  /\ \/ At(r, "lookup", o)
     \/ At(r, "reread", o)
  /\ CASE operation[o].status = "none"               -> Goto(r, "create")
       [] operation[o].status # "none" /\ operation[o].requestHash # req[r].hash
                                                     -> Answer(r, "conflict")
       [] operation[o].requestHash = req[r].hash /\ operation[o].ws # {}
                                                     -> AnswerWorkspace(r, operation[o].ws)
       [] operation[o].requestHash = req[r].hash /\ operation[o].ws = {}
                                                     -> IF operation[o].status = "FAILED" /\ req[r].pc = "lookup"
                                                        THEN Answer(r, "failed")
                                                        ELSE Goto(r, "poll")
  /\ UNCHANGED <<operation, workspaces, workers, faults>>

\* Fault: created, or written again, without the unique constraint.
CreateOperationAnyway(r, o) ==
  /\ At(r, "create", o)
  /\ operation' = [operation EXCEPT ![o] = [NoRow EXCEPT !.status = "PROCESSING", !.requestHash = req[r].hash]]
  /\ Goto(r, "quota")
  /\ UNCHANGED <<workspaces, workers, faults>>

\* The pair of user and key is unique: of two requests one gets P2002.
CreateOperation(r, o) ==
  /\ At(r, "create", o)
  /\ IF operation[o].status = "none"
     THEN /\ operation' = [operation EXCEPT ![o] = [NoRow EXCEPT !.status = "PROCESSING", !.requestHash = req[r].hash]]
          /\ Goto(r, "quota")
     ELSE Goto(r, "reread") /\ UNCHANGED operation
  /\ UNCHANGED <<workspaces, workers, faults>>

\* A poll that finds the operation undecided sleeps and polls again.
Poll(r, o) ==
  /\ At(r, "poll", o)
  /\ \/ operation[o].ws # {} /\ AnswerWorkspace(r, operation[o].ws)
     \/ operation[o].ws = {} /\ operation[o].status = "FAILED" /\ Answer(r, "failed")
  /\ UNCHANGED <<operation, workspaces, workers, faults>>

\* Fault: the deadline is forgotten once the request that leads is gone.
PollTimeoutIfServed(r, o) ==
  /\ At(r, "poll", o)
  /\ \E q \in Request : q # r /\ o \in req[q].op /\ req[q].reply = "none"
  /\ Answer(r, "in_progress")
  /\ UNCHANGED <<operation, workspaces, workers, faults>>

PollTimeout(r, o) ==
  /\ At(r, "poll", o)
  /\ Answer(r, "in_progress")
  /\ UNCHANGED <<operation, workspaces, workers, faults>>

-----------------------------------------------------------------------------
(* The launch itself.                                                      *)

Active(u) == {w \in Workspace : u \in owner[w] /\ status[w] \in ActiveStatus}

\* Fault: the refusal is thrown without marking the operation.
CheckQuotaUnmarked(r, o) ==
  /\ At(r, "quota", o)
  /\ IF Cardinality(Active(UserOf(o))) < MaxActive THEN Goto(r, "find") ELSE Answer(r, "failed")
  /\ UNCHANGED <<operation, workspaces, workers, faults>>

\* A count: what other requests are about to launch is not in it.
CheckQuota(r, o) ==
  /\ At(r, "quota", o)
  /\ Goto(r, IF Cardinality(Active(UserOf(o))) < MaxActive THEN "find" ELSE "fail")
  /\ UNCHANGED <<operation, workspaces, workers, faults>>

WarmAvailable == {w \in Warm : status[w] = "WARM_AVAILABLE" /\ owner[w] = {}}

FindWarmWorkspace(r, o) ==
  /\ At(r, "find", o)
  /\ \/ \E w \in WarmAvailable : req' = [req EXCEPT ![r] = [@ EXCEPT !.pc = "read", !.ws = {w}]]
     \/ WarmAvailable = {} /\ Goto(r, "cold")
  /\ UNCHANGED <<operation, workspaces, workers, faults>>

\* The transaction reads the row again, and looks at its user only.
ReadWarmWorkspace(r, o) ==
  /\ At(r, "read", o)
  /\ \E w \in req[r].ws : Goto(r, IF owner[w] = {} THEN "assign" ELSE "fail")
  /\ UNCHANGED <<operation, workspaces, workers, faults>>

AssignWarmWorkspace(r, o) ==
  /\ At(r, "assign", o)
  /\ \E w \in req[r].ws :
       /\ status' = [status EXCEPT ![w] = "ASSIGNING"]
       /\ owner' = [owner EXCEPT ![w] = {UserOf(o)}]
       /\ launchedBy' = [launchedBy EXCEPT ![w] = {o}]
  /\ Goto(r, "ports")
  /\ UNCHANGED <<operation, session, workers, faults>>

\* The gateway may refuse, or not answer: the workspace stays ASSIGNING.
AllocateGatewayPorts(r, o) ==
  /\ At(r, "ports", o)
  /\ \/ Goto(r, "session") /\ UNCHANGED faults
     \/ faults < MaxFaults /\ faults' = faults + 1 /\ Goto(r, "fail")
  /\ UNCHANGED <<operation, workspaces, workers>>

SetRunning(w) == status' = [status EXCEPT ![w] = "RUNNING_ASSIGNED"]

\* Session and status in one transaction; with a RUNNING session neither.
StartUsageSession(r, o) ==
  /\ At(r, "session", o)
  /\ \E w \in req[r].ws :
       IF session[w] = {}
       THEN /\ session' = [session EXCEPT ![w] = {UserOf(o)}]
            /\ SetRunning(w)
            /\ Goto(r, "complete")
       ELSE Goto(r, "running") /\ UNCHANGED <<session, status>>
  /\ UNCHANGED <<operation, owner, launchedBy, workers, faults>>

SessionExists(r, o) ==
  /\ At(r, "running", o)
  /\ \E w \in req[r].ws : SetRunning(w)
  /\ Goto(r, "complete")
  /\ UNCHANGED <<operation, owner, launchedBy, session, workers, faults>>

\* The ids of rows are fresh; Cold bounds how many there are.
Unused == {w \in Cold : status[w] = "none"}
FreshId == IF Unused = {} THEN {} ELSE {CHOOSE w \in Unused : TRUE}

CreateColdWorkspace(r, o) ==
  /\ At(r, "cold", o)
  /\ \E w \in FreshId :
       /\ status' = [status EXCEPT ![w] = "CREATING"]
       /\ owner' = [owner EXCEPT ![w] = {UserOf(o)}]
       /\ launchedBy' = [launchedBy EXCEPT ![w] = {o}]
       /\ req' = [req EXCEPT ![r] = [@ EXCEPT !.pc = "complete", !.ws = {w}]]
  /\ UNCHANGED <<operation, session, workers, faults>>

Completed(o, ws) == operation' = [operation EXCEPT ![o] = [@ EXCEPT !.status = "COMPLETED", !.ws = ws]]

\* Fault: the workspace is recorded for whoever asks.
CompleteOperationAnyway(r, o) ==
  /\ At(r, "complete", o)
  /\ Completed(o, req[r].ws)
  /\ Goto(r, "answer")
  /\ UNCHANGED <<workspaces, workers, faults>>

\* workspaceId is unique: a workspace assigned twice completes one operation.
CompleteOperation(r, o) ==
  /\ At(r, "complete", o)
  /\ IF \A other \in Operation \ {o} : operation[other].ws # req[r].ws
     THEN Completed(o, req[r].ws) /\ Goto(r, "answer")
     ELSE Goto(r, "fail") /\ UNCHANGED operation
  /\ UNCHANGED <<workspaces, workers, faults>>

\* The update throws, before or after its effect: the launch has failed.
RecordingCutOff(r, o) ==
  /\ At(r, "complete", o)
  /\ faults < MaxFaults
  /\ faults' = faults + 1
  /\ \/ UNCHANGED operation
     \/ /\ \A other \in Operation \ {o} : operation[other].ws # req[r].ws
        /\ Completed(o, req[r].ws)
  /\ Goto(r, "fail")
  /\ UNCHANGED <<workspaces, workers>>

AnswerLaunch(r, o) ==
  /\ At(r, "answer", o)
  /\ Answer(r, "launched")
  /\ UNCHANGED <<operation, workspaces, workers, faults>>

\* An error of the update itself is ignored: the row stays PROCESSING.
FailOperation(r, o) ==
  /\ At(r, "fail", o)
  /\ \/ operation' = [operation EXCEPT ![o].status = "FAILED"] /\ UNCHANGED faults
     \/ faults < MaxFaults /\ faults' = faults + 1 /\ UNCHANGED operation
  /\ Answer(r, "failed")
  /\ UNCHANGED <<workspaces, workers>>

\* The API process dies with the request; nobody takes it up again.
RequestLost(r) ==
  /\ req[r].pc # "new"
  /\ req[r].reply = "none"
  /\ faults < MaxFaults
  /\ faults' = faults + 1
  /\ Answer(r, "lost")
  /\ UNCHANGED <<operation, workspaces, workers>>

Serve(r) ==
  \E o \in Operation :
    \/ Lookup(r, o)
    \/ CreateOperation(r, o)
    \/ Poll(r, o)
    \/ PollTimeout(r, o)
    \/ CheckQuota(r, o)
    \/ FindWarmWorkspace(r, o)
    \/ ReadWarmWorkspace(r, o)
    \/ AssignWarmWorkspace(r, o)
    \/ AllocateGatewayPorts(r, o)
    \/ StartUsageSession(r, o)
    \/ SessionExists(r, o)
    \/ CreateColdWorkspace(r, o)
    \/ CompleteOperation(r, o)
    \/ RecordingCutOff(r, o)
    \/ AnswerLaunch(r, o)
    \/ FailOperation(r, o)

-----------------------------------------------------------------------------
(* The worker, as far as it writes the workspaces launches read.           *)

\* provisionRunWorkspace: found, then claimed by its id.
RunFindsWarm(n) ==
  /\ run[n] = {}
  /\ \E w \in WarmAvailable : run' = [run EXCEPT ![n] = {w}]
  /\ UNCHANGED <<operation, workspaces, req, shrink, faults>>

RunClaimsWarm(n) ==
  /\ \E w \in run[n], u \in User :
       /\ SetRunning(w)
       /\ owner' = [owner EXCEPT ![w] = {u}]
  /\ run' = [run EXCEPT ![n] = {}]
  /\ UNCHANGED <<operation, launchedBy, session, req, shrink, faults>>

ShrinkTo(w, s) == shrink' = [shrink EXCEPT ![w] = s]

\* The list of extras is read once and worked off.
ListExtra(w) ==
  /\ shrink[w] = "none"
  /\ w \in WarmAvailable
  /\ ShrinkTo(w, "listed")
  /\ UNCHANGED <<operation, workspaces, req, run, faults>>

MarkExtra(w) ==
  /\ shrink[w] = "listed"
  /\ ShrinkTo(w, "marked")
  /\ status' = [status EXCEPT ![w] = "TERMINATING"]
  /\ UNCHANGED <<operation, owner, launchedBy, session, req, run, faults>>

\* Once its VM and ports are gone; UsageBilling has the steps of the closing.
EndExtra(w) ==
  /\ shrink[w] = "marked"
  /\ ShrinkTo(w, "none")
  /\ status' = [status EXCEPT ![w] = "TERMINATED"]
  /\ session' = [session EXCEPT ![w] = {}]
  /\ UNCHANGED <<operation, owner, launchedBy, req, run, faults>>

\* The user's terminate and all that follows; WorkspaceCleanup has the steps.
EndWorkspace(w) ==
  /\ status[w] \in ActiveStatus
  /\ status' = [status EXCEPT ![w] = "TERMINATED"]
  /\ session' = [session EXCEPT ![w] = {}]
  /\ UNCHANGED <<operation, owner, launchedBy, req, workers, faults>>

Next ==
  \/ \E r \in Request : Arrive(r) \/ Serve(r) \/ RequestLost(r)
  \/ \E n \in Run : RunFindsWarm(n) \/ RunClaimsWarm(n)
  \/ \E w \in Warm : ListExtra(w) \/ MarkExtra(w) \/ EndExtra(w)
  \/ \E w \in Workspace : EndWorkspace(w)

Spec == Init /\ [][Next]_vars

\* A request that is served goes on until it is answered or lost: its awaits
\* return, the gateway's by a timeout of 10 s.  Nothing else has to happen.
FairSpec == Spec /\ \A r \in Request : WF_vars(Serve(r))

-----------------------------------------------------------------------------
(* Properties.                                                             *)

\* The request that has opened the operation, answered or not.
Leads(r, o) ==
  /\ o \in req[r].op
  /\ req[r].pc \notin {"new", "lookup", "create", "reread", "poll"}

\* no-go-remediation.test.ts: however often and however concurrently a key is
\* sent, and whichever of its requests die, it launches one workspace.
LaunchedOnce ==
  \A v, w \in Workspace : launchedBy[v] \cap launchedBy[w] # {} => v = w

\* A client is not left waiting: not by an operation that stays PROCESSING
\* because its request was lost, nor by one whose failure was not recorded.
EveryRequestAnswered ==
  \A r \in Request : req[r].pc = "lookup" ~> req[r].reply # "none"

\* An operation that stays PROCESSING is one whose request is at work, was
\* lost, or failed without being able to record it: no refusal or error on the
\* way leaves it undecided, and those who poll it wait for somebody.
ProcessingIsLed ==
  \A o \in Operation : operation[o].status = "PROCESSING" =>
    \E r \in Request : Leads(r, o) /\ (req[r].reply \in {"none", "lost"} \/ req[r].pc = "fail")

\* An operation that has recorded no workspace has failed once its request has,
\* recorded or not.
OutcomeView ==
  [o \in Operation |->
     [phase   |-> IF operation[o].ws # {} THEN "launched"
                  ELSE IF \E r \in Request : req[r].pc = "fail" /\ o \in req[r].op THEN "failed"
                  ELSE IF operation[o].status # "none" THEN "open"
                  ELSE "none",
      payload |-> operation[o].requestHash,
      ws      |-> operation[o].ws]]

Replied(a) == {r \in Request : req[r].reply = a}
LaunchedView ==
  UNION {{r} \X req[r].op \X req[r].hash \X req[r].ws : r \in Replied("launched")}
RefusedView == UNION {{r} \X req[r].op : r \in Replied("failed")}

Contract == INSTANCE LaunchContract
              WITH outcome <- OutcomeView, launched <- LaunchedView, refused <- RefusedView

\* Refinement: requests are answered with the one, final outcome of their
\* operation, all but one whose recording was cut off, and no two operations
\* have the same workspace.
ImplementsContract == Contract!ContractSpec

\* INTEGRATION_TEST_PLAN.md: "Each warm workspace assigned to exactly one user";
\* concurrency.test.ts expects one of three concurrent assignments to succeed.
AssignedToOneUser ==
  [][\A w \in Workspace : owner[w] # {} => owner'[w] = owner[w]]_vars
=============================================================================
