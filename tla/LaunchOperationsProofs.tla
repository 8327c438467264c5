----------------------- MODULE LaunchOperationsProofs -----------------------
(* Proofs about LaunchOperations, for every set of users, keys, payloads,   *)
(* workspaces, requests and runs, any quota and any number of faults.       *)
EXTENDS LaunchOperations, TLAPS

-----------------------------------------------------------------------------
(* Types.                                                                   *)

\* The three ways in which a step writes the record of a request: it moves on,
LEMMA GotoTypes ==
  ASSUME TypeOK, NEW r \in Request, NEW pc \in PC, Goto(r, pc)
  PROVE  req' \in [Request -> RequestState]
BY DEF TypeOK, Goto, RequestState

\* It is answered,
LEMMA AnswerTypes ==
  ASSUME TypeOK, NEW r \in Request, NEW a \in Reply, Answer(r, a)
  PROVE  req' \in [Request -> RequestState]
BY DEF TypeOK, Answer, RequestState

\* or answered with a workspace.
LEMMA WorkspaceTypes ==
  ASSUME TypeOK, NEW r \in Request, NEW ws \in AtMostOne(Workspace), AnswerWorkspace(r, ws)
  PROVE  req' \in [Request -> RequestState]
<1>1. [req[r] EXCEPT !.reply = "launched", !.ws = ws] \in RequestState
  BY DEF TypeOK, RequestState, Reply
<1> QED
  BY <1>1 DEF TypeOK, AnswerWorkspace

\* What an operation is, and that its user is a user.
LEMMA OperationTypes ==
  ASSUME TypeOK, NEW o \in Operation
  PROVE  /\ UserOf(o) \in User
         /\ operation[o] \in Row
         /\ operation[o].ws \in AtMostOne(Workspace)
         /\ {o} \in AtMostOne(Operation)
         /\ {UserOf(o)} \in AtMostOne(User)
         /\ {} \in AtMostOne(User)
BY DEF TypeOK, Operation, UserOf, Row, AtMostOne

\* A request holds workspaces.
LEMMA WarmTypes == ASSUME TypeOK, NEW r \in Request PROVE req[r].ws \subseteq Workspace
BY DEF TypeOK, RequestState, AtMostOne

\* The id given to a cold workspace is one of the rows not there yet.
LEMMA FreshIdIsUnused == \A w \in FreshId : w \in Cold /\ status[w] = "none"
<1>1. Unused # {} => (CHOOSE w \in Unused : TRUE) \in Unused
  OBVIOUS
<1> QED
  BY <1>1 DEF FreshId, Unused

\* Steps of a request up to the launch, and of those that wait.
LEMMA TypeWait ==
  ASSUME TypeOK, NEW r \in Request, NEW o \in Operation,
         Lookup(r, o) \/ CreateOperation(r, o) \/ Poll(r, o) \/ PollTimeout(r, o)
  PROVE  TypeOK'
<1>1. CASE Lookup(r, o) \/ Poll(r, o) \/ PollTimeout(r, o)
  <2>1. UNCHANGED <<operation, workspaces, workers, faults>>
    BY <1>1 DEF Lookup, Poll, PollTimeout
  <2>2. \/ \E pc \in PC : Goto(r, pc)
        \/ \E a \in Reply : Answer(r, a)
        \/ AnswerWorkspace(r, operation[o].ws)
    <3>1. CASE Poll(r, o) \/ PollTimeout(r, o)
      BY <3>1 DEF Poll, PollTimeout, Reply
    <3>2. CASE Lookup(r, o)
      <4>1. \/ Goto(r, "create") \/ Answer(r, "conflict") \/ AnswerWorkspace(r, operation[o].ws)
            \/ Answer(r, "failed") \/ Goto(r, "poll")
        BY <3>2, Zenon DEF Lookup
      <4> QED
        BY <4>1 DEF PC, Reply
    <3> QED
      BY <1>1, <3>1, <3>2
  <2>3. req' \in [Request -> RequestState]
    BY <2>2, GotoTypes, AnswerTypes, WorkspaceTypes, OperationTypes
  <2> QED
    BY <2>1, <2>3 DEF TypeOK, workspaces, workers
<1>2. CASE CreateOperation(r, o)
  <2>1. req' \in [Request -> RequestState]
    BY <1>2, GotoTypes DEF CreateOperation, PC
  <2>2. [NoRow EXCEPT !.status = "PROCESSING", !.requestHash = req[r].hash] \in Row
    BY DEF TypeOK, NoRow, Row, RequestState, AtMostOne
  <2>3. operation' \in [Operation -> Row]
    BY <1>2, <2>2 DEF TypeOK, CreateOperation
  <2> QED
    BY <1>2, <2>1, <2>3 DEF TypeOK, CreateOperation, workspaces, workers
<1> QED
  BY <1>1, <1>2

\* Steps of the request that leads its operation.
LEMMA TypeLead ==
  ASSUME TypeOK, NEW r \in Request, NEW o \in Operation,
         \/ CheckQuota(r, o) \/ FindWarmWorkspace(r, o) \/ ReadWarmWorkspace(r, o)
         \/ AssignWarmWorkspace(r, o) \/ AllocateGatewayPorts(r, o)
         \/ StartUsageSession(r, o) \/ SessionExists(r, o) \/ CreateColdWorkspace(r, o)
  PROVE  TypeOK'
<1>1. CASE CheckQuota(r, o) \/ ReadWarmWorkspace(r, o)
  <2>1. UNCHANGED <<operation, workspaces, workers, faults>>
    BY <1>1 DEF CheckQuota, ReadWarmWorkspace
  <2>2. \E pc \in PC : Goto(r, pc)
    BY <1>1 DEF CheckQuota, ReadWarmWorkspace, PC
  <2> QED
    BY <2>1, <2>2, GotoTypes DEF TypeOK, workspaces, workers
<1>2. CASE FindWarmWorkspace(r, o)
  <2>1. CASE \E w \in WarmAvailable : req' = [req EXCEPT ![r] = [@ EXCEPT !.pc = "read", !.ws = {w}]]
    <3>1. PICK w \in WarmAvailable : req' = [req EXCEPT ![r] = [@ EXCEPT !.pc = "read", !.ws = {w}]]
      BY <2>1
    <3>2. w \in Workspace
      BY DEF WarmAvailable, Workspace
    <3>3. [req[r] EXCEPT !.pc = "read", !.ws = {w}] \in RequestState
      BY <3>2 DEF TypeOK, RequestState, PC, AtMostOne
    <3>4. req' \in [Request -> RequestState]
      BY <3>1, <3>3 DEF TypeOK
    <3> QED
      BY <1>2, <3>4 DEF TypeOK, FindWarmWorkspace, workspaces, workers
  <2>2. CASE Goto(r, "cold")
    BY <1>2, <2>2, GotoTypes DEF TypeOK, FindWarmWorkspace, workspaces, workers, PC
  <2> QED
    BY <1>2, <2>1, <2>2 DEF FindWarmWorkspace
<1>3. CASE AssignWarmWorkspace(r, o)
  <2>1. req' \in [Request -> RequestState]
    BY <1>3, GotoTypes DEF AssignWarmWorkspace, PC
  <2>2. PICK w \in Workspace : /\ status' = [status EXCEPT ![w] = "ASSIGNING"]
                               /\ owner' = [owner EXCEPT ![w] = {UserOf(o)}]
                               /\ launchedBy' = [launchedBy EXCEPT ![w] = {o}]
    BY <1>3, WarmTypes DEF AssignWarmWorkspace
  <2>3. /\ status' \in [Workspace -> Status]
        /\ owner' \in [Workspace -> AtMostOne(User)]
        /\ launchedBy' \in [Workspace -> AtMostOne(Operation)]
    BY <2>2, OperationTypes DEF TypeOK, Status
  <2> QED
    BY <1>3, <2>1, <2>3 DEF TypeOK, AssignWarmWorkspace, workers
<1>4. CASE AllocateGatewayPorts(r, o)
  <2>1. req' \in [Request -> RequestState]
    BY <1>4, GotoTypes DEF AllocateGatewayPorts, PC
  <2>2. faults' \in 0..MaxFaults
    BY <1>4, LaunchAssumption DEF AllocateGatewayPorts, TypeOK
  <2> QED
    BY <1>4, <2>1, <2>2 DEF TypeOK, AllocateGatewayPorts, workspaces, workers
<1>5. CASE StartUsageSession(r, o)
  <2>1. PICK w \in Workspace :
          \/ /\ session' = [session EXCEPT ![w] = {UserOf(o)}]
             /\ status' = [status EXCEPT ![w] = "RUNNING_ASSIGNED"]
             /\ Goto(r, "complete")
          \/ Goto(r, "running") /\ UNCHANGED <<session, status>>
    BY <1>5, WarmTypes DEF StartUsageSession, SetRunning
  <2>2. req' \in [Request -> RequestState]
    BY <2>1, GotoTypes DEF PC
  <2>3. session' \in [Workspace -> AtMostOne(User)] /\ status' \in [Workspace -> Status]
    BY <2>1, OperationTypes DEF TypeOK, Status
  <2> QED
    BY <1>5, <2>2, <2>3 DEF TypeOK, StartUsageSession, workers
<1>6. CASE SessionExists(r, o)
  <2>1. req' \in [Request -> RequestState]
    BY <1>6, GotoTypes DEF SessionExists, PC
  <2>2. status' \in [Workspace -> Status]
    BY <1>6, WarmTypes DEF SessionExists, SetRunning, TypeOK, Status
  <2> QED
    BY <1>6, <2>1, <2>2 DEF TypeOK, SessionExists, workers
<1>7. CASE CreateColdWorkspace(r, o)
  <2>1. PICK w \in FreshId :
          /\ status' = [status EXCEPT ![w] = "CREATING"]
          /\ owner' = [owner EXCEPT ![w] = {UserOf(o)}]
          /\ launchedBy' = [launchedBy EXCEPT ![w] = {o}]
          /\ req' = [req EXCEPT ![r] = [@ EXCEPT !.pc = "complete", !.ws = {w}]]
    BY <1>7 DEF CreateColdWorkspace
  <2>2. w \in Workspace
    BY <2>1, FreshIdIsUnused DEF Workspace
  <2>3. [req[r] EXCEPT !.pc = "complete", !.ws = {w}] \in RequestState
    BY <2>2 DEF TypeOK, RequestState, PC, AtMostOne
  <2>4. req' \in [Request -> RequestState]
    BY <2>1, <2>3 DEF TypeOK
  <2>5. /\ status' \in [Workspace -> Status]
        /\ owner' \in [Workspace -> AtMostOne(User)]
        /\ launchedBy' \in [Workspace -> AtMostOne(Operation)]
    BY <2>1, <2>2, OperationTypes DEF TypeOK, Status
  <2> QED
    BY <1>7, <2>4, <2>5 DEF TypeOK, CreateColdWorkspace, workers
<1> QED
  BY <1>1, <1>2, <1>3, <1>4, <1>5, <1>6, <1>7

\* Steps that decide an operation, and the loss of a request.
LEMMA TypeDecide ==
  ASSUME TypeOK, NEW r \in Request, NEW o \in Operation,
         \/ CompleteOperation(r, o) \/ RecordingCutOff(r, o) \/ AnswerLaunch(r, o)
         \/ FailOperation(r, o) \/ Arrive(r) \/ RequestLost(r)
  PROVE  TypeOK'
<1>1. CASE CompleteOperation(r, o) \/ RecordingCutOff(r, o)
  <2>1. req' \in [Request -> RequestState]
    BY <1>1, GotoTypes DEF CompleteOperation, RecordingCutOff, PC
  <2>2. [operation[o] EXCEPT !.status = "COMPLETED", !.ws = req[r].ws] \in Row
    BY OperationTypes DEF TypeOK, Row, RequestState
  <2>3. operation' \in [Operation -> Row]
    BY <1>1, <2>2 DEF CompleteOperation, RecordingCutOff, Completed, TypeOK
  <2>4. faults' \in 0..MaxFaults
    BY <1>1, LaunchAssumption DEF CompleteOperation, RecordingCutOff, TypeOK
  <2> QED
    BY <1>1, <2>1, <2>3, <2>4 DEF TypeOK, CompleteOperation, RecordingCutOff, workspaces, workers
<1>2. CASE AnswerLaunch(r, o)
  BY <1>2, AnswerTypes DEF TypeOK, AnswerLaunch, Reply, workspaces, workers
<1>3. CASE FailOperation(r, o)
  <2>1. req' \in [Request -> RequestState]
    BY <1>3, AnswerTypes DEF FailOperation, Reply
  <2>2. [operation[o] EXCEPT !.status = "FAILED"] \in Row
    BY OperationTypes DEF Row
  <2>3. operation' \in [Operation -> Row] /\ faults' \in 0..MaxFaults
    BY <1>3, <2>2, LaunchAssumption DEF FailOperation, TypeOK
  <2> QED
    BY <1>3, <2>1, <2>3 DEF TypeOK, FailOperation, workspaces, workers
<1>4. CASE Arrive(r)
  <2>1. PICK n \in Operation, p \in Payload :
          req' = [req EXCEPT ![r] = [@ EXCEPT !.pc = "lookup", !.op = {n}, !.hash = {p}]]
    BY <1>4 DEF Arrive
  <2>2. [req[r] EXCEPT !.pc = "lookup", !.op = {n}, !.hash = {p}] \in RequestState
    BY DEF TypeOK, RequestState, PC, AtMostOne
  <2>3. req' \in [Request -> RequestState]
    BY <2>1, <2>2 DEF TypeOK
  <2> QED
    BY <1>4, <2>3 DEF TypeOK, Arrive, workspaces, workers
<1>5. CASE RequestLost(r)
  <2>1. req' \in [Request -> RequestState]
    BY <1>5, AnswerTypes DEF RequestLost, Reply
  <2>2. faults' \in 0..MaxFaults
    BY <1>5, LaunchAssumption DEF RequestLost, TypeOK
  <2> QED
    BY <1>5, <2>1, <2>2 DEF TypeOK, RequestLost, workspaces, workers
<1> QED
  BY <1>1, <1>2, <1>3, <1>4, <1>5

-----------------------------------------------------------------------------
(* The worker and the user's terminate write workspaces only.               *)

Worker ==
  \/ \E n \in Run : RunFindsWarm(n) \/ RunClaimsWarm(n)
  \/ \E w \in Warm : ListExtra(w) \/ MarkExtra(w) \/ EndExtra(w)
  \/ \E w \in Workspace : EndWorkspace(w)

\* The worker's and the user's steps keep the types.
LEMMA TypeWorker == ASSUME TypeOK, Worker PROVE TypeOK'
<1>1. ASSUME NEW n \in Run, RunFindsWarm(n) PROVE TypeOK'
  <2>1. run' \in [Run -> AtMostOne(Warm)]
    BY <1>1 DEF RunFindsWarm, WarmAvailable, TypeOK, AtMostOne
  <2> QED
    BY <1>1, <2>1 DEF RunFindsWarm, TypeOK, workspaces
<1>2. ASSUME NEW n \in Run, RunClaimsWarm(n) PROVE TypeOK'
  <2>1. PICK w \in run[n], u \in User : /\ status' = [status EXCEPT ![w] = "RUNNING_ASSIGNED"]
                                        /\ owner' = [owner EXCEPT ![w] = {u}]
    BY <1>2 DEF RunClaimsWarm, SetRunning
  <2>2. run' \in [Run -> AtMostOne(Warm)]
    BY <1>2 DEF RunClaimsWarm, TypeOK, AtMostOne
  <2>3. owner' \in [Workspace -> AtMostOne(User)] /\ status' \in [Workspace -> Status]
    BY <2>1 DEF TypeOK, AtMostOne, Status
  <2> QED
    BY <1>2, <2>2, <2>3 DEF RunClaimsWarm, TypeOK
<1>3. ASSUME NEW w \in Warm, ListExtra(w) \/ MarkExtra(w) \/ EndExtra(w) PROVE TypeOK'
  <2>1. w \in Workspace /\ {} \in AtMostOne(User)
    BY DEF Workspace, AtMostOne
  <2>2. shrink' \in [Warm -> {"none", "listed", "marked"}]
    BY <1>3 DEF ListExtra, MarkExtra, EndExtra, ShrinkTo, TypeOK
  <2>3. status' \in [Workspace -> Status] /\ session' \in [Workspace -> AtMostOne(User)]
    BY <1>3, <2>1 DEF ListExtra, MarkExtra, EndExtra, TypeOK, Status, workspaces
  <2> QED
    BY <1>3, <2>2, <2>3 DEF ListExtra, MarkExtra, EndExtra, TypeOK, workspaces
<1>4. ASSUME NEW w \in Workspace, EndWorkspace(w) PROVE TypeOK'
  <2>1. {} \in AtMostOne(User)
    BY DEF AtMostOne
  <2>2. status' \in [Workspace -> Status] /\ session' \in [Workspace -> AtMostOne(User)]
    BY <1>4, <2>1 DEF EndWorkspace, TypeOK, Status
  <2> QED
    BY <1>4, <2>2 DEF EndWorkspace, TypeOK, workers
<1> QED
  BY <1>1, <1>2, <1>3, <1>4 DEF Worker

\* The steps, as the proofs treat them.
LEMMA StepKinds ==
  ASSUME [Next]_vars
  PROVE  \/ \E r \in Request : Arrive(r) \/ Serve(r) \/ RequestLost(r)
         \/ Worker
         \/ UNCHANGED vars
BY DEF Next, Worker

\* Every step keeps the types.
LEMMA TypeKept == TypeOK /\ [Next]_vars => TypeOK'
<1> SUFFICES ASSUME TypeOK, [Next]_vars PROVE TypeOK'
  OBVIOUS
<1>1. ASSUME NEW r \in Request, Serve(r) PROVE TypeOK'
  <2>1. PICK o \in Operation :
          \/ Lookup(r, o) \/ CreateOperation(r, o) \/ Poll(r, o) \/ PollTimeout(r, o)
          \/ CheckQuota(r, o) \/ FindWarmWorkspace(r, o) \/ ReadWarmWorkspace(r, o)
          \/ AssignWarmWorkspace(r, o) \/ AllocateGatewayPorts(r, o)
          \/ StartUsageSession(r, o) \/ SessionExists(r, o) \/ CreateColdWorkspace(r, o)
          \/ CompleteOperation(r, o) \/ RecordingCutOff(r, o) \/ AnswerLaunch(r, o)
          \/ FailOperation(r, o)
    BY <1>1 DEF Serve
  <2> QED
    BY <2>1, TypeWait, TypeLead, TypeDecide
<1>2. ASSUME NEW r \in Request, Arrive(r) PROVE TypeOK'
  <2>1. PICK o \in Operation : TRUE
    BY <1>2 DEF Arrive
  <2> QED
    BY <1>2, <2>1, TypeDecide
<1>3. ASSUME NEW r \in Request, RequestLost(r) PROVE TypeOK'
  <2>1. CASE \E o \in Operation : TRUE
    BY <1>3, <2>1, TypeDecide
  <2>2. CASE Operation = {}
    <3>1. req' \in [Request -> RequestState]
      BY <1>3, AnswerTypes DEF RequestLost, Reply
    <3>2. faults' \in 0..MaxFaults
      BY <1>3, LaunchAssumption DEF RequestLost, TypeOK
    <3> QED
      BY <1>3, <3>1, <3>2 DEF TypeOK, RequestLost, workspaces, workers
  <2> QED
    BY <2>1, <2>2
<1>4. CASE UNCHANGED vars
  BY <1>4 DEF TypeOK, vars, workspaces, workers
<1> QED
  BY <1>1, <1>2, <1>3, <1>4, StepKinds, TypeWorker

\* The initial tables and requests are well typed.
LEMMA TypeInitially == Init => TypeOK
<1>1. NewRequest \in RequestState /\ NoRow \in Row
  BY DEF NewRequest, RequestState, NoRow, Row, PC, Reply, AtMostOne
<1>2. {} \in AtMostOne(User) /\ {} \in AtMostOne(Operation) /\ {} \in AtMostOne(Warm)
  BY DEF AtMostOne
<1> QED
  BY <1>1, <1>2, LaunchAssumption DEF Init, TypeOK, Status

\* Every reachable state is well typed: no step, of a request, of the worker
\* or of a failure, writes what the tables do not admit.
THEOREM TypeCorrect == Spec => []TypeOK
BY TypeInitially, TypeKept, PTL DEF Spec

-----------------------------------------------------------------------------
(* The invariant: what an operation and the request that leads it know of   *)
(* each other.  The unique constraint makes the leader the only one; all    *)
(* that is recorded, launched or refused goes back to it.                   *)

Waits    == {"lookup", "create", "reread", "poll"}
LeadPC   == PC \ (Waits \cup {"new"})
LaunchPC == {"ports", "session", "running", "complete", "answer", "fail"}
HoldsPC  == {"read", "assign", "ports", "session", "running", "complete", "answer"}

\* One leader, of an operation that is there.
OneLeader ==
  \A o \in Operation : \A r, q \in Request : Leads(r, o) /\ Leads(q, o) => r = q
LedIsOpen ==
  \A o \in Operation, r \in Request : Leads(r, o) => operation[o].status # "none"

\* Whoever leads the operation, or waits for it, asks for its payload.
SamePayload ==
  \A o \in Operation, r \in Request :
    o \in req[r].op /\ (Leads(r, o) \/ req[r].pc = "poll") =>
      operation[o].requestHash = req[r].hash
HasPayload == \A r \in Request : req[r].pc # "new" => req[r].hash # {}

\* The row says what the leader has come to; of one that has failed it may
\* name a workspace, if the recording was cut off.
NothingYet ==
  \A o \in Operation : operation[o].status = "none" =>
    operation[o].ws = {} /\ operation[o].requestHash = {}
Recorded ==
  \A o \in Operation, r \in Request : Leads(r, o) =>
    /\ req[r].pc \notin {"answer", "fail"} => operation[o].ws = {}
    /\ req[r].pc = "answer" => operation[o].ws = req[r].ws /\ operation[o].status = "COMPLETED"
FailedIsLed ==
  \A o \in Operation : operation[o].status = "FAILED" =>
    \E r \in Request : Leads(r, o) /\ req[r].pc = "fail"

\* A workspace launched by an operation is the one its leader holds.
HoldsWorkspace == \A r \in Request : req[r].pc \in HoldsPC => req[r].ws # {}
LaunchedByLeader ==
  \A o \in Operation, w \in Workspace : o \in launchedBy[w] =>
    \E r \in Request : Leads(r, o) /\ req[r].pc \in LaunchPC /\ req[r].ws = {w}

Inv == /\ OneLeader /\ LedIsOpen /\ SamePayload /\ HasPayload /\ NothingYet
       /\ Recorded /\ FailedIsLed /\ ProcessingIsLed /\ HoldsWorkspace /\ LaunchedByLeader
IInv == TypeOK /\ Inv

\* Leading depends on the pc and the operation of a request, nothing else.
LEMMA LeadsByPC ==
  ASSUME TypeOK, NEW r \in Request, NEW o \in Operation
  PROVE  Leads(r, o) <=> o \in req[r].op /\ req[r].pc \in LeadPC
BY DEF TypeOK, RequestState, Leads, LeadPC, Waits

\* A request is about one operation.
LEMMA AboutOne ==
  ASSUME TypeOK, NEW r \in Request, NEW o \in Operation, o \in req[r].op
  PROVE  req[r].op = {o}
BY DEF TypeOK, RequestState, AtMostOne

\* The leader moves on, and may just have launched a workspace.
LEMMA LeaderMoves ==
  ASSUME IInv, TypeOK', NEW r \in Request, NEW o \in Operation, Leads(r, o),
         req[r].pc \notin {"answer", "fail"}, req[r].reply = "none",
         NEW x, req' = [req EXCEPT ![r] = x], x.op = req[r].op, x.hash = req[r].hash,
         x.pc \in LeadPC \ {"answer"}, x.reply = "none",
         x.pc \in HoldsPC => x.ws # {}, operation' = operation,
         \/ /\ launchedBy' = launchedBy
            /\ req[r].pc \in LaunchPC => x.pc \in LaunchPC /\ x.ws = req[r].ws
         \/ \E w \in Workspace : /\ req[r].pc \notin LaunchPC /\ x.pc \in LaunchPC
                                 /\ x.ws = {w}
                                 /\ launchedBy' = [launchedBy EXCEPT ![w] = {o}]
  PROVE  Inv'
<1> USE DEF IInv
<1>1. req'[r] = x /\ \A q \in Request \ {r} : req'[q] = req[q]
  BY DEF TypeOK
<1>2. req[r].op = {o}
  BY AboutOne DEF Leads
<1>3. \A q \in Request, n \in Operation : Leads(q, n)' <=> Leads(q, n)
  BY <1>1, <1>2 DEF Leads, LeadPC, Waits
<1>4. OneLeader' /\ LedIsOpen' /\ NothingYet'
  BY <1>3 DEF Inv, OneLeader, LedIsOpen, NothingYet
<1>5. SamePayload' /\ HasPayload' /\ HoldsWorkspace'
  BY <1>1, <1>3 DEF Inv, SamePayload, HasPayload, HoldsWorkspace, LeadPC, Waits, Leads
<1>6. Recorded'
  BY <1>1, <1>3 DEF Inv, Recorded
<1>7. FailedIsLed'
  BY <1>1, <1>3 DEF Inv, FailedIsLed
<1>8. ProcessingIsLed'
  BY <1>1, <1>3 DEF Inv, ProcessingIsLed
<1>9. LaunchedByLeader'
  <2> SUFFICES ASSUME NEW n \in Operation, NEW v \in Workspace, n \in launchedBy'[v]
               PROVE  \E q \in Request : Leads(q, n)' /\ req'[q].pc \in LaunchPC /\ req'[q].ws = {v}
    BY DEF LaunchedByLeader
  <2>1. CASE n \in launchedBy[v]
    <3>1. PICK q \in Request : Leads(q, n) /\ req[q].pc \in LaunchPC /\ req[q].ws = {v}
      BY <2>1 DEF Inv, LaunchedByLeader
    <3>2. CASE q # r
      BY <1>1, <1>3, <3>1, <3>2
    <3>3. CASE q = r
      BY <1>1, <1>3, <3>1, <3>3
    <3> QED
      BY <3>2, <3>3
  <2>2. CASE n \notin launchedBy[v]
    <3>1. x.pc \in LaunchPC /\ x.ws = {v} /\ n = o
      BY <2>2 DEF TypeOK
    <3> QED
      BY <1>1, <1>3, <3>1
  <2> QED
    BY <2>1, <2>2
<1> QED
  BY <1>4, <1>5, <1>6, <1>7, <1>8, <1>9 DEF Inv

\* A request that does not lead moves, or is answered.
LEMMA WaiterMoves ==
  ASSUME IInv, TypeOK', NEW r \in Request, req[r].pc \in Waits \cup {"new"},
         NEW x, req' = [req EXCEPT ![r] = x], x.pc \in Waits, x.hash # {},
         x.pc = "poll" => \A o \in Operation : o \in x.op => operation[o].requestHash = x.hash,
         operation' = operation, launchedBy' = launchedBy
  PROVE  Inv'
<1> USE DEF IInv
<1>1. req'[r] = x /\ \A q \in Request \ {r} : req'[q] = req[q]
  BY DEF TypeOK
<1>2. \A n \in Operation : ~Leads(r, n) /\ ~Leads(r, n)'
  BY <1>1 DEF Leads, Waits
<1>3. \A q \in Request \ {r}, n \in Operation : Leads(q, n)' <=> Leads(q, n)
  BY <1>1 DEF Leads
<1>4. OneLeader' /\ LedIsOpen' /\ NothingYet'
  BY <1>2, <1>3 DEF Inv, OneLeader, LedIsOpen, NothingYet
<1>5. SamePayload' /\ HasPayload' /\ HoldsWorkspace'
  BY <1>1, <1>2, <1>3 DEF Inv, SamePayload, HasPayload, HoldsWorkspace, HoldsPC, Waits
<1>6. Recorded'
  BY <1>1, <1>2, <1>3 DEF Inv, Recorded
<1>7. FailedIsLed' /\ ProcessingIsLed'
  BY <1>1, <1>2, <1>3 DEF Inv, FailedIsLed, ProcessingIsLed
<1>8. LaunchedByLeader'
  BY <1>1, <1>2, <1>3 DEF Inv, LaunchedByLeader
<1> QED
  BY <1>4, <1>5, <1>6, <1>7, <1>8 DEF Inv

\* A request is answered or lost where it stands.
LEMMA StandsAnswered ==
  ASSUME IInv, TypeOK', NEW r \in Request, NEW a,
         a = "lost" \/ req[r].pc = "answer",
         Answer(r, a), operation' = operation, launchedBy' = launchedBy
  PROVE  Inv'
<1> USE DEF IInv
<1>1. /\ req'[r].pc = req[r].pc /\ req'[r].op = req[r].op /\ req'[r].ws = req[r].ws
      /\ req'[r].hash = req[r].hash /\ req'[r].reply = a
      /\ \A q \in Request \ {r} : req'[q] = req[q]
  BY DEF TypeOK, Answer, RequestState
<1>2. \A q \in Request, n \in Operation : Leads(q, n)' <=> Leads(q, n)
  BY <1>1 DEF Leads
<1>3. OneLeader' /\ LedIsOpen' /\ NothingYet'
  BY <1>2 DEF Inv, OneLeader, LedIsOpen, NothingYet
<1>4. SamePayload' /\ HasPayload' /\ HoldsWorkspace'
  BY <1>1, <1>2 DEF Inv, SamePayload, HasPayload, HoldsWorkspace
<1>5. Recorded' /\ FailedIsLed'
  BY <1>1, <1>2 DEF Inv, Recorded, FailedIsLed
<1>6. ProcessingIsLed'
  BY <1>1, <1>2 DEF Inv, ProcessingIsLed, Recorded
<1>7. LaunchedByLeader'
  BY <1>1, <1>2 DEF Inv, LaunchedByLeader
<1> QED
  BY <1>3, <1>4, <1>5, <1>6, <1>7 DEF Inv

\* A step that writes neither operations nor requests, nor who launched what.
LEMMA NobodyMoves ==
  ASSUME Inv, UNCHANGED <<operation, launchedBy, req>>
  PROVE  Inv'
BY SMTT(30) DEF Inv, OneLeader, LedIsOpen, SamePayload, HasPayload, NothingYet, Recorded,
       FailedIsLed, ProcessingIsLed, HoldsWorkspace, LaunchedByLeader, Leads

\* The steps of a request that does not lead.
LEMMA InvWait ==
  ASSUME IInv, TypeOK', NEW r \in Request, NEW o \in Operation,
         \/ Lookup(r, o) \/ Poll(r, o) \/ PollTimeout(r, o)
         \/ CreateOperation(r, o) /\ operation[o].status # "none"
  PROVE  Inv'
<1> USE DEF IInv
<1>1. o \in req[r].op /\ req[r].op = {o} /\ req[r].pc \in Waits
  BY AboutOne DEF Lookup, Poll, PollTimeout, CreateOperation, At, Waits
<1>2. req[r] \in RequestState /\ req[r].hash # {}
  BY <1>1 DEF TypeOK, Inv, HasPayload, Waits
<1>3. operation' = operation /\ launchedBy' = launchedBy
  BY DEF Lookup, Poll, PollTimeout, CreateOperation, workspaces
<1>4. req[r].pc = "poll" => operation[o].requestHash = req[r].hash
  BY <1>1 DEF Inv, SamePayload
<1>5. \/ \E a : Answer(r, a)
      \/ \E ws : AnswerWorkspace(r, ws)
      \/ \E pc \in Waits : Goto(r, pc) /\ (pc = "poll" => operation[o].requestHash = req[r].hash)
  <2>1. CASE Poll(r, o) \/ PollTimeout(r, o)
    BY <2>1 DEF Poll, PollTimeout
  <2>2. CASE CreateOperation(r, o) /\ operation[o].status # "none"
    BY <2>2 DEF CreateOperation, Waits
  <2>3. CASE Lookup(r, o)
    <3>1. \/ Goto(r, "create") \/ Answer(r, "conflict") \/ AnswerWorkspace(r, operation[o].ws)
          \/ Answer(r, "failed")
          \/ Goto(r, "poll") /\ operation[o].requestHash = req[r].hash
      BY <2>3, Zenon DEF Lookup
    <3> QED
      BY <3>1 DEF Waits
  <2> QED
    BY <2>1, <2>2, <2>3
<1>6. CASE \E a : Answer(r, a)
  <2>1. PICK a : req' = [req EXCEPT ![r] = [req[r] EXCEPT !.reply = a]]
    BY <1>6, <1>2 DEF Answer, TypeOK
  <2> DEFINE x == [req[r] EXCEPT !.reply = a]
  <2>2. /\ x.pc = req[r].pc /\ x.hash = req[r].hash /\ x.op = req[r].op
        /\ req' = [req EXCEPT ![r] = x]
    BY <1>2, <2>1 DEF RequestState
  <2> HIDE DEF x
  <2>3. x.pc = "poll" => \A n \in Operation : n \in x.op => operation[n].requestHash = x.hash
    BY <1>1, <1>4, <2>2
  <2> QED
    BY <1>1, <1>2, <1>3, <2>2, <2>3, WaiterMoves
<1>7. CASE \E ws : AnswerWorkspace(r, ws)
  <2>1. PICK ws : req' = [req EXCEPT ![r] = [req[r] EXCEPT !.reply = "launched", !.ws = ws]]
    BY <1>7, <1>2 DEF AnswerWorkspace, TypeOK
  <2> DEFINE x == [req[r] EXCEPT !.reply = "launched", !.ws = ws]
  <2>2. /\ x.pc = req[r].pc /\ x.hash = req[r].hash /\ x.op = req[r].op
        /\ req' = [req EXCEPT ![r] = x]
    BY <1>2, <2>1 DEF RequestState
  <2> HIDE DEF x
  <2>3. x.pc = "poll" => \A n \in Operation : n \in x.op => operation[n].requestHash = x.hash
    BY <1>1, <1>4, <2>2
  <2> QED
    BY <1>1, <1>2, <1>3, <2>2, <2>3, WaiterMoves
<1>8. CASE \E pc \in Waits : Goto(r, pc) /\ (pc = "poll" => operation[o].requestHash = req[r].hash)
  <2>1. PICK pc \in Waits : /\ req' = [req EXCEPT ![r] = [req[r] EXCEPT !.pc = pc]]
                            /\ pc = "poll" => operation[o].requestHash = req[r].hash
    BY <1>8, <1>2 DEF Goto, TypeOK
  <2> DEFINE x == [req[r] EXCEPT !.pc = pc]
  <2>2. /\ x.pc = pc /\ x.hash = req[r].hash /\ x.op = req[r].op
        /\ req' = [req EXCEPT ![r] = x]
    BY <1>2, <2>1 DEF RequestState
  <2> HIDE DEF x
  <2>3. x.pc = "poll" => \A n \in Operation : n \in x.op => operation[n].requestHash = x.hash
    BY <1>1, <2>1, <2>2
  <2> QED
    BY <1>1, <1>2, <1>3, <2>2, <2>3, WaiterMoves
<1> QED
  BY <1>5, <1>6, <1>7, <1>8

\* The two ways to fail with a workspace that is not recorded.
Unrecorded(r, o) ==
  /\ CompleteOperation(r, o) \/ RecordingCutOff(r, o)
  /\ operation' = operation
  /\ Goto(r, "fail")

\* The steps of a leader that neither opens nor decides its operation.
LEMMA InvLead ==
  ASSUME IInv, TypeOK', NEW r \in Request, NEW o \in Operation,
         \/ CheckQuota(r, o) \/ FindWarmWorkspace(r, o) \/ ReadWarmWorkspace(r, o)
         \/ AssignWarmWorkspace(r, o) \/ AllocateGatewayPorts(r, o)
         \/ StartUsageSession(r, o) \/ SessionExists(r, o) \/ CreateColdWorkspace(r, o)
         \/ Unrecorded(r, o)
  PROVE  Inv'
<1> USE DEF IInv
<1>1. /\ o \in req[r].op /\ req[r].reply = "none"
      /\ req[r].pc \in {"quota", "find", "read", "assign", "ports", "session", "running",
                        "cold", "complete"}
  BY DEF CheckQuota, FindWarmWorkspace, ReadWarmWorkspace, AssignWarmWorkspace,
         AllocateGatewayPorts, StartUsageSession, SessionExists, CreateColdWorkspace,
         Unrecorded, CompleteOperation, RecordingCutOff, At
<1>2. Leads(r, o) /\ req[r] \in RequestState /\ req[r].ws \subseteq Workspace
  BY <1>1, WarmTypes DEF Leads, TypeOK
<1>3. req[r].pc \in HoldsPC => req[r].ws # {}
  BY DEF Inv, HoldsWorkspace
<1>4. operation' = operation
  BY DEF CheckQuota, FindWarmWorkspace, ReadWarmWorkspace, AssignWarmWorkspace,
         AllocateGatewayPorts, StartUsageSession, SessionExists, CreateColdWorkspace, Unrecorded
<1>5. ASSUME NEW pc, Goto(r, pc), pc \in LeadPC \ {"answer"},
             pc \in HoldsPC => req[r].ws # {},
             \/ launchedBy' = launchedBy /\ (req[r].pc \in LaunchPC => pc \in LaunchPC)
             \/ \E w \in Workspace : /\ req[r].pc \notin LaunchPC /\ pc \in LaunchPC
                                     /\ req[r].ws = {w}
                                     /\ launchedBy' = [launchedBy EXCEPT ![w] = {o}]
      PROVE  Inv'
  <2> DEFINE x == [req[r] EXCEPT !.pc = pc]
  <2>1. /\ x.pc = pc /\ x.hash = req[r].hash /\ x.op = req[r].op /\ x.ws = req[r].ws
        /\ x.reply = "none" /\ req' = [req EXCEPT ![r] = x]
    BY <1>1, <1>2, <1>5 DEF Goto, RequestState, TypeOK
  <2> HIDE DEF x
  <2> QED
    BY <1>1, <1>2, <1>4, <1>5, <2>1, LeaderMoves, ZenonT(30)
<1>6. ASSUME NEW pc, NEW w \in Workspace,
             req' = [req EXCEPT ![r] = [@ EXCEPT !.pc = pc, !.ws = {w}]],
             pc \in LeadPC \ {"answer"}, req[r].pc \notin LaunchPC,
             \/ launchedBy' = launchedBy
             \/ pc \in LaunchPC /\ launchedBy' = [launchedBy EXCEPT ![w] = {o}]
      PROVE  Inv'
  <2> DEFINE x == [req[r] EXCEPT !.pc = pc, !.ws = {w}]
  <2>1. /\ x.pc = pc /\ x.hash = req[r].hash /\ x.op = req[r].op /\ x.ws = {w}
        /\ x.reply = "none" /\ req' = [req EXCEPT ![r] = x]
    BY <1>1, <1>2, <1>6 DEF RequestState, TypeOK
  <2> HIDE DEF x
  <2>2. /\ x.pc \in LeadPC \ {"answer"} /\ x.ws # {}
        /\ req[r].pc \notin {"answer", "fail"}
    BY <1>1, <1>6, <2>1
  <2>3. CASE launchedBy' = launchedBy
    <3>1. req[r].pc \in LaunchPC => x.pc \in LaunchPC /\ x.ws = req[r].ws
      BY <1>6
    <3> QED
      BY <1>1, <1>2, <1>4, <2>1, <2>2, <2>3, <3>1, LeaderMoves
  <2>4. CASE pc \in LaunchPC /\ launchedBy' = [launchedBy EXCEPT ![w] = {o}]
    <3>1. /\ req[r].pc \notin LaunchPC /\ x.pc \in LaunchPC /\ x.ws = {w}
          /\ launchedBy' = [launchedBy EXCEPT ![w] = {o}]
      BY <1>6, <2>1, <2>4
    <3> QED
      BY <1>1, <1>2, <1>4, <2>1, <2>2, <3>1, LeaderMoves
  <2> QED
    BY <1>6, <2>3, <2>4
<1>7. CASE \/ CheckQuota(r, o) \/ ReadWarmWorkspace(r, o) \/ AllocateGatewayPorts(r, o)
           \/ StartUsageSession(r, o) \/ SessionExists(r, o)
           \/ Unrecorded(r, o)
  <2>1. launchedBy' = launchedBy
    BY <1>7 DEF CheckQuota, ReadWarmWorkspace, AllocateGatewayPorts, StartUsageSession,
                SessionExists, Unrecorded, CompleteOperation, RecordingCutOff, workspaces
  <2>2. \E pc \in LeadPC \ {"answer"} : /\ Goto(r, pc)
                                        /\ pc \in HoldsPC => req[r].ws # {}
                                        /\ req[r].pc \in LaunchPC => pc \in LaunchPC
    <3>1. CASE CheckQuota(r, o)
      BY <3>1 DEF CheckQuota, At, LeadPC, PC, Waits, HoldsPC, LaunchPC
    <3>2. CASE ReadWarmWorkspace(r, o)
      BY <3>2, <1>3 DEF ReadWarmWorkspace, At, LeadPC, PC, Waits, HoldsPC, LaunchPC
    <3>3. CASE AllocateGatewayPorts(r, o)
      BY <3>3, <1>3 DEF AllocateGatewayPorts, At, LeadPC, PC, Waits, HoldsPC, LaunchPC
    <3>4. CASE StartUsageSession(r, o)
      BY <3>4, <1>3 DEF StartUsageSession, At, LeadPC, PC, Waits, HoldsPC, LaunchPC
    <3>5. CASE SessionExists(r, o)
      BY <3>5, <1>3 DEF SessionExists, At, LeadPC, PC, Waits, HoldsPC, LaunchPC
    <3>6. CASE Unrecorded(r, o)
      BY <3>6 DEF Unrecorded, LeadPC, PC, Waits, HoldsPC, LaunchPC
    <3> QED
      BY <1>7, <3>1, <3>2, <3>3, <3>4, <3>5, <3>6
  <2> QED
    BY <1>5, <2>1, <2>2
<1>8. CASE FindWarmWorkspace(r, o)
  <2>1. launchedBy' = launchedBy /\ req[r].pc = "find"
    BY <1>8 DEF FindWarmWorkspace, workspaces, At
  <2>2. CASE Goto(r, "cold")
    BY <1>5, <2>1, <2>2 DEF LeadPC, PC, Waits, HoldsPC, LaunchPC
  <2>3. CASE \E w \in WarmAvailable : req' = [req EXCEPT ![r] = [@ EXCEPT !.pc = "read", !.ws = {w}]]
    <3>1. PICK w \in WarmAvailable : req' = [req EXCEPT ![r] = [@ EXCEPT !.pc = "read", !.ws = {w}]]
      BY <2>3
    <3>2. w \in Workspace
      BY DEF WarmAvailable, Workspace
    <3> QED
      BY <1>6, <2>1, <3>1, <3>2 DEF LeadPC, PC, Waits, LaunchPC
  <2> QED
    BY <1>8, <2>2, <2>3 DEF FindWarmWorkspace
<1>9. CASE AssignWarmWorkspace(r, o)
  <2>1. PICK w \in req[r].ws : launchedBy' = [launchedBy EXCEPT ![w] = {o}]
    BY <1>9 DEF AssignWarmWorkspace
  <2>2. w \in Workspace /\ req[r].ws = {w}
    BY <1>2, <2>1 DEF RequestState, AtMostOne
  <2>3. Goto(r, "ports") /\ req[r].pc = "assign"
    BY <1>9 DEF AssignWarmWorkspace, At
  <2> QED
    BY <1>5, <2>1, <2>2, <2>3 DEF LeadPC, PC, Waits, HoldsPC, LaunchPC
<1>10. CASE CreateColdWorkspace(r, o)
  <2>1. PICK w \in FreshId : /\ launchedBy' = [launchedBy EXCEPT ![w] = {o}]
                             /\ req' = [req EXCEPT ![r] = [@ EXCEPT !.pc = "complete", !.ws = {w}]]
    BY <1>10 DEF CreateColdWorkspace
  <2>2. w \in Workspace /\ req[r].pc = "cold"
    BY <1>10, <2>1, FreshIdIsUnused DEF Workspace, CreateColdWorkspace, At
  <2> QED
    BY <1>6, <2>1, <2>2 DEF LeadPC, PC, Waits, LaunchPC
<1> QED
  BY <1>7, <1>8, <1>9, <1>10

\* What a step about r and o leaves alone: the other requests, and whether
\* they lead; the other operations.
LEMMA OthersStay ==
  ASSUME TypeOK, NEW r \in Request, NEW x, req' = [req EXCEPT ![r] = x]
  PROVE  /\ req'[r] = x
         /\ \A q \in Request \ {r} : req'[q] = req[q]
         /\ \A q \in Request \ {r}, n \in Operation : Leads(q, n)' <=> Leads(q, n)
BY DEF TypeOK, Leads

\* Opening: nobody has led the operation before.
LEMMA InvCreate ==
  ASSUME IInv, TypeOK', NEW r \in Request, NEW o \in Operation,
         CreateOperation(r, o), operation[o].status = "none"
  PROVE  Inv'
<1> USE DEF IInv
<1> DEFINE x == [req[r] EXCEPT !.pc = "quota"]
<1>1. /\ req[r] \in RequestState /\ req[r].pc = "create" /\ o \in req[r].op /\ req[r].op = {o}
      /\ req[r].reply = "none"
  BY AboutOne DEF CreateOperation, At, TypeOK
<1>2. /\ x.pc = "quota" /\ x.op = {o} /\ x.hash = req[r].hash /\ x.reply = "none"
      /\ req' = [req EXCEPT ![r] = x]
  BY <1>1 DEF CreateOperation, Goto, RequestState, TypeOK
<1> HIDE DEF x
<1>3. /\ req'[r] = x
      /\ \A q \in Request \ {r} : req'[q] = req[q]
      /\ \A q \in Request \ {r}, n \in Operation : Leads(q, n)' <=> Leads(q, n)
  BY <1>2, OthersStay
<1>4. /\ operation'[o].status = "PROCESSING" /\ operation'[o].requestHash = req[r].hash
      /\ operation'[o].ws = {}
      /\ \A n \in Operation \ {o} : operation'[n] = operation[n]
  BY DEF CreateOperation, NoRow, TypeOK
<1>5. \A q \in Request : ~Leads(q, o)
  BY DEF Inv, LedIsOpen
<1>6. \A n \in Operation : ~Leads(r, n) /\ (Leads(r, n)' <=> n = o)
  BY <1>1, <1>2, <1>3 DEF Leads
<1>7. OneLeader' /\ LedIsOpen'
  BY <1>3, <1>4, <1>5, <1>6 DEF Inv, OneLeader, LedIsOpen
<1>8. NothingYet' /\ HasPayload' /\ HoldsWorkspace'
  BY <1>1, <1>2, <1>3, <1>4 DEF Inv, NothingYet, HasPayload, HoldsWorkspace, HoldsPC
<1>9. SamePayload'
  <2> SUFFICES ASSUME NEW n \in Operation, NEW q \in Request, n \in req'[q].op,
                      Leads(q, n)' \/ req'[q].pc = "poll"
               PROVE  operation'[n].requestHash = req'[q].hash
    BY DEF SamePayload
  <2>1. CASE q = r
    BY <1>2, <1>3, <1>4, <2>1
  <2>2. CASE q # r /\ n # o
    BY <1>3, <1>4, <2>2 DEF Inv, SamePayload
  <2>3. CASE q # r /\ n = o
    <3>1. req[q].pc = "poll" /\ o \in req[q].op
      BY <1>3, <1>5, <2>3
    <3>2. operation[o].requestHash = req[q].hash
      BY <3>1 DEF Inv, SamePayload
    <3>3. req[q].hash # {} /\ operation[o].requestHash = {}
      BY <3>1 DEF Inv, HasPayload, NothingYet, CreateOperation
    <3> QED
      BY <3>2, <3>3
  <2> QED
    BY <2>1, <2>2, <2>3
<1>10. Recorded' /\ FailedIsLed'
  <2>1. ASSUME NEW n \in Operation, NEW q \in Request, Leads(q, n)'
        PROVE  /\ req'[q].pc \notin {"answer", "fail"} => operation'[n].ws = {}
               /\ req'[q].pc = "answer" => operation'[n].ws = req'[q].ws /\ operation'[n].status = "COMPLETED"
    <3>1. CASE q = r
      BY <1>2, <1>3, <1>4, <1>6, <2>1, <3>1
    <3>2. CASE q # r
      <4>1. Leads(q, n) /\ n # o
        BY <1>3, <1>5, <2>1, <3>2
      <4> QED
        BY <1>3, <1>4, <3>2, <4>1 DEF Inv, Recorded
    <3> QED
      BY <3>1, <3>2
  <2>2. ASSUME NEW n \in Operation, operation'[n].status = "FAILED"
        PROVE  \E q \in Request : Leads(q, n)' /\ req'[q].pc = "fail"
    <3>1. PICK q \in Request : Leads(q, n) /\ req[q].pc = "fail"
      BY <1>4, <2>2 DEF Inv, FailedIsLed
    <3> QED
      BY <1>3, <1>6, <3>1
  <2>3. Recorded'
    BY <2>1 DEF Recorded
  <2> QED
    BY <2>2, <2>3 DEF FailedIsLed
<1>11. ProcessingIsLed'
  BY <1>2, <1>3, <1>4, <1>6 DEF Inv, ProcessingIsLed
<1>12. LaunchedByLeader'
  BY <1>3, <1>6 DEF Inv, LaunchedByLeader, CreateOperation, workspaces
<1> QED
  BY <1>7, <1>8, <1>9, <1>10, <1>11, <1>12 DEF Inv

\* The leader records its workspace, and may be cut off in it.
LEMMA InvComplete ==
  ASSUME IInv, TypeOK', NEW r \in Request, NEW o \in Operation,
         CompleteOperation(r, o) \/ RecordingCutOff(r, o), Completed(o, req[r].ws),
         NEW pc \in {"answer", "fail"}, Goto(r, pc)
  PROVE  Inv'
<1> USE DEF IInv
<1> DEFINE x == [req[r] EXCEPT !.pc = pc]
<1>1. /\ req[r] \in RequestState /\ req[r].pc = "complete" /\ o \in req[r].op /\ req[r].op = {o}
      /\ req[r].reply = "none" /\ Leads(r, o)
  BY AboutOne DEF CompleteOperation, RecordingCutOff, At, TypeOK, Leads
<1>2. /\ x.pc = pc /\ x.op = {o} /\ x.hash = req[r].hash /\ x.reply = "none"
      /\ x.ws = req[r].ws /\ req' = [req EXCEPT ![r] = x]
  BY <1>1 DEF Goto, RequestState, TypeOK
<1> HIDE DEF x
<1>3. /\ req'[r] = x
      /\ \A q \in Request \ {r} : req'[q] = req[q]
      /\ \A q \in Request \ {r}, n \in Operation : Leads(q, n)' <=> Leads(q, n)
  BY <1>2, OthersStay
<1>4. operation[o] \in Row
  BY OperationTypes
<1>5. /\ operation'[o].status = "COMPLETED" /\ operation'[o].ws = req[r].ws
      /\ operation'[o].requestHash = operation[o].requestHash
      /\ \A n \in Operation \ {o} : operation'[n] = operation[n]
  BY <1>4 DEF Completed, TypeOK, Row
<1>6. \A n \in Operation : Leads(r, n)' <=> Leads(r, n)
  BY <1>1, <1>2, <1>3 DEF Leads
<1>7. \A q \in Request : Leads(q, o) => q = r
  BY <1>1 DEF Inv, OneLeader
<1>8. OneLeader' /\ LedIsOpen' /\ NothingYet'
  BY <1>3, <1>5, <1>6 DEF Inv, OneLeader, LedIsOpen, NothingYet
<1>9. SamePayload' /\ HasPayload' /\ HoldsWorkspace'
  BY <1>1, <1>2, <1>3, <1>5, <1>6 DEF Inv, SamePayload, HasPayload, HoldsWorkspace, HoldsPC
<1>10. Recorded'
  <2> SUFFICES ASSUME NEW n \in Operation, NEW q \in Request, Leads(q, n)'
               PROVE  /\ req'[q].pc \notin {"answer", "fail"} => operation'[n].ws = {}
                      /\ req'[q].pc = "answer" => operation'[n].ws = req'[q].ws /\ operation'[n].status = "COMPLETED"
    BY DEF Recorded
  <2>1. CASE q = r
    <3>1. n = o
      BY <1>1, <1>6, <2>1 DEF Leads
    <3> QED
      BY <1>2, <1>3, <1>5, <2>1, <3>1
  <2>2. CASE q # r
    <3>1. n # o /\ Leads(q, n)
      BY <1>3, <1>7, <2>2
    <3> QED
      BY <1>3, <1>5, <2>2, <3>1 DEF Inv, Recorded
  <2> QED
    BY <2>1, <2>2
<1>11. FailedIsLed'
  BY <1>1, <1>3, <1>5, <1>6 DEF Inv, FailedIsLed
<1>12. ProcessingIsLed'
  <2> SUFFICES ASSUME NEW n \in Operation, operation'[n].status = "PROCESSING"
               PROVE  \E q \in Request : Leads(q, n)' /\ (req'[q].reply \in {"none", "lost"} \/ req'[q].pc = "fail")
    BY DEF ProcessingIsLed
  <2>1. n # o /\ operation[n].status = "PROCESSING"
    BY <1>5
  <2>2. PICK q \in Request : Leads(q, n) /\ (req[q].reply \in {"none", "lost"} \/ req[q].pc = "fail")
    BY <2>1 DEF Inv, ProcessingIsLed
  <2>3. q # r
    BY <1>1, <2>1, <2>2 DEF Leads
  <2> QED
    BY <1>3, <2>2, <2>3
<1>13. LaunchedByLeader'
  <2>1. launchedBy' = launchedBy
    BY DEF CompleteOperation, RecordingCutOff, workspaces
  <2> QED
    BY <1>1, <1>2, <1>3, <1>6, <2>1 DEF Inv, LaunchedByLeader, LaunchPC
<1> QED
  BY <1>8, <1>9, <1>10, <1>11, <1>12, <1>13 DEF Inv

\* The leader answers its failure, recorded or not.
LEMMA InvFail ==
  ASSUME IInv, TypeOK', NEW r \in Request, NEW o \in Operation, FailOperation(r, o)
  PROVE  Inv'
<1> USE DEF IInv
<1> DEFINE x == [req[r] EXCEPT !.reply = "failed"]
<1>1. /\ req[r] \in RequestState /\ req[r].pc = "fail" /\ o \in req[r].op /\ req[r].op = {o}
      /\ Leads(r, o)
  BY AboutOne DEF FailOperation, At, TypeOK, Leads
<1>2. /\ x.pc = "fail" /\ x.op = req[r].op /\ x.hash = req[r].hash
      /\ x.ws = req[r].ws /\ req' = [req EXCEPT ![r] = x]
  BY <1>1 DEF FailOperation, Answer, RequestState, TypeOK
<1> HIDE DEF x
<1>3. /\ req'[r] = x
      /\ \A q \in Request \ {r} : req'[q] = req[q]
      /\ \A q \in Request \ {r}, n \in Operation : Leads(q, n)' <=> Leads(q, n)
  BY <1>2, OthersStay
<1>4. operation[o] \in Row
  BY OperationTypes
<1>5. /\ operation'[o].status \in {operation[o].status, "FAILED"}
      /\ operation'[o].requestHash = operation[o].requestHash
      /\ operation'[o].ws = operation[o].ws
      /\ \A n \in Operation \ {o} : operation'[n] = operation[n]
  BY <1>4 DEF FailOperation, TypeOK, Row
<1>6. \A q \in Request, n \in Operation : Leads(q, n)' <=> Leads(q, n)
  BY <1>1, <1>2, <1>3 DEF Leads
<1>7. OneLeader' /\ LedIsOpen'
  BY <1>5, <1>6 DEF Inv, OneLeader, LedIsOpen
<1>8. NothingYet' /\ HasPayload' /\ HoldsWorkspace'
  BY <1>1, <1>2, <1>3, <1>5 DEF Inv, NothingYet, HasPayload, HoldsWorkspace
<1>9. SamePayload'
  BY <1>1, <1>2, <1>3, <1>5, <1>6 DEF Inv, SamePayload
<1>10. \A q \in Request : Leads(q, o) => q = r
  BY <1>1 DEF Inv, OneLeader
<1>11. Recorded'
  BY <1>1, <1>2, <1>3, <1>5, <1>6, <1>10 DEF Inv, Recorded
<1>12. FailedIsLed'
  BY <1>1, <1>2, <1>3, <1>5, <1>6 DEF Inv, FailedIsLed
<1>13. ProcessingIsLed'
  BY <1>1, <1>2, <1>3, <1>5, <1>6 DEF Inv, ProcessingIsLed
<1>14. LaunchedByLeader'
  BY <1>1, <1>2, <1>3, <1>6 DEF Inv, LaunchedByLeader, FailOperation, workspaces
<1> QED
  BY <1>7, <1>8, <1>9, <1>11, <1>12, <1>13, <1>14 DEF Inv

\* The steps in which an operation is opened, completed and answered.
LEMMA InvServe ==
  ASSUME IInv, TypeOK', NEW r \in Request, NEW o \in Operation,
         \/ CompleteOperation(r, o) \/ RecordingCutOff(r, o)
         \/ AnswerLaunch(r, o) \/ CreateOperation(r, o)
  PROVE  Inv'
<1>1. CASE CreateOperation(r, o)
  BY <1>1, InvWait, InvCreate
<1>2. CASE AnswerLaunch(r, o)
  <2>1. /\ Answer(r, "launched") /\ req[r].pc = "answer"
        /\ operation' = operation /\ launchedBy' = launchedBy
    BY <1>2 DEF AnswerLaunch, At, workspaces
  <2> QED
    BY <2>1, StandsAnswered
<1>3. CASE CompleteOperation(r, o) \/ RecordingCutOff(r, o)
  <2>1. \/ Completed(o, req[r].ws) /\ (Goto(r, "answer") \/ Goto(r, "fail"))
        \/ Unrecorded(r, o)
    BY <1>3 DEF CompleteOperation, RecordingCutOff, Unrecorded
  <2> QED
    BY <1>3, <2>1, InvComplete, InvLead
<1> QED
  BY <1>1, <1>2, <1>3

\* A request that arrives waits, and polls nothing yet.
LEMMA InvArrive ==
  ASSUME IInv, TypeOK', NEW r \in Request, Arrive(r)
  PROVE  Inv'
<1>1. PICK o \in Operation, p \in Payload :
        req' = [req EXCEPT ![r] = [req[r] EXCEPT !.pc = "lookup", !.op = {o}, !.hash = {p}]]
  BY DEF Arrive, IInv, TypeOK
<1> DEFINE x == [req[r] EXCEPT !.pc = "lookup", !.op = {o}, !.hash = {p}]
<1>2. x.pc = "lookup" /\ x.hash = {p} /\ req' = [req EXCEPT ![r] = x]
  BY <1>1 DEF IInv, TypeOK, RequestState
<1> HIDE DEF x
<1>3. req[r].pc \in Waits \cup {"new"} /\ x.pc \in Waits /\ x.hash # {}
  BY <1>2 DEF Arrive, Waits
<1>4. x.pc = "poll" => \A n \in Operation : n \in x.op => operation[n].requestHash = x.hash
  BY <1>2
<1>5. operation' = operation /\ launchedBy' = launchedBy
  BY DEF Arrive, workspaces
<1> QED
  BY <1>2, <1>3, <1>4, <1>5, WaiterMoves

\* Every step keeps the invariant.
LEMMA InvKept == IInv /\ [Next]_vars => IInv'
<1> SUFFICES ASSUME IInv, [Next]_vars PROVE IInv'
  OBVIOUS
<1>1. TypeOK'
  BY TypeKept DEF IInv
<1>2. ASSUME NEW r \in Request, Serve(r) PROVE Inv'
  <2>1. PICK o \in Operation :
          \/ Lookup(r, o) \/ CreateOperation(r, o) \/ Poll(r, o) \/ PollTimeout(r, o)
          \/ CheckQuota(r, o) \/ FindWarmWorkspace(r, o) \/ ReadWarmWorkspace(r, o)
          \/ AssignWarmWorkspace(r, o) \/ AllocateGatewayPorts(r, o)
          \/ StartUsageSession(r, o) \/ SessionExists(r, o) \/ CreateColdWorkspace(r, o)
          \/ CompleteOperation(r, o) \/ RecordingCutOff(r, o) \/ AnswerLaunch(r, o)
          \/ FailOperation(r, o)
    BY <1>2 DEF Serve
  <2> QED
    BY <1>1, <2>1, InvWait, InvLead, InvServe, InvFail
<1>3. ASSUME NEW r \in Request, Arrive(r) PROVE Inv'
  BY <1>1, <1>3, InvArrive
<1>4. ASSUME NEW r \in Request, RequestLost(r) PROVE Inv'
  <2>1. Answer(r, "lost") /\ operation' = operation /\ launchedBy' = launchedBy
    BY <1>4 DEF RequestLost, workspaces
  <2> QED
    BY <1>1, <2>1, StandsAnswered
<1>5. CASE Worker
  <2>1. UNCHANGED <<operation, launchedBy, req>>
    BY <1>5 DEF Worker, RunFindsWarm, RunClaimsWarm, ListExtra, MarkExtra, EndExtra,
                EndWorkspace, workspaces
  <2> QED
    BY <1>1, <2>1, NobodyMoves DEF IInv
<1>6. CASE UNCHANGED vars
  <2>1. UNCHANGED <<operation, launchedBy, req>>
    BY <1>6 DEF vars, workspaces
  <2> QED
    BY <1>1, <2>1, NobodyMoves DEF IInv
<1> QED
  BY <1>1, <1>2, <1>3, <1>4, <1>5, <1>6, StepKinds DEF IInv

\* The invariant holds before anything has happened.
LEMMA InvInitially == Init => IInv
<1> SUFFICES ASSUME Init PROVE Inv
  BY TypeInitially DEF IInv
<1>1. /\ \A o \in Operation : operation[o] = NoRow
      /\ \A r \in Request : req[r] = NewRequest
      /\ \A w \in Workspace : launchedBy[w] = {}
  BY DEF Init
<1>2. \A r \in Request, o \in Operation : ~Leads(r, o)
  BY <1>1 DEF Leads, NewRequest
<1> QED
  BY <1>1, <1>2 DEF Inv, OneLeader, LedIsOpen, SamePayload, HasPayload, NothingYet, Recorded,
     FailedIsLed, ProcessingIsLed, HoldsWorkspace, LaunchedByLeader, NoRow, NewRequest, HoldsPC

\* The invariant holds in every reachable state.
THEOREM Invariant == Spec => []IInv
BY InvInitially, InvKept, PTL DEF Spec

\* Whoever is told of a failure is told by the leader that has failed, or is it.
RefusedIsFailed ==
  \A o \in Operation, q \in Request : req[q].reply = "failed" /\ o \in req[q].op =>
    \E r \in Request : Leads(r, o) /\ req[r].pc = "fail" /\ (r = q \/ operation[o].ws = {})

\* A step of a request is about one operation, and moves that request alone.
LEMMA OneMoves ==
  ASSUME TypeOK, NEW r \in Request, Arrive(r) \/ Serve(r) \/ RequestLost(r)
  PROVE  \A q \in Request \ {r} : req'[q] = req[q]
<1>1. ASSUME NEW x, req' = [req EXCEPT ![r] = x] PROVE \A q \in Request \ {r} : req'[q] = req[q]
  BY <1>1 DEF TypeOK
<1>2. ASSUME NEW a, Goto(r, a) \/ Answer(r, a) \/ AnswerWorkspace(r, a)
      PROVE  \A q \in Request \ {r} : req'[q] = req[q]
  BY <1>2 DEF TypeOK, Goto, Answer, AnswerWorkspace
<1>3. CASE Arrive(r)
  BY <1>1, <1>3 DEF Arrive
<1>4. CASE RequestLost(r)
  BY <1>2, <1>4 DEF RequestLost
<1>5. CASE Serve(r)
  <2>1. PICK o \in Operation :
          \/ Lookup(r, o) \/ CreateOperation(r, o) \/ Poll(r, o) \/ PollTimeout(r, o)
          \/ CheckQuota(r, o) \/ FindWarmWorkspace(r, o) \/ ReadWarmWorkspace(r, o)
          \/ AssignWarmWorkspace(r, o) \/ AllocateGatewayPorts(r, o)
          \/ StartUsageSession(r, o) \/ SessionExists(r, o) \/ CreateColdWorkspace(r, o)
          \/ CompleteOperation(r, o) \/ RecordingCutOff(r, o) \/ AnswerLaunch(r, o)
          \/ FailOperation(r, o)
    BY <1>5 DEF Serve
  <2>2. CASE Lookup(r, o)
    <3>1. \/ \E a : Goto(r, a) \/ Answer(r, a)
          \/ AnswerWorkspace(r, operation[o].ws)
      BY <2>2, Zenon DEF Lookup
    <3> QED
      BY <1>2, <3>1
  <2>3. CASE \/ CreateOperation(r, o) \/ Poll(r, o) \/ PollTimeout(r, o) \/ CheckQuota(r, o)
             \/ ReadWarmWorkspace(r, o) \/ AssignWarmWorkspace(r, o)
             \/ AllocateGatewayPorts(r, o)
    BY <1>2, <2>3 DEF CreateOperation, Poll, PollTimeout, CheckQuota, ReadWarmWorkspace,
                      AssignWarmWorkspace, AllocateGatewayPorts
  <2>4. CASE \/ StartUsageSession(r, o) \/ SessionExists(r, o) \/ CompleteOperation(r, o)
             \/ RecordingCutOff(r, o) \/ AnswerLaunch(r, o) \/ FailOperation(r, o)
    BY <1>2, <2>4 DEF StartUsageSession, SessionExists, CompleteOperation, RecordingCutOff,
                      AnswerLaunch, FailOperation
  <2>5. CASE FindWarmWorkspace(r, o) \/ CreateColdWorkspace(r, o)
    BY <1>1, <1>2, <2>5 DEF FindWarmWorkspace, CreateColdWorkspace
  <2> QED
    BY <2>1, <2>2, <2>3, <2>4, <2>5
<1> QED
  BY <1>3, <1>4, <1>5

\* Who writes which operation: its opener, its leader on the way to recording,
\* or the failure, which leaves the workspace as it is.
LEMMA WhoWrites ==
  ASSUME TypeOK, [Next]_vars, NEW o \in Operation, operation'[o].ws # operation[o].ws
  PROVE  \/ operation[o].status = "none"
         \/ \E r \in Request : Leads(r, o) /\ req[r].pc = "complete"
<1>1. CASE operation' = operation
  BY <1>1
<1>2. ASSUME NEW r \in Request, NEW n \in Operation, CreateOperation(r, n), operation' # operation
      PROVE  operation[o].status = "none"
  BY <1>2 DEF CreateOperation, TypeOK
<1>3. ASSUME NEW r \in Request, NEW n \in Operation, CompleteOperation(r, n) \/ RecordingCutOff(r, n),
             operation' # operation
      PROVE  \E q \in Request : Leads(q, o) /\ req[q].pc = "complete"
  <2>1. Completed(n, req[r].ws) /\ At(r, "complete", n)
    BY <1>3 DEF CompleteOperation, RecordingCutOff
  <2>2. n = o
    BY <2>1 DEF Completed, TypeOK
  <2> QED
    BY <2>1, <2>2 DEF At, Leads
<1>4. ASSUME NEW r \in Request, NEW n \in Operation, FailOperation(r, n)
      PROVE  operation'[o].ws = operation[o].ws
  BY <1>4, OperationTypes DEF FailOperation, TypeOK, Row
<1>5. \/ operation' = operation
      \/ \E r \in Request, n \in Operation :
           \/ CreateOperation(r, n) \/ CompleteOperation(r, n) \/ RecordingCutOff(r, n)
           \/ FailOperation(r, n)
  <2>1. CASE \E r \in Request : Arrive(r) \/ RequestLost(r)
    BY <2>1 DEF Arrive, RequestLost
  <2>2. CASE Worker \/ UNCHANGED vars
    BY <2>2 DEF Worker, RunFindsWarm, RunClaimsWarm, ListExtra, MarkExtra, EndExtra,
                EndWorkspace, vars
  <2>3. ASSUME NEW r \in Request, NEW n \in Operation,
               \/ Lookup(r, n) \/ Poll(r, n) \/ PollTimeout(r, n) \/ CheckQuota(r, n)
               \/ FindWarmWorkspace(r, n) \/ ReadWarmWorkspace(r, n) \/ AnswerLaunch(r, n)
        PROVE  operation' = operation
    BY <2>3 DEF Lookup, Poll, PollTimeout, CheckQuota, FindWarmWorkspace, ReadWarmWorkspace,
                AnswerLaunch
  <2>4. ASSUME NEW r \in Request, NEW n \in Operation,
               \/ AssignWarmWorkspace(r, n) \/ AllocateGatewayPorts(r, n)
               \/ StartUsageSession(r, n) \/ SessionExists(r, n) \/ CreateColdWorkspace(r, n)
        PROVE  operation' = operation
    BY <2>4 DEF AssignWarmWorkspace, AllocateGatewayPorts, StartUsageSession, SessionExists,
                CreateColdWorkspace
  <2>5. CASE \E r \in Request : Serve(r)
    BY <2>3, <2>4, <2>5 DEF Serve
  <2> QED
    BY <2>1, <2>2, <2>5, StepKinds
<1> QED
  BY <1>1, <1>2, <1>3, <1>4, <1>5

\* A leader that has failed stays, and nobody records a workspace any more.
LEMMA FailedStays ==
  ASSUME IInv, [Next]_vars, NEW r \in Request, NEW o \in Operation,
         Leads(r, o), req[r].pc = "fail"
  PROVE  Leads(r, o)' /\ req'[r].pc = "fail" /\ operation'[o].ws = operation[o].ws
<1>1. TypeOK /\ req[r] \in RequestState
  BY DEF IInv, TypeOK
<1>2. operation'[o].ws = operation[o].ws
  BY <1>1, WhoWrites DEF IInv, Inv, OneLeader, LedIsOpen
<1>3. req'[r].pc = "fail" /\ req'[r].op = req[r].op
  <2>1. ASSUME NEW a, Answer(r, a) PROVE req'[r].pc = "fail" /\ req'[r].op = req[r].op
    BY <1>1, <2>1 DEF Answer, RequestState, TypeOK
  <2>2. CASE Serve(r)
    <3>1. \E n \in Operation : FailOperation(r, n)
      BY <2>2 DEF Serve, At, Lookup, CreateOperation, Poll, PollTimeout, CheckQuota,
                  FindWarmWorkspace, ReadWarmWorkspace, AssignWarmWorkspace,
                  AllocateGatewayPorts, StartUsageSession, SessionExists,
                  CreateColdWorkspace, CompleteOperation, RecordingCutOff, AnswerLaunch
    <3> QED
      BY <2>1, <3>1 DEF FailOperation
  <2>3. CASE RequestLost(r)
    BY <2>1, <2>3 DEF RequestLost
  <2>4. CASE Arrive(r)
    BY <2>4 DEF Arrive
  <2>5. CASE \E q \in Request \ {r} : Arrive(q) \/ Serve(q) \/ RequestLost(q)
    BY <1>1, <2>5, OneMoves
  <2>6. CASE Worker \/ UNCHANGED vars
    BY <2>6 DEF Worker, RunFindsWarm, RunClaimsWarm, ListExtra, MarkExtra, EndExtra,
                EndWorkspace, vars
  <2> QED
    BY <2>2, <2>3, <2>4, <2>5, <2>6, StepKinds
<1> QED
  BY <1>2, <1>3 DEF Leads

\* A request is told of a failure by the row, by its own, or was before.
LEMMA WhoIsRefused ==
  ASSUME IInv, [Next]_vars, NEW q \in Request, NEW o \in Operation,
         req'[q].reply = "failed", o \in req'[q].op
  PROVE  /\ o \in req[q].op
         /\ \/ req[q].reply = "failed"
            \/ operation[o].status = "FAILED" /\ operation[o].ws = {}
            \/ Leads(q, o) /\ req[q].pc = "fail"
<1> DEFINE Told == /\ o \in req[q].op
                   /\ \/ req[q].reply = "failed"
                      \/ operation[o].status = "FAILED" /\ operation[o].ws = {}
                      \/ Leads(q, o) /\ req[q].pc = "fail"
<1>1. TypeOK /\ req[q] \in RequestState
  BY DEF IInv, TypeOK
<1>2. ASSUME req'[q] = req[q] PROVE Told
  BY <1>2
<1>3. ASSUME NEW n \in Operation, Answer(q, "failed"), n \in req[q].op,
             \/ operation[n].status = "FAILED" /\ operation[n].ws = {}
             \/ Leads(q, n) /\ req[q].pc = "fail"
      PROVE  Told
  <2>1. req'[q].op = req[q].op /\ req[q].op = {n}
    BY <1>1, <1>3, AboutOne DEF Answer, TypeOK, RequestState
  <2> QED
    BY <1>3, <2>1
<1>4. ASSUME NEW pc, NEW ws, req' = [req EXCEPT ![q] = [@ EXCEPT !.pc = pc, !.ws = ws]], req[q].reply = "none"
      PROVE  FALSE
  <2>1. req'[q].reply = req[q].reply
    BY <1>1, <1>4 DEF TypeOK, RequestState
  <2> QED
    BY <1>4, <2>1
<1>5. ASSUME NEW a,
             \/ Goto(q, a) /\ req[q].reply = "none"
             \/ Answer(q, a) /\ a # "failed"
             \/ AnswerWorkspace(q, a)
      PROVE  FALSE
  <2>1. CASE Goto(q, a) /\ req[q].reply = "none"
    <3>1. req'[q].reply = req[q].reply
      BY <1>1, <2>1 DEF Goto, TypeOK, RequestState
    <3> QED
      BY <2>1, <3>1
  <2>2. CASE Answer(q, a) /\ a # "failed"
    <3>1. req'[q].reply = a
      BY <1>1, <2>2 DEF Answer, TypeOK, RequestState
    <3> QED
      BY <2>2, <3>1
  <2>3. CASE AnswerWorkspace(q, a)
    <3>1. req'[q].reply = "launched"
      BY <1>1, <2>3 DEF AnswerWorkspace, TypeOK, RequestState
    <3> QED
      BY <3>1
  <2> QED
    BY <1>5, <2>1, <2>2, <2>3
<1> HIDE DEF Told
<1>6. ASSUME Arrive(q) PROVE Told
  <2>1. PICK n \in Operation, p \in Payload :
          req' = [req EXCEPT ![q] = [@ EXCEPT !.pc = "lookup", !.op = {n}, !.hash = {p}]]
    BY <1>6 DEF Arrive
  <2>2. req'[q].reply = req[q].reply /\ req[q].reply = "none"
    BY <1>1, <1>6, <2>1 DEF Arrive, TypeOK, RequestState
  <2> QED
    BY <2>2
<1>7. ASSUME RequestLost(q) PROVE Told
  BY <1>5, <1>7 DEF RequestLost
<1>8. ASSUME Serve(q) PROVE Told
  <2>1. PICK n \in Operation :
          \/ Lookup(q, n) \/ CreateOperation(q, n) \/ Poll(q, n) \/ PollTimeout(q, n)
          \/ CheckQuota(q, n) \/ FindWarmWorkspace(q, n) \/ ReadWarmWorkspace(q, n)
          \/ AssignWarmWorkspace(q, n) \/ AllocateGatewayPorts(q, n)
          \/ StartUsageSession(q, n) \/ SessionExists(q, n) \/ CreateColdWorkspace(q, n)
          \/ CompleteOperation(q, n) \/ RecordingCutOff(q, n) \/ AnswerLaunch(q, n)
          \/ FailOperation(q, n)
    BY <1>8 DEF Serve
  <2>2. CASE Lookup(q, n)
    <3>1. req[q].reply = "none" /\ n \in req[q].op
      BY <2>2 DEF Lookup, At
    <3>2. \/ Goto(q, "create") \/ Answer(q, "conflict") \/ Goto(q, "poll")
          \/ AnswerWorkspace(q, operation[n].ws)
          \/ Answer(q, "failed") /\ operation[n].status = "FAILED" /\ operation[n].ws = {}
      BY <2>2, Zenon DEF Lookup
    <3> QED
      BY <1>3, <1>5, <3>1, <3>2
  <2>3. CASE Poll(q, n)
    BY <1>3, <1>5, <2>3 DEF Poll, At
  <2>4. CASE FailOperation(q, n)
    BY <1>3, <2>4 DEF FailOperation, At, Leads
  <2>5. CASE \/ CreateOperation(q, n) \/ PollTimeout(q, n) \/ CheckQuota(q, n)
             \/ ReadWarmWorkspace(q, n) \/ AssignWarmWorkspace(q, n)
             \/ AllocateGatewayPorts(q, n) \/ StartUsageSession(q, n)
    BY <1>5, <2>5 DEF CreateOperation, PollTimeout, CheckQuota, ReadWarmWorkspace,
                      AssignWarmWorkspace, AllocateGatewayPorts, StartUsageSession, At
  <2>6. CASE \/ SessionExists(q, n) \/ CompleteOperation(q, n) \/ RecordingCutOff(q, n)
             \/ AnswerLaunch(q, n)
    BY <1>5, <2>6 DEF SessionExists, CompleteOperation, RecordingCutOff, AnswerLaunch, At
  <2>7. CASE FindWarmWorkspace(q, n) \/ CreateColdWorkspace(q, n)
    <3>1. /\ req[q].reply = "none"
          /\ \/ \E w : req' = [req EXCEPT ![q] = [@ EXCEPT !.pc = "read", !.ws = {w}]]
             \/ \E w : req' = [req EXCEPT ![q] = [@ EXCEPT !.pc = "complete", !.ws = {w}]]
             \/ Goto(q, "cold")
      BY <2>7 DEF FindWarmWorkspace, CreateColdWorkspace, At
    <3>2. CASE \E w : req' = [req EXCEPT ![q] = [@ EXCEPT !.pc = "read", !.ws = {w}]]
      <4>1. PICK w : req' = [req EXCEPT ![q] = [@ EXCEPT !.pc = "read", !.ws = {w}]]
        BY <3>2
      <4> QED
        BY <1>4, <3>1, <4>1
    <3>3. CASE \E w : req' = [req EXCEPT ![q] = [@ EXCEPT !.pc = "complete", !.ws = {w}]]
      <4>1. PICK w : req' = [req EXCEPT ![q] = [@ EXCEPT !.pc = "complete", !.ws = {w}]]
        BY <3>3
      <4> QED
        BY <1>4, <3>1, <4>1
    <3>4. CASE Goto(q, "cold")
      <4>1. req'[q].reply = req[q].reply
        BY <1>1, <3>4 DEF Goto, TypeOK, RequestState
      <4> QED
        BY <3>1, <4>1
    <3> QED
      BY <3>1, <3>2, <3>3, <3>4
  <2> QED
    BY <2>1, <2>2, <2>3, <2>4, <2>5, <2>6, <2>7
<1>9. ASSUME \E r \in Request \ {q} : Arrive(r) \/ Serve(r) \/ RequestLost(r) PROVE Told
  <2>1. req'[q] = req[q]
    BY <1>1, <1>9, OneMoves
  <2> QED
    BY <1>2, <2>1
<1>10. ASSUME Worker \/ UNCHANGED vars PROVE Told
  <2>1. req' = req
    BY <1>10 DEF Worker, RunFindsWarm, RunClaimsWarm, ListExtra, MarkExtra, EndExtra,
                 EndWorkspace, vars
  <2> QED
    BY <1>2, <2>1
<1>11. Told
  BY <1>6, <1>7, <1>8, <1>9, <1>10, StepKinds
<1> QED
  BY <1>11 DEF Told

\* Every step keeps it.
LEMMA RefusedKept == IInv /\ RefusedIsFailed /\ [Next]_vars => RefusedIsFailed'
<1> SUFFICES ASSUME IInv, RefusedIsFailed, [Next]_vars, NEW o \in Operation, NEW q \in Request,
                    req'[q].reply = "failed", o \in req'[q].op
             PROVE  \E r \in Request : /\ Leads(r, o)' /\ req'[r].pc = "fail"
                                       /\ r = q \/ operation'[o].ws = {}
  BY DEF RefusedIsFailed
<1>1. PICK r \in Request : Leads(r, o) /\ req[r].pc = "fail" /\ (r = q \/ operation[o].ws = {})
  BY WhoIsRefused DEF RefusedIsFailed, IInv, Inv, FailedIsLed
<1> QED
  BY <1>1, FailedStays

\* It holds in every reachable state.
LEMMA RefusedInvariant == Spec => [](IInv /\ RefusedIsFailed)
<1>1. Init => RefusedIsFailed
  BY DEF Init, RefusedIsFailed, NewRequest
<1> QED
  BY <1>1, RefusedKept, Invariant, PTL DEF Spec

\* However often a key is sent, and whatever fails or dies on the way, no two
\* workspaces are launched by one operation: both would be its leader's.
THEOREM LaunchesOnce == Spec => []LaunchedOnce
<1>1. IInv => LaunchedOnce
  <2> SUFFICES ASSUME IInv, NEW v \in Workspace, NEW w \in Workspace,
                      NEW o \in launchedBy[v], o \in launchedBy[w]
               PROVE  v = w
    BY DEF LaunchedOnce
  <2>1. o \in Operation
    BY DEF IInv, TypeOK, AtMostOne
  <2>2. PICK r \in Request : Leads(r, o) /\ req[r].ws = {v}
    BY <2>1 DEF IInv, Inv, LaunchedByLeader
  <2>3. PICK q \in Request : Leads(q, o) /\ req[q].ws = {w}
    BY <2>1 DEF IInv, Inv, LaunchedByLeader
  <2>4. r = q
    BY <2>1, <2>2, <2>3 DEF IInv, Inv, OneLeader
  <2> QED
    BY <2>2, <2>3, <2>4
<1> QED
  BY <1>1, Invariant, PTL

\* An operation is left PROCESSING only by a request at work, lost or failed.
THEOREM ProcessingHasLeader == Spec => []ProcessingIsLed
<1>1. IInv => ProcessingIsLed
  BY DEF IInv, Inv
<1> QED
  BY <1>1, Invariant, PTL

-----------------------------------------------------------------------------
(* Refinement: the operations and the answers are a launch contract.        *)

\* What the contract sees of an operation.
FailedBy(r, o) == req[r].pc = "fail" /\ o \in req[r].op
PhaseOf(o) ==
  IF operation[o].ws # {} THEN "launched"
  ELSE IF \E r \in Request : FailedBy(r, o) THEN "failed"
  ELSE IF operation[o].status # "none" THEN "open"
  ELSE "none"

\* The view, operation by operation.
LEMMA OutcomeOf ==
  OutcomeView = [o \in Operation |-> [phase |-> PhaseOf(o), payload |-> operation[o].requestHash,
                                         ws |-> operation[o].ws]]
BY DEF OutcomeView, PhaseOf, FailedBy

\* Before anything happened the contract has begun nothing and told nobody.
LEMMA ContractInitially == Init => Contract!ContractInit
<1> SUFFICES ASSUME Init PROVE Contract!ContractInit
  OBVIOUS
<1>1. /\ \A o \in Operation : operation[o] = NoRow
      /\ \A r \in Request : req[r] = NewRequest
  BY DEF Init
<1>2. LaunchedView = {} /\ RefusedView = {}
  BY <1>1 DEF LaunchedView, RefusedView, Replied, NewRequest
<1>3. \A o \in Operation : PhaseOf(o) = "none" /\ operation[o].requestHash = {} /\ operation[o].ws = {}
  BY <1>1 DEF PhaseOf, FailedBy, NoRow, NewRequest
<1>4. OutcomeView = [o \in Operation |-> [phase |-> "none", payload |-> {}, ws |-> {}]]
  BY <1>3, OutcomeOf
<1> QED
  BY <1>2, <1>4 DEF Contract!ContractInit

\* A request that is not answered by the step, and was not before, leaves the
\* answers as they are.
LEMMA AnswersStay ==
  ASSUME NEW r \in Request, \A q \in Request \ {r} : req'[q] = req[q],
         req[r].reply \notin {"launched", "failed"}, req'[r].reply \notin {"launched", "failed"}
  PROVE  LaunchedView' = LaunchedView /\ RefusedView' = RefusedView
BY DEF LaunchedView, RefusedView, Replied

\* Unless a request fails, what the contract sees of an operation is its row.
LEMMA OutcomeStays ==
  ASSUME operation' = operation,
         \A q \in Request, n \in Operation : FailedBy(q, n)' <=> FailedBy(q, n)
  PROVE  OutcomeView' = OutcomeView
<1>1. \A n \in Operation : PhaseOf(n)' = PhaseOf(n)
  BY DEF PhaseOf
<1>2. OutcomeView' = [o \in Operation |-> [phase |-> PhaseOf(o)', payload |-> operation'[o].requestHash,
                                          ws |-> operation'[o].ws]]
  BY OutcomeOf DEF OutcomeView, PhaseOf, FailedBy
<1> QED
  BY <1>1, <1>2, OutcomeOf

\* One operation changes.
LEMMA OutcomeMoves ==
  ASSUME NEW o \in Operation, NEW x,
         \A n \in Operation \ {o} : operation'[n] = operation[n] /\ PhaseOf(n)' = PhaseOf(n),
         x = [phase |-> PhaseOf(o)', payload |-> operation'[o].requestHash, ws |-> operation'[o].ws]
  PROVE  OutcomeView' = [OutcomeView EXCEPT ![o] = x]
<1>1. OutcomeView' = [n \in Operation |-> [phase |-> PhaseOf(n)', payload |-> operation'[n].requestHash,
                                          ws |-> operation'[n].ws]]
  BY OutcomeOf DEF OutcomeView, PhaseOf, FailedBy
<1> QED
  BY <1>1, OutcomeOf

\* An operation is open to the contract as long as its leader is on its way.
LEMMA LedIsContractOpen ==
  ASSUME IInv, NEW r \in Request, NEW o \in Operation, Leads(r, o),
         req[r].pc \notin {"answer", "fail"}
  PROVE  PhaseOf(o) = "open" /\ operation[o].ws = {}
<1>1. operation[o].ws = {} /\ operation[o].status # "none"
  BY DEF IInv, Inv, Recorded, LedIsOpen
<1>2. \A q \in Request : ~FailedBy(q, o)
  BY DEF IInv, Inv, OneLeader, FailedBy, Leads
<1> QED
  BY <1>1, <1>2 DEF PhaseOf

\* A request that fails on its way fails its operation.
LEMMA ContractFail ==
  ASSUME IInv, NEW r \in Request, NEW o \in Operation, Leads(r, o),
         req[r].pc \notin {"answer", "fail"}, req[r].reply = "none",
         operation' = operation, Goto(r, "fail")
  PROVE  Contract!Fail(o)
<1>1. PhaseOf(o) = "open" /\ operation[o].ws = {}
  BY LedIsContractOpen
<1>2. /\ req'[r].pc = "fail" /\ req'[r].op = req[r].op /\ req'[r].reply = "none"
      /\ \A q \in Request \ {r} : req'[q] = req[q]
  BY DEF IInv, TypeOK, RequestState, Goto
<1>3. req[r].op = {o}
  BY AboutOne DEF Leads, IInv
<1>4. PhaseOf(o)' = "failed"
  BY <1>1, <1>2, <1>3 DEF PhaseOf, FailedBy
<1>5. \A n \in Operation \ {o} : operation'[n] = operation[n] /\ PhaseOf(n)' = PhaseOf(n)
  BY <1>2, <1>3 DEF PhaseOf, FailedBy
<1>6. OutcomeView[o].phase = "open"
  BY <1>1, OutcomeOf
<1> DEFINE x == [OutcomeView[o] EXCEPT !.phase = "failed"]
<1>7. x = [phase |-> PhaseOf(o)', payload |-> operation'[o].requestHash, ws |-> operation'[o].ws]
  BY <1>4, OutcomeOf
<1> HIDE DEF x
<1>8. OutcomeView' = [OutcomeView EXCEPT ![o] = x]
  BY <1>5, <1>7, OutcomeMoves
<1>9. LaunchedView' = LaunchedView /\ RefusedView' = RefusedView
  BY <1>2, AnswersStay
<1> QED
  BY <1>6, <1>8, <1>9 DEF Contract!Fail, x

\* The insert of the row begins it, with the payload of the request.
LEMMA ContractBegin ==
  ASSUME IInv, NEW r \in Request, NEW o \in Operation,
         CreateOperation(r, o), operation[o].status = "none"
  PROVE  \E p \in Payload : Contract!Begin(o, p)
<1>1. /\ req[r] \in RequestState /\ req[r].pc = "create" /\ req[r].op = {o} /\ req[r].reply = "none"
  BY AboutOne DEF CreateOperation, At, IInv, TypeOK
<1>2. req[r].hash # {}
  BY <1>1 DEF IInv, Inv, HasPayload
<1>3. PICK p \in Payload : req[r].hash = {p}
  BY <1>1, <1>2 DEF RequestState, AtMostOne
<1>4. /\ req'[r].pc = "quota" /\ req'[r].op = {o} /\ req'[r].reply = "none"
      /\ \A q \in Request \ {r} : req'[q] = req[q]
  BY <1>1 DEF IInv, TypeOK, RequestState, CreateOperation, Goto
<1>5. /\ operation'[o].status = "PROCESSING" /\ operation'[o].requestHash = {p}
      /\ operation'[o].ws = {}
      /\ \A n \in Operation \ {o} : operation'[n] = operation[n]
  BY <1>3 DEF CreateOperation, NoRow, IInv, TypeOK
<1>6. \A q \in Request : ~FailedBy(q, o)
  <2>1. \A q \in Request : FailedBy(q, o) => Leads(q, o)
    BY DEF FailedBy, Leads
  <2> QED
    BY <2>1 DEF IInv, Inv, LedIsOpen
<1>7. \A q \in Request, n \in Operation : FailedBy(q, n)' <=> FailedBy(q, n)
  BY <1>1, <1>4 DEF FailedBy
<1>8. PhaseOf(o) = "none" /\ PhaseOf(o)' = "open"
  BY <1>5, <1>6, <1>7 DEF PhaseOf, IInv, Inv, NothingYet
<1>9. \A n \in Operation \ {o} : operation'[n] = operation[n] /\ PhaseOf(n)' = PhaseOf(n)
  BY <1>5, <1>7 DEF PhaseOf
<1>10. OutcomeView[o].phase = "none"
  BY <1>8, OutcomeOf
<1> DEFINE x == [phase |-> "open", payload |-> {p}, ws |-> {}]
<1>11. x = [phase |-> PhaseOf(o)', payload |-> operation'[o].requestHash, ws |-> operation'[o].ws]
  BY <1>5, <1>8
<1> HIDE DEF x
<1>12. OutcomeView' = [OutcomeView EXCEPT ![o] = x]
  BY <1>9, <1>11, OutcomeMoves
<1>13. LaunchedView' = LaunchedView /\ RefusedView' = RefusedView
  BY <1>1, <1>4, AnswersStay
<1> QED
  BY <1>10, <1>12, <1>13 DEF Contract!Begin, x

\* The leader's record launches its workspace, which is no other operation's,
\* whether it returns or is cut off.
LEMMA ContractLaunch ==
  ASSUME IInv, NEW r \in Request, NEW o \in Operation, At(r, "complete", o),
         \A other \in Operation \ {o} : operation[other].ws # req[r].ws,
         Completed(o, req[r].ws), NEW pc \in {"answer", "fail"}, Goto(r, pc)
  PROVE  \E w \in Workspace : Contract!Launch(o, w)
<1>1. /\ req[r] \in RequestState /\ req[r].pc = "complete" /\ req[r].op = {o} /\ req[r].reply = "none"
      /\ Leads(r, o)
  BY AboutOne DEF At, Leads, IInv, TypeOK
<1>2. PICK w \in Workspace : req[r].ws = {w}
  BY <1>1 DEF IInv, Inv, HoldsWorkspace, HoldsPC, RequestState, AtMostOne
<1>3. /\ req'[r].op = {o} /\ req'[r].reply = "none"
      /\ \A q \in Request \ {r} : req'[q] = req[q]
  BY <1>1 DEF IInv, TypeOK, RequestState, Goto
<1>4. operation[o] \in Row
  BY OperationTypes DEF IInv
<1>5. /\ operation'[o].requestHash = operation[o].requestHash /\ operation'[o].ws = {w}
      /\ \A n \in Operation \ {o} : operation'[n] = operation[n]
  BY <1>2, <1>4 DEF Completed, Row, IInv, TypeOK
<1>6. PhaseOf(o) = "open" /\ operation[o].ws = {}
  BY <1>1, LedIsContractOpen
<1>7. \A q \in Request, n \in Operation \ {o} : FailedBy(q, n)' <=> FailedBy(q, n)
  BY <1>1, <1>3 DEF FailedBy
<1>8. \A n \in Operation \ {o} : operation'[n] = operation[n] /\ PhaseOf(n)' = PhaseOf(n)
  BY <1>5, <1>7 DEF PhaseOf
<1>9. PhaseOf(o)' = "launched"
  BY <1>5 DEF PhaseOf
<1>10. OutcomeView[o].phase = "open"
  BY <1>6, OutcomeOf
<1>11. \A other \in Operation : w \notin OutcomeView[other].ws
  <2> SUFFICES ASSUME NEW other \in Operation PROVE w \notin operation[other].ws
    BY OutcomeOf
  <2>1. operation[other].ws \in AtMostOne(Workspace)
    BY OperationTypes DEF IInv
  <2> QED
    BY <1>2, <1>6, <2>1 DEF AtMostOne
<1> DEFINE x == [OutcomeView[o] EXCEPT !.phase = "launched", !.ws = {w}]
<1>12. x = [phase |-> PhaseOf(o)', payload |-> operation'[o].requestHash, ws |-> operation'[o].ws]
  <2> DEFINE R == [phase : {PhaseOf(o), "launched"}, payload : {operation[o].requestHash},
                   ws : {operation[o].ws, {w}}]
  <2>1. OutcomeView[o] \in R /\ OutcomeView[o].payload = operation[o].requestHash
    BY OutcomeOf
  <2>2. /\ x \in R /\ x.phase = "launched" /\ x.payload = operation[o].requestHash
        /\ x.ws = {w}
    BY <2>1
  <2> HIDE DEF x
  <2>3. x = [phase |-> "launched", payload |-> operation[o].requestHash, ws |-> {w}]
    BY <2>2
  <2> QED
    BY <1>5, <1>9, <2>3
<1> HIDE DEF x
<1>13. OutcomeView' = [OutcomeView EXCEPT ![o] = x]
  BY <1>8, <1>12, OutcomeMoves
<1>14. LaunchedView' = LaunchedView /\ RefusedView' = RefusedView
  BY <1>1, <1>3, AnswersStay
<1>15. Contract!Launch(o, w)
  BY <1>10, <1>11, <1>13, <1>14 DEF Contract!Launch, x
<1> QED
  BY <1>15

\* Whoever is told of a launch is told of the one its operation has, and has
\* asked for its payload.
LEMMA ContractAnswerLaunched ==
  ASSUME IInv, TypeOK', NEW r \in Request, NEW o \in Operation, req[r].op = {o}, req[r].reply = "none",
         operation[o].requestHash = req[r].hash, req[r].hash # {}, operation[o].ws # {},
         operation' = operation, AnswerWorkspace(r, operation[o].ws)
  PROVE  Contract!AnswerLaunched(r, o)
<1>1. /\ req'[r].pc = req[r].pc /\ req'[r].op = {o} /\ req'[r].hash = req[r].hash
      /\ req'[r].ws = operation[o].ws /\ req'[r].reply = "launched"
      /\ \A q \in Request \ {r} : req'[q] = req[q]
  BY DEF IInv, TypeOK, RequestState, AnswerWorkspace
<1>2. PICK p \in Payload : req[r].hash = {p}
  <2>1. req[r].hash \in AtMostOne(Payload)
    BY DEF IInv, TypeOK, RequestState
  <2> QED
    BY <2>1 DEF AtMostOne
<1>3. PICK w \in Workspace : operation[o].ws = {w}
  BY OperationTypes DEF IInv, AtMostOne
<1>4. OutcomeView' = OutcomeView
  BY <1>1, OutcomeStays DEF FailedBy
<1>5. RefusedView' = RefusedView
  BY <1>1 DEF RefusedView, Replied
<1>6. LaunchedView' = LaunchedView \cup {<<r, o, p, w>>}
  BY <1>1, <1>2, <1>3 DEF LaunchedView, Replied
<1>7. Contract!Unanswered(r)
  BY DEF Contract!Unanswered, LaunchedView, RefusedView, Replied
<1>8. p \in OutcomeView[o].payload /\ w \in OutcomeView[o].ws
  BY <1>2, <1>3, OutcomeOf
<1> QED
  BY <1>4, <1>5, <1>6, <1>7, <1>8 DEF Contract!AnswerLaunched

\* Whoever is refused, is because its operation has failed.
LEMMA ContractAnswerFailed ==
  ASSUME IInv, NEW r \in Request, NEW o \in Operation, req[r].op = {o}, req[r].reply = "none",
         PhaseOf(o) = "failed", OutcomeView' = OutcomeView, Answer(r, "failed")
  PROVE  Contract!AnswerFailed(r, o)
<1>1. /\ req'[r].op = {o} /\ req'[r].reply = "failed"
      /\ \A q \in Request \ {r} : req'[q] = req[q]
  BY DEF IInv, TypeOK, RequestState, Answer
<1>2. LaunchedView' = LaunchedView
  BY <1>1 DEF LaunchedView, Replied
<1>3. RefusedView' = RefusedView \cup {<<r, o>>}
  BY <1>1 DEF RefusedView, Replied
<1>4. Contract!Unanswered(r)
  BY DEF Contract!Unanswered, LaunchedView, RefusedView, Replied
<1>5. OutcomeView[o].phase = "failed"
  BY OutcomeOf
<1> QED
  BY <1>2, <1>3, <1>4, <1>5 DEF Contract!AnswerFailed

\* Whose recording was cut off is the first to be told of a failure.
LEMMA ContractAnswerCutOff ==
  ASSUME IInv, NEW r \in Request, NEW o \in Operation, req[r].op = {o}, req[r].reply = "none",
         \A q \in Request : ~(req[q].reply = "failed" /\ o \in req[q].op),
         PhaseOf(o) = "launched", OutcomeView' = OutcomeView, Answer(r, "failed")
  PROVE  Contract!AnswerCutOff(r, o)
<1>1. /\ req'[r].op = {o} /\ req'[r].reply = "failed"
      /\ \A q \in Request \ {r} : req'[q] = req[q]
  BY DEF IInv, TypeOK, RequestState, Answer
<1>2. LaunchedView' = LaunchedView
  BY <1>1 DEF LaunchedView, Replied
<1>3. RefusedView' = RefusedView \cup {<<r, o>>}
  BY <1>1 DEF RefusedView, Replied
<1>4. Contract!Unanswered(r) /\ \A a \in RefusedView : a[2] # o
  BY DEF Contract!Unanswered, LaunchedView, RefusedView, Replied
<1>5. OutcomeView[o].phase = "launched"
  BY OutcomeOf
<1> QED
  BY <1>2, <1>3, <1>4, <1>5 DEF Contract!AnswerCutOff

\* The contract sees nothing of a request that moves without failing.
LEMMA ContractStays ==
  ASSUME IInv, NEW r \in Request, NEW x, req' = [req EXCEPT ![r] = x],
         req[r].reply = "none", x.reply \notin {"launched", "failed"},
         \/ x.pc # "fail" /\ req[r].pc # "fail"
         \/ x.pc = req[r].pc /\ x.op = req[r].op,
         operation' = operation
  PROVE  UNCHANGED <<OutcomeView, LaunchedView, RefusedView>>
<1>1. req'[r] = x /\ \A q \in Request \ {r} : req'[q] = req[q]
  BY DEF IInv, TypeOK
<1>2. \A q \in Request, n \in Operation : FailedBy(q, n)' <=> FailedBy(q, n)
  BY <1>1 DEF FailedBy
<1> QED
  BY <1>1, <1>2, OutcomeStays, AnswersStay

\* Nor of one that goes elsewhere.
LEMMA GotoStays ==
  ASSUME IInv, NEW r \in Request, NEW pc, Goto(r, pc), pc # "fail", req[r].pc # "fail",
         req[r].reply = "none", operation' = operation
  PROVE  UNCHANGED <<OutcomeView, LaunchedView, RefusedView>>
<1> DEFINE x == [req[r] EXCEPT !.pc = pc]
<1>1. x.pc = pc /\ x.reply = "none" /\ req' = [req EXCEPT ![r] = x]
  BY DEF Goto, IInv, TypeOK, RequestState
<1> HIDE DEF x
<1>2. \/ x.pc # "fail" /\ req[r].pc # "fail"
      \/ x.pc = req[r].pc /\ x.op = req[r].op
  BY <1>1
<1> QED
  BY <1>1, <1>2, ContractStays

\* The contract sees nothing of an answer that is neither of its two.
LEMMA AnswerStays ==
  ASSUME IInv, NEW r \in Request, NEW a, Answer(r, a), a \notin {"launched", "failed"},
         req[r].reply = "none", operation' = operation
  PROVE  UNCHANGED <<OutcomeView, LaunchedView, RefusedView>>
<1> DEFINE x == [req[r] EXCEPT !.reply = a]
<1>1. x.pc = req[r].pc /\ x.op = req[r].op /\ x.reply = a /\ req' = [req EXCEPT ![r] = x]
  BY DEF Answer, IInv, TypeOK, RequestState
<1> HIDE DEF x
<1>2. \/ x.pc # "fail" /\ req[r].pc # "fail"
      \/ x.pc = req[r].pc /\ x.op = req[r].op
  BY <1>1
<1> QED
  BY <1>1, <1>2, ContractStays

\* A failed operation without a workspace has failed to the contract.
LEMMA FailedToContract ==
  ASSUME IInv, NEW o \in Operation, operation[o].status = "FAILED", operation[o].ws = {}
  PROVE  PhaseOf(o) = "failed"
<1>1. PICK q \in Request : Leads(q, o) /\ req[q].pc = "fail"
  BY DEF IInv, Inv, FailedIsLed
<1> QED
  BY <1>1 DEF PhaseOf, FailedBy, Leads

\* An answer without a step of the operation leaves its outcome.
LEMMA AnswerKeepsOutcome ==
  ASSUME IInv, NEW r \in Request, NEW a, Answer(r, a), operation' = operation
  PROVE  OutcomeView' = OutcomeView
<1>1. /\ req'[r].pc = req[r].pc /\ req'[r].op = req[r].op
      /\ \A q \in Request \ {r} : req'[q] = req[q]
  BY DEF Answer, IInv, TypeOK, RequestState
<1>2. \A q \in Request, n \in Operation : FailedBy(q, n)' <=> FailedBy(q, n)
  BY <1>1 DEF FailedBy
<1> QED
  BY <1>2, OutcomeStays

ContractStep == [Contract!ContractNext]_<<OutcomeView, LaunchedView, RefusedView>>

\* The steps of requests that wait.
LEMMA StepWait ==
  ASSUME IInv, TypeOK', NEW r \in Request, NEW o \in Operation,
         Lookup(r, o) \/ Poll(r, o) \/ PollTimeout(r, o) \/ CreateOperation(r, o)
  PROVE  ContractStep
<1>1. o \in req[r].op /\ req[r].op = {o} /\ req[r].pc \in Waits /\ req[r].reply = "none"
  BY AboutOne DEF Lookup, Poll, PollTimeout, CreateOperation, At, Waits, IInv
<1>2. req[r].hash # {} /\ req[r].pc # "fail"
  BY <1>1 DEF IInv, Inv, HasPayload, Waits
<1>3. ASSUME operation' = operation, operation[o].requestHash = req[r].hash, operation[o].ws # {},
             AnswerWorkspace(r, operation[o].ws)
      PROVE  ContractStep
  BY <1>1, <1>2, <1>3, ContractAnswerLaunched DEF ContractStep, Contract!ContractNext
<1>4. ASSUME operation' = operation, operation[o].status = "FAILED", operation[o].ws = {},
             Answer(r, "failed")
      PROVE  ContractStep
  <2>1. PhaseOf(o) = "failed" /\ OutcomeView' = OutcomeView
    BY <1>4, FailedToContract, AnswerKeepsOutcome
  <2>2. Contract!AnswerFailed(r, o)
    BY <1>1, <1>4, <2>1, ContractAnswerFailed
  <2> QED
    BY <2>2 DEF ContractStep, Contract!ContractNext
<1>5. ASSUME operation' = operation, NEW pc \in Waits, Goto(r, pc) PROVE ContractStep
  BY <1>1, <1>2, <1>5, GotoStays DEF ContractStep, Waits
<1>6. ASSUME operation' = operation, NEW a \in {"conflict", "in_progress"}, Answer(r, a) PROVE ContractStep
  BY <1>1, <1>6, AnswerStays DEF ContractStep
<1>7. CASE Poll(r, o)
  <2>1. operation' = operation /\ operation[o].requestHash = req[r].hash
    BY <1>1, <1>7 DEF Poll, At, IInv, Inv, SamePayload
  <2> QED
    BY <1>3, <1>4, <1>7, <2>1 DEF Poll
<1>8. CASE PollTimeout(r, o)
  BY <1>6, <1>8 DEF PollTimeout
<1>9. CASE CreateOperation(r, o)
  <2>1. CASE operation[o].status = "none"
    BY <1>9, <2>1, ContractBegin DEF ContractStep, Contract!ContractNext
  <2>2. CASE operation[o].status # "none"
    BY <1>5, <1>9, <2>2 DEF CreateOperation, Waits
  <2> QED
    BY <2>1, <2>2
<1>10. CASE Lookup(r, o)
  <2>1. operation' = operation
    BY <1>10 DEF Lookup
  <2>2. \/ Goto(r, "create") \/ Answer(r, "conflict") \/ Goto(r, "poll")
        \/ AnswerWorkspace(r, operation[o].ws) /\ operation[o].requestHash = req[r].hash /\ operation[o].ws # {}
        \/ Answer(r, "failed") /\ operation[o].status = "FAILED" /\ operation[o].ws = {}
    BY <1>10, Zenon DEF Lookup
  <2> QED
    BY <1>3, <1>4, <1>5, <1>6, <2>1, <2>2 DEF Waits
<1> QED
  BY <1>7, <1>8, <1>9, <1>10

\* The steps of the request that leads: it fails, launches, or goes on.
LEMMA StepLead ==
  ASSUME IInv, TypeOK', NEW r \in Request, NEW o \in Operation,
         \/ CheckQuota(r, o) \/ FindWarmWorkspace(r, o) \/ ReadWarmWorkspace(r, o)
         \/ AssignWarmWorkspace(r, o) \/ AllocateGatewayPorts(r, o)
         \/ StartUsageSession(r, o) \/ SessionExists(r, o) \/ CreateColdWorkspace(r, o)
         \/ CompleteOperation(r, o) \/ RecordingCutOff(r, o)
  PROVE  ContractStep
<1>1. /\ o \in req[r].op /\ req[r].reply = "none"
      /\ req[r].pc \in LeadPC \ {"answer", "fail"}
  BY DEF CheckQuota, FindWarmWorkspace, ReadWarmWorkspace, AssignWarmWorkspace,
         AllocateGatewayPorts, StartUsageSession, SessionExists, CreateColdWorkspace,
         CompleteOperation, RecordingCutOff, At, LeadPC, PC, Waits
<1>2. Leads(r, o) /\ req[r].pc \notin {"answer", "fail"}
  BY <1>1 DEF Leads, LeadPC, Waits
<1>3. CASE (CompleteOperation(r, o) \/ RecordingCutOff(r, o)) /\ operation' # operation
  <2>1. /\ At(r, "complete", o) /\ Completed(o, req[r].ws)
        /\ \A other \in Operation \ {o} : operation[other].ws # req[r].ws
        /\ \E pc \in {"answer", "fail"} : Goto(r, pc)
    BY <1>3 DEF CompleteOperation, RecordingCutOff
  <2> QED
    BY <2>1, ContractLaunch DEF ContractStep, Contract!ContractNext
<1>4. CASE operation' = operation /\ Goto(r, "fail")
  BY <1>1, <1>2, <1>4, ContractFail DEF ContractStep, Contract!ContractNext
<1>5. ASSUME operation' = operation, NEW pc, pc # "fail", Goto(r, pc) PROVE ContractStep
  BY <1>1, <1>2, <1>5, GotoStays DEF ContractStep
<1>6. ASSUME operation' = operation, NEW pc, NEW w, pc # "fail",
             req' = [req EXCEPT ![r] = [@ EXCEPT !.pc = pc, !.ws = {w}]]
      PROVE  ContractStep
  <2> DEFINE x == [req[r] EXCEPT !.pc = pc, !.ws = {w}]
  <2>1. x.pc = pc /\ x.reply = "none" /\ req' = [req EXCEPT ![r] = x]
    BY <1>1, <1>6 DEF IInv, TypeOK, RequestState
  <2> HIDE DEF x
  <2>2. \/ x.pc # "fail" /\ req[r].pc # "fail"
        \/ x.pc = req[r].pc /\ x.op = req[r].op
    BY <1>2, <1>6, <2>1
  <2> QED
    BY <1>1, <1>6, <2>1, <2>2, ContractStays DEF ContractStep
<1>7. operation' = operation \/ CompleteOperation(r, o) \/ RecordingCutOff(r, o)
  BY DEF CheckQuota, FindWarmWorkspace, ReadWarmWorkspace, AssignWarmWorkspace,
         AllocateGatewayPorts, StartUsageSession, SessionExists, CreateColdWorkspace
<1>8. CASE (CompleteOperation(r, o) \/ RecordingCutOff(r, o)) /\ operation' = operation
  BY <1>4, <1>5, <1>8 DEF CompleteOperation, RecordingCutOff
<1>9. CASE operation' = operation /\ ~CompleteOperation(r, o) /\ ~RecordingCutOff(r, o)
  <2>1. \/ \E pc : Goto(r, pc)
        \/ \E pc, w : pc # "fail" /\ req' = [req EXCEPT ![r] = [@ EXCEPT !.pc = pc, !.ws = {w}]]
    <3>1. CASE FindWarmWorkspace(r, o)
      <4>1. "read" # "fail"
        OBVIOUS
      <4> QED
        BY <3>1, <4>1 DEF FindWarmWorkspace
    <3>2. CASE CreateColdWorkspace(r, o)
      <4>1. "complete" # "fail"
        OBVIOUS
      <4> QED
        BY <3>2, <4>1 DEF CreateColdWorkspace
    <3>3. CASE \/ CheckQuota(r, o) \/ ReadWarmWorkspace(r, o) \/ AssignWarmWorkspace(r, o)
               \/ AllocateGatewayPorts(r, o) \/ StartUsageSession(r, o) \/ SessionExists(r, o)
      BY <3>3 DEF CheckQuota, ReadWarmWorkspace, AssignWarmWorkspace, AllocateGatewayPorts,
                  StartUsageSession, SessionExists
    <3> QED
      BY <1>9, <3>1, <3>2, <3>3
  <2> QED
    BY <1>4, <1>5, <1>6, <1>9, <2>1
<1> QED
  BY <1>3, <1>7, <1>8, <1>9

\* The leader answers: with its workspace, or that it has failed.
LEMMA StepAnswer ==
  ASSUME IInv, RefusedIsFailed, TypeOK', NEW r \in Request, NEW o \in Operation,
         AnswerLaunch(r, o) \/ FailOperation(r, o)
  PROVE  ContractStep
<1>1. /\ o \in req[r].op /\ req[r].op = {o} /\ req[r].reply = "none" /\ Leads(r, o)
      /\ req[r] \in RequestState
  BY AboutOne DEF AnswerLaunch, FailOperation, At, Leads, IInv, TypeOK
<1>2. CASE AnswerLaunch(r, o)
  <2>1. req[r].pc = "answer" /\ operation' = operation /\ Answer(r, "launched")
    BY <1>2 DEF AnswerLaunch, At
  <2>2. operation[o].ws = req[r].ws /\ operation[o].ws # {}
    BY <1>1, <2>1 DEF IInv, Inv, Recorded, HoldsWorkspace, HoldsPC
  <2>3. operation[o].requestHash = req[r].hash /\ req[r].hash # {}
    BY <1>1, <2>1 DEF IInv, Inv, SamePayload, HasPayload
  <2>4. [req[r] EXCEPT !.reply = "launched"] = [req[r] EXCEPT !.reply = "launched", !.ws = operation[o].ws]
    BY <1>1, <2>2 DEF RequestState
  <2>5. AnswerWorkspace(r, operation[o].ws)
    BY <2>1, <2>4 DEF Answer, AnswerWorkspace, IInv, TypeOK
  <2> QED
    BY <1>1, <2>1, <2>2, <2>3, <2>5, ContractAnswerLaunched DEF ContractStep, Contract!ContractNext
<1>3. CASE FailOperation(r, o)
  <2>1. req[r].pc = "fail" /\ Answer(r, "failed")
    BY <1>3 DEF FailOperation, At
  <2>2. operation[o] \in Row
    BY <1>1, <2>1, OperationTypes DEF IInv
  <2>3. /\ operation'[o].requestHash = operation[o].requestHash
        /\ operation'[o].ws = operation[o].ws
        /\ \A n \in Operation \ {o} : operation'[n] = operation[n]
    BY <1>3, <2>2 DEF FailOperation, IInv, TypeOK, Row
  <2>4. /\ req'[r].pc = "fail" /\ req'[r].op = {o}
        /\ \A q \in Request \ {r} : req'[q] = req[q]
    BY <1>1, <2>1 DEF Answer, IInv, TypeOK, RequestState
  <2>5. \A q \in Request, n \in Operation : FailedBy(q, n)' <=> FailedBy(q, n)
    BY <1>1, <2>1, <2>4 DEF FailedBy
  <2>6. FailedBy(r, o)
    BY <1>1, <2>1 DEF FailedBy
  <2>7. PhaseOf(o) = (IF operation[o].ws = {} THEN "failed" ELSE "launched") /\ PhaseOf(o)' = PhaseOf(o)
    BY <2>2, <2>3, <2>5, <2>6 DEF PhaseOf
  <2>8. \A n \in Operation \ {o} : operation'[n] = operation[n] /\ PhaseOf(n)' = PhaseOf(n)
    BY <2>3, <2>5 DEF PhaseOf
  <2> DEFINE x == [phase |-> PhaseOf(o), payload |-> operation[o].requestHash, ws |-> operation[o].ws]
  <2>9. x = [phase |-> PhaseOf(o)', payload |-> operation'[o].requestHash, ws |-> operation'[o].ws]
    BY <2>3, <2>7
  <2>10. OutcomeView[o] = x
    BY OutcomeOf
  <2> HIDE DEF x
  <2>11. OutcomeView' = [OutcomeView EXCEPT ![o] = x]
    BY <2>8, <2>9, OutcomeMoves
  <2>12. OutcomeView' = OutcomeView
    BY <2>10, <2>11, OutcomeOf
  <2>13. CASE operation[o].ws = {}
    <3>1. Contract!AnswerFailed(r, o)
      BY <1>1, <2>1, <2>7, <2>12, <2>13, ContractAnswerFailed
    <3> QED
      BY <3>1 DEF ContractStep, Contract!ContractNext
  <2>14. CASE operation[o].ws # {}
    <3>1. \A q \in Request : ~(req[q].reply = "failed" /\ o \in req[q].op)
      BY <1>1, <2>14 DEF RefusedIsFailed, IInv, Inv, OneLeader
    <3>2. Contract!AnswerCutOff(r, o)
      BY <1>1, <2>1, <2>7, <2>12, <2>14, <3>1, ContractAnswerCutOff
    <3> QED
      BY <3>2 DEF ContractStep, Contract!ContractNext
  <2> QED
    BY <2>13, <2>14
<1> QED
  BY <1>2, <1>3

\* Every step is one of the contract or changes nothing it sees.
LEMMA ContractStepped == IInv /\ RefusedIsFailed /\ IInv' /\ [Next]_vars => ContractStep
<1> SUFFICES ASSUME IInv, RefusedIsFailed, IInv', [Next]_vars PROVE ContractStep
  OBVIOUS
<1>1. ASSUME NEW r \in Request, Serve(r) PROVE ContractStep
  <2>1. PICK o \in Operation :
          \/ Lookup(r, o) \/ CreateOperation(r, o) \/ Poll(r, o) \/ PollTimeout(r, o)
          \/ CheckQuota(r, o) \/ FindWarmWorkspace(r, o) \/ ReadWarmWorkspace(r, o)
          \/ AssignWarmWorkspace(r, o) \/ AllocateGatewayPorts(r, o)
          \/ StartUsageSession(r, o) \/ SessionExists(r, o) \/ CreateColdWorkspace(r, o)
          \/ CompleteOperation(r, o) \/ RecordingCutOff(r, o) \/ AnswerLaunch(r, o)
          \/ FailOperation(r, o)
    BY <1>1 DEF Serve
  <2>2. TypeOK'
    BY DEF IInv
  <2> QED
    BY <2>1, <2>2, StepWait, StepLead, StepAnswer
<1>2. ASSUME NEW r \in Request, Arrive(r) PROVE ContractStep
  <2>1. PICK o \in Operation, p \in Payload :
          req' = [req EXCEPT ![r] = [@ EXCEPT !.pc = "lookup", !.op = {o}, !.hash = {p}]]
    BY <1>2 DEF Arrive
  <2> DEFINE x == [req[r] EXCEPT !.pc = "lookup", !.op = {o}, !.hash = {p}]
  <2>2. x.pc = "lookup" /\ x.reply = "none" /\ req' = [req EXCEPT ![r] = x]
    BY <1>2, <2>1, ZenonT(30) DEF Arrive, IInv, TypeOK, RequestState
  <2> HIDE DEF x
  <2>3. operation' = operation /\ req[r].reply = "none" /\ req[r].pc = "new"
    BY <1>2 DEF Arrive
  <2>4. \/ x.pc # "fail" /\ req[r].pc # "fail"
        \/ x.pc = req[r].pc /\ x.op = req[r].op
    BY <2>2, <2>3
  <2> QED
    BY <2>2, <2>3, <2>4, ContractStays DEF ContractStep
<1>3. ASSUME NEW r \in Request, RequestLost(r) PROVE ContractStep
  <2>1. Answer(r, "lost") /\ req[r].reply = "none" /\ operation' = operation
    BY <1>3 DEF RequestLost
  <2> QED
    BY <2>1, AnswerStays DEF ContractStep
<1>4. CASE Worker \/ UNCHANGED vars
  <2>1. operation' = operation /\ req' = req
    BY <1>4 DEF Worker, RunFindsWarm, RunClaimsWarm, ListExtra, MarkExtra, EndExtra,
                EndWorkspace, vars
  <2>2. OutcomeView' = OutcomeView
    BY <2>1, OutcomeStays DEF FailedBy
  <2>3. LaunchedView' = LaunchedView /\ RefusedView' = RefusedView
    BY <2>1 DEF LaunchedView, RefusedView, Replied
  <2> QED
    BY <2>2, <2>3 DEF ContractStep
<1> QED
  BY <1>1, <1>2, <1>3, <1>4, StepKinds

\* A launch is idempotent: every request of a key is answered with the one,
\* final outcome of its operation, whatever is lost or repeated.
THEOREM LaunchIsAContract == Spec => ImplementsContract
<1>1. Init => Contract!ContractInit
  BY ContractInitially
<1>2. IInv /\ RefusedIsFailed /\ IInv' /\ [Next]_vars
        => [Contract!ContractNext]_<<OutcomeView, LaunchedView, RefusedView>>
  BY ContractStepped DEF ContractStep
<1> QED
  BY <1>1, <1>2, RefusedInvariant, PTL DEF Spec, ImplementsContract, Contract!ContractSpec, Contract!contractVars
=============================================================================
