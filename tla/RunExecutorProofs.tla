---------------------------- MODULE RunExecutorProofs ----------------------------
(***************************************************************************)
(* Proofs about the run executor: its state stays well typed, no two runs  *)
(* ever have one workspace, and a run is marked as reported only when      *)
(* Stripe has its charge, for any number of runs, workspaces and passes    *)
(* that overlap.                                                           *)
(***************************************************************************)
EXTENDS RunExecutor, TLAPS

-----------------------------------------------------------------------------
(* What a pass goes on with.                                               *)

\* A pass that has done its first step has steps left to do, or is idle.
LEMMA DoneType ==
  ASSUME pass \in [Passes -> Work], NEW p \in Passes, pass[p].todo # <<>>, Done(p)
  PROVE  pass' \in [Passes -> Work]
  <1>1. pass[p] \in Work OBVIOUS
  <1>2. Tail(pass[p].todo) \in Seq(Steps) BY <1>1 DEF Work
  <1>3. [pass[p] EXCEPT !.todo = Tail(pass[p].todo)] \in Work BY <1>1, <1>2 DEF Work
  <1>4. Idle \in Work BY DEF Idle, Work, Copy, NoCopy
  <1>5. QED BY <1>3, <1>4 DEF Done

\* A pass that goes on with a list of steps.
LEMMA GotoType ==
  ASSUME pass \in [Passes -> Work], NEW p \in Passes, NEW todo \in Seq(Steps), Goto(p, todo)
  PROVE  pass' \in [Passes -> Work]
  <1>1. pass[p] \in Work OBVIOUS
  <1>2. [pass[p] EXCEPT !.todo = todo] \in Work BY <1>1 DEF Work
  <1>3. Idle \in Work BY DEF Idle, Work, Copy, NoCopy
  <1>4. QED BY <1>2, <1>3 DEF Goto

\* The lists of steps the executor goes on with.
LEMMA StepLists ==
  /\ <<>> \in Seq(Steps) /\ Report \in Seq(Steps)
  /\ \A s \in Steps : <<s>> \in Seq(Steps)
  /\ <<"timed_out">> \o <<"cleanup">> \o Report \in Seq(Steps)
  /\ <<"fail">> \o <<"cleanup">> \o Report \in Seq(Steps)
  /\ <<"finalize">> \o Report \o <<"release">> \in Seq(Steps)
  <1>1. \A s \in Steps : <<s>> \in Seq(Steps) OBVIOUS
  <1>2. Report \in Seq(Steps) BY DEF Report, Steps
  <1>3. {"timed_out", "cleanup", "fail", "finalize", "release"} \subseteq Steps BY DEF Steps
  <1>4. \A s, t \in Seq(Steps) : s \o t \in Seq(Steps) OBVIOUS
  <1>5. <<"timed_out">> \o <<"cleanup">> \in Seq(Steps) /\ <<"fail">> \o <<"cleanup">> \in Seq(Steps)
        /\ <<"finalize">> \o Report \in Seq(Steps) /\ <<"release">> \in Seq(Steps)
    BY <1>1, <1>2, <1>3, <1>4
  <1>6. QED BY <1>1, <1>2, <1>4, <1>5

\* What a row copies to the pass that has listed it.
LEMMA CopyType ==
  ASSUME NEW row \in Row
  PROVE  CopyOf(row) \in Copy
  BY DEF Row, CopyOf, Copy

-----------------------------------------------------------------------------
(* The types, and who holds a workspace.                                   *)

\* A workspace that a run holds exists.
HeldIsThere == \A r \in Runs : \A w \in run[r].space : ws[w] # "ABSENT"

SpaceInv == TypeOK /\ SpacesNotShared /\ HeldIsThere

\* The types hold at first, and nobody holds a workspace.
LEMMA SpaceInvInitially == Init => SpaceInv
  <1> SUFFICES ASSUME Init PROVE SpaceInv
    OBVIOUS
  <1>1. NoRow \in Row BY DEF NoRow, Row, Statuses
  <1>2. Idle \in Work BY StepLists DEF Idle, Work, Copy, NoCopy
  <1>p. PICK pool \in SUBSET Warm :
          /\ ws = [w \in Spaces |-> IF w \in pool THEN "WARM_AVAILABLE" ELSE "ABSENT"]
          /\ ip \in SUBSET pool
    BY DEF Init
  <1>s. ws \in [Spaces -> SpaceStatuses] /\ ip \in SUBSET Spaces
    BY <1>p, WarmAssumption DEF SpaceStatuses
  <1>3. TypeOK
    BY <1>1, <1>2, <1>s, FaultAssumption DEF Init, TypeOK, NoPost, NoCancel, Reports
  <1>4. SpacesNotShared /\ HeldIsThere BY DEF Init, NoRow, SpacesNotShared, HeldIsThere
  <1>5. QED BY <1>3, <1>4 DEF SpaceInv

\* A step that moves no workspace between runs, and unmakes none, keeps the invariant.
LEMMA SpacesKept ==
  ASSUME SpaceInv, TypeOK',
         \A r \in Runs : run'[r].space = run[r].space,
         \A w \in Spaces : ws'[w] = "ABSENT" => ws[w] = "ABSENT"
  PROVE  SpaceInv'
  <1>1. \A r \in Runs : run[r].space \subseteq Spaces BY DEF SpaceInv, TypeOK, Row
  <1>2. SpacesNotShared' BY DEF SpaceInv, SpacesNotShared
  <1>3. HeldIsThere' BY <1>1 DEF SpaceInv, HeldIsThere
  <1>4. QED BY <1>2, <1>3 DEF SpaceInv

\* A step that gives one run a workspace no other run holds.
LEMMA SpaceGiven ==
  ASSUME SpaceInv, TypeOK', NEW r \in Runs, NEW given \in SUBSET Spaces,
         run'[r].space = given,
         \A q \in Runs \ {r} : run'[q].space = run[q].space /\ run[q].space \cap given = {},
         \A w \in given : ws'[w] # "ABSENT",
         \A w \in Spaces : ws'[w] = "ABSENT" => ws[w] = "ABSENT"
  PROVE  SpaceInv'
  <1>1. \A q \in Runs : run[q].space \subseteq Spaces BY DEF SpaceInv, TypeOK, Row
  <1>2. SpacesNotShared' BY DEF SpaceInv, SpacesNotShared
  <1>3. HeldIsThere' BY <1>1 DEF SpaceInv, HeldIsThere
  <1>4. QED BY <1>2, <1>3 DEF SpaceInv

-----------------------------------------------------------------------------
(* The API, the agent and its events.                                      *)

\* What the API and the agent do keeps the invariant.
LEMMA RequestsKeep ==
  ASSUME SpaceInv, NEW r \in Runs, Api(r) \/ Agent(r) \/ Events(r) \/ GoOverdue(r) \/ LoseRequests(r)
  PROVE  SpaceInv'
  <1>t. TypeOK BY DEF SpaceInv
  <1>u. /\ run \in [Runs -> Row] /\ ws \in [Spaces -> SpaceStatuses]
    BY <1>t DEF TypeOK
  <1>a. ASSUME TypeOK', UNCHANGED ws, \A q \in Runs : run'[q].space = run[q].space PROVE SpaceInv'
    BY <1>a, SpacesKept
  <1>1. CASE PassLimits(r)
    <2>1. TypeOK' BY <1>1, <1>t DEF PassLimits, TypeOK
    <2>2. QED BY <1>1, <2>1, <1>a DEF PassLimits
  <1>2. CASE CreateRun(r)
    <2>1. run' \in [Runs -> Row] /\ \A q \in Runs : run'[q].space = run[q].space
      BY <1>2, <1>u DEF CreateRun, Row, Statuses
    <2>2. TypeOK' BY <1>2, <1>t, <2>1 DEF CreateRun, TypeOK
    <2>3. QED BY <1>2, <2>1, <2>2, <1>a DEF CreateRun
  <1>3. CASE ReadCancel(r)
    <2>1. run[r].space \in SUBSET Spaces BY <1>u DEF Row
    <2>2. TypeOK' BY <1>3, <1>t, <2>1 DEF ReadCancel, TypeOK
    <2>3. QED BY <1>3, <2>2, <1>a DEF ReadCancel
  <1>4. CASE WriteCancel(r)
    <2>1. run' \in [Runs -> Row] /\ \A q \in Runs : run'[q].space = run[q].space
      BY <1>4, <1>u DEF WriteCancel, Row, Statuses, Final
    <2>2. cancel' \in [Runs -> [at : {"none", "write", "deprovision"}, space : SUBSET Spaces]]
      BY <1>4, <1>t DEF WriteCancel, TypeOK, NoCancel
    <2>3. TypeOK' BY <1>4, <1>t, <2>1, <2>2 DEF WriteCancel, TypeOK
    <2>4. QED BY <1>4, <2>1, <2>3, <1>a DEF WriteCancel
  <1>5. CASE Deprovision(r)
    <2>1. TypeOK' BY <1>5, <1>t DEF Deprovision, TypeOK, NoCancel
    <2>2. QED BY <1>5, <2>1, <1>a DEF Deprovision
  <1>6. CASE StartAgent(r)
    <2>1. TypeOK' BY <1>6, <1>t DEF StartAgent, TypeOK, Reports
    <2>2. QED BY <1>6, <2>1, <1>a DEF StartAgent
  <1>7. CASE LoseAgent(r)
    <2>1. TypeOK' BY <1>7, <1>t DEF LoseAgent, TypeOK
    <2>2. QED BY <1>7, <2>1, <1>a DEF LoseAgent
  <1> DEFINE Posts == [at : {"none", "read", "write", "charge", "mark"}, state : Reports, started : BOOLEAN]
  <1>p. post \in [Runs -> Posts] /\ NoPost \in Posts BY <1>t DEF TypeOK, NoPost, Reports
  <1>8. CASE PostStatus(r)
    <2>1. [NoPost EXCEPT !.at = "read", !.state = agent[r]] \in Posts
      BY <1>8, <1>p DEF PostStatus
    <2>2. post' \in [Runs -> Posts] BY <1>8, <1>p, <2>1 DEF PostStatus
    <2>3. TypeOK' BY <1>8, <1>t, <2>2 DEF PostStatus, TypeOK
    <2>4. QED BY <1>8, <2>3, <1>a DEF PostStatus
  <1>n. \A s \in Reports : NextReports(s) \subseteq Reports \cup {"gone"}
    BY Zenon DEF NextReports, Reports
  <1>9. CASE ReadStatus(r)
    <2>1. run[r].started \in BOOLEAN BY <1>u DEF Row
    <2>2. post' \in [Runs -> Posts] /\ agent' \in [Runs -> Reports \cup {"none", "gone"}]
      <3>1. CASE <<run[r].status, post[r].state>> \in ValidTransitions
        <4>1. post' = [post EXCEPT ![r].at = "write", ![r].started = run[r].started] /\ UNCHANGED agent
          BY <1>9, <3>1 DEF ReadStatus
        <4>2. QED BY <4>1, <1>p, <2>1, <1>t DEF TypeOK
      <3>2. CASE <<run[r].status, post[r].state>> \notin ValidTransitions
        <4>1. post[r].state \in Reports BY <1>p
        <4>2. PICK s \in NextReports(post[r].state) :
                agent' = [agent EXCEPT ![r] = IF @ = "gone" THEN @ ELSE s]
          BY <1>9, <3>2 DEF ReadStatus
        <4>3. s \in Reports \cup {"gone"} BY <4>1, <4>2, <1>n
        <4>4. post' = [post EXCEPT ![r] = NoPost] BY <1>9, <3>2 DEF ReadStatus
        <4>5. QED BY <4>2, <4>3, <4>4, <1>p, <1>t DEF TypeOK
      <3>3. QED BY <3>1, <3>2
    <2>3. TypeOK' BY <1>9, <1>t, <2>2 DEF ReadStatus, TypeOK
    <2>4. QED BY <1>9, <2>3, <1>a DEF ReadStatus
  <1>10. CASE WriteStatus(r)
    <2> DEFINE s == post[r].state
    <2>1. s \in Reports BY <1>p
    <2>2. run' = [run EXCEPT
            ![r].status = s,
            ![r].started = @ \/ s = "running",
            ![r].finished = @ \/ s \in Final,
            ![r].billed = IF s \in Final /\ post[r].started THEN TRUE ELSE @]
      BY <1>10 DEF WriteStatus
    <2>3. s \in Statuses BY <2>1 DEF Reports, Statuses, Active, Final
    <2>4. PICK n \in NextReports(s) : agent' = [agent EXCEPT ![r] = IF @ = "gone" THEN @ ELSE n]
      BY <1>10 DEF WriteStatus
    <2>5. n \in Reports \cup {"gone"} BY <2>1, <2>4, <1>n
    <2> DEFINE started == run[r].started \/ s = "running"
               finished == run[r].finished \/ s \in Final
               billed == IF s \in Final /\ post[r].started THEN TRUE ELSE run[r].billed
    <2>a. run[r].billed \in BOOLEAN BY <1>u DEF Row
    <2>b. started \in BOOLEAN /\ finished \in BOOLEAN /\ billed \in BOOLEAN BY <2>a
    <2> DEFINE row == [run[r] EXCEPT !.status = s, !.started = started,
                                     !.finished = finished, !.billed = billed]
    <2>c. run' = [run EXCEPT ![r] = row] BY <2>2, <1>u DEF Row
    <2> HIDE DEF s, started, finished, billed
    <2>d. row \in Row /\ row.space = run[r].space BY <2>b, <2>3, <1>u DEF Row
    <2> HIDE DEF row
    <2>6. run' \in [Runs -> Row] /\ \A q \in Runs : run'[q].space = run[q].space
      BY <2>c, <2>d, <1>u
    <2>7. agent' \in [Runs -> Reports \cup {"none", "gone"}] BY <2>4, <2>5, <1>t DEF TypeOK
    <2>8. [NoPost EXCEPT !.at = "charge"] \in Posts BY <1>p
    <2>9. post' \in [Runs -> Posts] BY <1>10, <1>p, <2>8 DEF WriteStatus
    <2>10. overdue' \in SUBSET Runs BY <1>10, <1>t DEF WriteStatus, TypeOK
    <2>11. TypeOK' BY <1>10, <1>t, <2>6, <2>7, <2>9, <2>10 DEF WriteStatus, TypeOK
    <2>12. QED BY <1>10, <2>6, <2>11, <1>a DEF WriteStatus
  <1>11. CASE PostCharge(r)
    <2>1. post' \in [Runs -> Posts] BY <1>11, <1>p DEF PostCharge
    <2>2. TypeOK' BY <1>11, <1>t, <2>1 DEF PostCharge, TypeOK
    <2>3. QED BY <1>11, <2>2, <1>a DEF PostCharge
  <1>12. CASE PostMark(r)
    <2>1. run' \in [Runs -> Row] /\ \A q \in Runs : run'[q].space = run[q].space
      BY <1>12, <1>u DEF PostMark, Row
    <2>2. post' \in [Runs -> Posts] BY <1>12, <1>p DEF PostMark
    <2>3. TypeOK' BY <1>12, <1>t, <2>1, <2>2 DEF PostMark, TypeOK
    <2>4. QED BY <1>12, <2>1, <2>3, <1>a DEF PostMark
  <1>13. CASE GoOverdue(r)
    <2>1. TypeOK' BY <1>13, <1>t DEF GoOverdue, TypeOK
    <2>2. QED BY <1>13, <2>1, <1>a DEF GoOverdue
  <1>14. CASE LoseRequests(r)
    <2>1. NoCancel \in [at : {"none", "write", "deprovision"}, space : SUBSET Spaces]
      BY DEF NoCancel
    <2>2. faults' \in 0 .. MaxFaults BY <1>14, <1>t, FaultAssumption DEF LoseRequests, TypeOK
    <2>3. TypeOK' BY <1>14, <1>t, <1>p, <2>1, <2>2 DEF LoseRequests, TypeOK
    <2>4. QED BY <1>14, <2>3, <1>a DEF LoseRequests
  <1>15. QED
    BY <1>1, <1>2, <1>3, <1>4, <1>5, <1>6, <1>7, <1>8, <1>9, <1>10, <1>11, <1>12, <1>13, <1>14
    DEF Api, Agent, Events

-----------------------------------------------------------------------------
(* The executor's passes.                                                  *)

\* A pass at a step has steps to do.
LEMMA AtHasSteps ==
  ASSUME NEW p, NEW r, NEW step, At(p, r, step)
  PROVE  pass[p].todo # <<>>
  BY DEF At

\* What is left of a pass's steps is a list of steps.
LEMMA AfterType ==
  ASSUME SpaceInv, NEW p \in Passes, NEW n \in Nat
  PROVE  After(p, n) \in Seq(Steps)
  <1>1. pass[p].todo \in Seq(Steps) BY DEF SpaceInv, TypeOK, Work
  <1>2. QED BY <1>1 DEF After

\* A pass that goes on with steps of its list, and writes nothing else.
LEMMA OnlyThePassMoves ==
  ASSUME SpaceInv, NEW p \in Passes,
         Done(p) \/ (\E todo \in Seq(Steps) : Goto(p, todo)), pass[p].todo # <<>>,
         faults' \in 0 .. MaxFaults, charged' \subseteq Runs,
         UNCHANGED <<run, through, admitted, ws, ip, agent, post, cancel, overdue>>
  PROVE  SpaceInv'
  <1>1. pass' \in [Passes -> Work] BY DoneType, GotoType DEF SpaceInv, TypeOK
  <1>2. TypeOK' BY <1>1 DEF SpaceInv, TypeOK
  <1>3. QED BY <1>2, SpacesKept

\* A pass that has written one row, and moved no workspace.
LEMMA PassWritesRow ==
  ASSUME SpaceInv, NEW p \in Passes, Done(p), pass[p].todo # <<>>,
         run' \in [Runs -> Row] /\ \A q \in Runs : run'[q].space = run[q].space,
         overdue' \subseteq Runs,
         UNCHANGED <<through, admitted, ws, ip, agent, post, cancel, charged, faults>>
  PROVE  SpaceInv'
  <1>1. pass' \in [Passes -> Work] BY DoneType DEF SpaceInv, TypeOK
  <1>2. TypeOK' BY <1>1 DEF SpaceInv, TypeOK
  <1>3. QED BY <1>2, SpacesKept

\* A pass that takes up a run.
LEMMA PassTakesUp ==
  ASSUME SpaceInv, NEW p \in Passes, NEW r \in Runs, NEW todo \in Seq(Steps), NEW copy \in Copy,
         pass' = [pass EXCEPT ![p] = [todo |-> todo, run |-> {r}, copy |-> copy, found |-> {}]],
         UNCHANGED <<run, through, admitted, ws, ip, agent, post, cancel, overdue, charged, faults>>
  PROVE  SpaceInv'
  <1>1. [todo |-> todo, run |-> {r}, copy |-> copy, found |-> {}] \in Work BY DEF Work
  <1>2. TypeOK' BY <1>1 DEF SpaceInv, TypeOK
  <1>3. QED BY <1>2, SpacesKept

\* The first step of a listed run.
LEMMA StageType ==
  ASSUME NEW row \in Row, row.status \in {"queued"} \cup Active
  PROVE  Stage(row) \in Seq(Steps)
  <1>1. Stage(row) \in {<<"find">>, <<"check">>, <<"execute">>, <<"monitor">>, <<"upload">>}
    BY Zenon DEF Stage, Active
  <1>2. {"find", "check", "execute", "monitor", "upload"} \subseteq Steps BY DEF Steps
  <1>3. QED BY <1>1, <1>2, StepLists

\* Taking up a run, and a charge that fails, keep the invariant.
LEMMA PassesKeep ==
  ASSUME SpaceInv, NEW p \in Passes, NEW r \in Runs,
         Pick(p, r) \/ PickUnreported(p, r) \/ FailCharge(p, r)
  PROVE  SpaceInv'
  <1>t. TypeOK BY DEF SpaceInv
  <1>1. CASE Pick(p, r)
    <2>1. run[r] \in Row BY <1>t DEF TypeOK
    <2>2. Stage(run[r]) \in Seq(Steps) BY <1>1, <2>1, StageType DEF Pick
    <2>3. CopyOf(run[r]) \in Copy BY <2>1, CopyType
    <2>4. QED BY <1>1, <2>2, <2>3, PassTakesUp DEF Pick
  <1>2. CASE PickUnreported(p, r)
    <2>1. NoCopy \in Copy BY DEF NoCopy, Copy
    <2>2. QED BY <1>2, <2>1, StepLists, PassTakesUp DEF PickUnreported
  <1>3. CASE FailCharge(p, r)
    <2>1. PICK n \in {1, 2} : Goto(p, After(p, n)) BY <1>3 DEF FailCharge
    <2>2. pass[p].todo # <<>> BY <1>3, AtHasSteps DEF FailCharge
    <2>3. After(p, n) \in Seq(Steps) BY AfterType
    <2>4. UNCHANGED <<run, through, admitted, ws, ip, agent, post, cancel, overdue, charged>>
          /\ faults' \in 0 .. MaxFaults
      BY <1>3, <1>t, FaultAssumption DEF FailCharge, TypeOK
    <2>5. charged' \subseteq Runs BY <2>4, <1>t DEF TypeOK
    <2>6. QED BY <2>1, <2>2, <2>3, <2>4, <2>5, OnlyThePassMoves
  <1>4. QED BY <1>1, <1>2, <1>3

\* Each step of a pass keeps the invariant.
LEMMA StepsKeep ==
  ASSUME SpaceInv, NEW p \in Passes, NEW r \in Runs, Step(p, r)
  PROVE  SpaceInv'
  <1>t. TypeOK BY DEF SpaceInv
  <1>u. run \in [Runs -> Row] /\ ws \in [Spaces -> SpaceStatuses] /\ pass \in [Passes -> Work]
        /\ faults \in 0 .. MaxFaults /\ charged \subseteq Runs /\ overdue \subseteq Runs
    BY <1>t DEF TypeOK
  <1>w. pass[p] \in Work BY <1>u
  <1>c. pass[p].copy \in Copy /\ pass[p].found \in SUBSET Spaces BY <1>w DEF Work
  <1>m. ASSUME pass[p].todo # <<>>, Done(p) \/ (\E todo \in Seq(Steps) : Goto(p, todo)),
               UNCHANGED <<run, through, admitted, ws, ip, agent, post, cancel, overdue, charged, faults>>
        PROVE  SpaceInv'
    BY <1>m, <1>u, OnlyThePassMoves
  <1>r. ASSUME pass[p].todo # <<>>, Done(p), overdue' \subseteq Runs,
               run' \in [Runs -> Row] /\ \A q \in Runs : run'[q].space = run[q].space,
               UNCHANGED <<through, admitted, ws, ip, agent, post, cancel, charged, faults>>
        PROVE  SpaceInv'
    BY <1>r, PassWritesRow
  <1>1. CASE FindWarm(p, r)
    <2> DEFINE warm == {w \in Spaces : ws[w] = "WARM_AVAILABLE"}
    <2>1. PICK found \in IF warm = {} THEN {{}} ELSE {{w} : w \in warm} :
            pass' = [pass EXCEPT ![p].todo = <<"claim">>, ![p].found = found]
      BY <1>1 DEF FindWarm
    <2>2. found \in SUBSET Spaces OBVIOUS
    <2>3. <<"claim">> \in Seq(Steps) BY StepLists DEF Steps
    <2> HIDE DEF warm
    <2>4. pass' \in [Passes -> Work] BY <2>1, <2>2, <2>3, <1>u DEF Work
    <2>5. TypeOK' BY <1>1, <1>t, <2>4 DEF FindWarm, TypeOK
    <2>6. QED BY <1>1, <2>5, SpacesKept DEF FindWarm
  <1>2. CASE ClaimWarm(p, r)
    <2> DEFINE found == pass[p].found
               row == [run[r] EXCEPT !.status = "provisioning", !.space = found]
    <2>1. run' = [run EXCEPT ![r] = row] BY <1>2, <1>u DEF ClaimWarm
    <2>2. row \in Row /\ row.space = found BY <1>u, <1>c DEF Row, Statuses, Active
    <2>3. \A q \in Runs \ {r} : run[q].space \cap found = {} BY <1>2 DEF ClaimWarm
    <2>4. ws' = [w \in Spaces |-> IF w \in found THEN "RUNNING_ASSIGNED" ELSE ws[w]]
      BY <1>2 DEF ClaimWarm
    <2>5. pass' \in [Passes -> Work] BY <1>2, <1>u, AtHasSteps, DoneType DEF ClaimWarm
    <2>6. UNCHANGED <<through, admitted, ip, agent, post, cancel, overdue, charged, faults>>
      BY <1>2 DEF ClaimWarm
    <2>7. found \in SUBSET Spaces BY <1>c
    <2> HIDE DEF found, row
    <2>8. run' \in [Runs -> Row] /\ run'[r].space = found /\ \A q \in Runs \ {r} : run'[q] = run[q]
      BY <2>1, <2>2, <1>u
    <2>9. ws' \in [Spaces -> SpaceStatuses] BY <2>4, <1>u DEF SpaceStatuses
    <2>10. TypeOK' BY <1>t, <2>5, <2>6, <2>8, <2>9 DEF TypeOK
    <2>11. \A w \in found : ws'[w] # "ABSENT" BY <2>4, <2>7
    <2>12. \A w \in Spaces : ws'[w] = "ABSENT" => ws[w] = "ABSENT" BY <2>4
    <2>13. QED BY <2>3, <2>7, <2>8, <2>10, <2>11, <2>12, SpaceGiven
  <1>3. CASE ClaimRefused(p, r)
    <2>1. <<"no_space">> \in Seq(Steps) BY StepLists DEF Steps
    <2>2. faults' \in 0 .. MaxFaults BY <1>3, <1>u, FaultAssumption DEF ClaimRefused
    <2>3. QED BY <1>3, <1>u, <2>1, <2>2, AtHasSteps, OnlyThePassMoves DEF ClaimRefused
  <1>4. CASE CreateCold(p, r)
    <2>1. PICK w \in Spaces :
            /\ ws[w] = "ABSENT"
            /\ ws' = [ws EXCEPT ![w] = "CREATING"]
            /\ run' = [run EXCEPT ![r].status = "provisioning", ![r].space = {w}]
      BY <1>4 DEF CreateCold
    <2> DEFINE row == [run[r] EXCEPT !.status = "provisioning", !.space = {w}]
    <2>2. run' = [run EXCEPT ![r] = row] BY <2>1, <1>u
    <2>3. row \in Row /\ row.space = {w} BY <1>u DEF Row, Statuses, Active
    <2> HIDE DEF row
    <2>4. run' \in [Runs -> Row] /\ run'[r].space = {w} /\ \A q \in Runs \ {r} : run'[q] = run[q]
      BY <2>2, <2>3, <1>u
    <2>5. \A q \in Runs \ {r} : run[q].space \cap {w} = {} BY <2>1 DEF SpaceInv, HeldIsThere
    <2>6. ws' \in [Spaces -> SpaceStatuses] BY <2>1, <1>u DEF SpaceStatuses
    <2>7. pass' \in [Passes -> Work] BY <1>4, <1>u, AtHasSteps, DoneType DEF CreateCold
    <2>8. TypeOK' BY <1>4, <1>t, <2>4, <2>6, <2>7 DEF CreateCold, TypeOK
    <2>9. ws'[w] # "ABSENT" /\ \A v \in Spaces : ws'[v] = "ABSENT" => ws[v] = "ABSENT"
      BY <2>1, <1>u
    <2>10. QED BY <2>4, <2>5, <2>8, <2>9, SpaceGiven
  <1>5. CASE NoSpace(p, r)
    <2>1. run' \in [Runs -> Row] /\ \A q \in Runs : run'[q].space = run[q].space
      BY <1>5, <1>u, ZenonT(30) DEF NoSpace, Row, Statuses, Final
    <2>2. QED BY <1>5, <1>u, <2>1, <1>r, AtHasSteps DEF NoSpace
  <1>6. CASE CheckSpace(p, r)
    <2>1. PICK w \in pass[p].copy.space :
            Goto(p, CASE ws[w] = "RUNNING_ASSIGNED" -> <<"to_initializing">>
                      [] ws[w] \in {"FAILED", "TERMINATED"} -> <<"no_space">>
                      [] OTHER -> <<>>)
      BY <1>6 DEF CheckSpace
    <2>2. \E todo \in {<<"to_initializing">>, <<"no_space">>, <<>>} : Goto(p, todo)
      BY <2>1, Zenon
    <2>3. \A todo \in {<<"to_initializing">>, <<"no_space">>, <<>>} : todo \in Seq(Steps)
      BY StepLists DEF Steps
    <2>4. QED BY <1>6, <2>2, <2>3, <1>m, AtHasSteps DEF CheckSpace
  <1>7. CASE ToInitializing(p, r)
    <2>1. run' \in [Runs -> Row] /\ \A q \in Runs : run'[q].space = run[q].space
      BY <1>7, <1>u DEF ToInitializing, Row, Statuses, Active
    <2>2. QED BY <1>7, <1>u, <2>1, <1>r, AtHasSteps DEF ToInitializing
  <1>8. CASE AwaitIp(p, r) \/ Execute(p, r)
    <2>1. <<>> \in Seq(Steps) /\ <<"to_running">> \in Seq(Steps) /\ <<"init_failed">> \in Seq(Steps)
      BY StepLists DEF Steps
    <2>2. QED BY <1>8, <2>1, <1>m, AtHasSteps DEF AwaitIp, Execute
  <1>9. CASE ToRunning(p, r)
    <2>1. run' \in [Runs -> Row] /\ \A q \in Runs : run'[q].space = run[q].space
      BY <1>9, <1>u, ZenonT(30) DEF ToRunning, Row, Statuses, Active
    <2>2. overdue' \subseteq Runs BY <1>9, <1>u DEF ToRunning
    <2>3. QED BY <1>9, <2>1, <2>2, <1>r, AtHasSteps DEF ToRunning
  <1>10. CASE InitFailed(p, r)
    <2>1. run' \in [Runs -> Row] /\ \A q \in Runs : run'[q].space = run[q].space
      BY <1>10, <1>u, ZenonT(30) DEF InitFailed, Row, Statuses, Final
    <2>2. QED BY <1>10, <1>u, <2>1, <1>r, AtHasSteps DEF InitFailed
  <1>11. CASE MonitorTimeout(p, r) BY <1>11, <1>m, StepLists, AtHasSteps DEF MonitorTimeout
  <1>12. CASE MonitorSilent(p, r) BY <1>12, <1>m, StepLists, AtHasSteps DEF MonitorSilent
  <1>13. CASE MonitorHealthy(p, r) BY <1>13, <1>m, StepLists, AtHasSteps DEF MonitorHealthy
  <1>14. CASE WriteTimedOut(p, r)
    <2> DEFINE row == [run[r] EXCEPT !.status = "timed_out", !.finished = TRUE, !.billed = TRUE]
    <2>1. run' = [run EXCEPT ![r] = row] BY <1>14, <1>u DEF WriteTimedOut
    <2>2. row \in Row /\ row.space = run[r].space BY <1>u DEF Row, Statuses, Final
    <2> HIDE DEF row
    <2>3. run' \in [Runs -> Row] /\ \A q \in Runs : run'[q].space = run[q].space
      BY <2>1, <2>2, <1>u
    <2>4. QED BY <1>14, <1>u, <2>3, <1>r, AtHasSteps DEF WriteTimedOut
  <1>15. CASE WriteFailed(p, r)
    <2> DEFINE billed == pass[p].copy.started
               row == [run[r] EXCEPT !.status = "failed", !.finished = TRUE, !.billed = billed]
    <2>1. billed \in BOOLEAN BY <1>c DEF Copy
    <2>2. run' = [run EXCEPT ![r] = row] BY <1>15, <1>u DEF WriteFailed
    <2> HIDE DEF billed
    <2>3. row \in Row /\ row.space = run[r].space BY <1>u, <2>1 DEF Row, Statuses, Final
    <2> HIDE DEF row
    <2>4. run' \in [Runs -> Row] /\ \A q \in Runs : run'[q].space = run[q].space
      BY <2>2, <2>3, <1>u
    <2>5. QED BY <1>15, <1>u, <2>4, <1>r, AtHasSteps DEF WriteFailed
  <1>16. CASE UploadIsOver(p, r) BY <1>16, <1>m, StepLists, AtHasSteps DEF UploadIsOver
  <1>17. CASE UploadGoesOn(p, r) BY <1>17, <1>m, StepLists, AtHasSteps DEF UploadGoesOn
  <1>18. CASE Finalize(p, r)
    <2> DEFINE billed == pass[p].copy.billed \/ pass[p].copy.started
               row == [run[r] EXCEPT !.status = "completed", !.finished = TRUE, !.billed = billed]
    <2>1. billed \in BOOLEAN OBVIOUS
    <2>2. run' = [run EXCEPT ![r] = row] BY <1>18, <1>u DEF Finalize
    <2> HIDE DEF billed
    <2>3. row \in Row /\ row.space = run[r].space BY <1>u, <2>1 DEF Row, Statuses, Final
    <2> HIDE DEF row
    <2>4. run' \in [Runs -> Row] /\ \A q \in Runs : run'[q].space = run[q].space
      BY <2>2, <2>3, <1>u
    <2>5. QED BY <1>18, <1>u, <2>4, <1>r, AtHasSteps DEF Finalize
  <1>19. CASE ReleaseSpace(p, r)
    <2>1. <<"cleanup">> \in Seq(Steps) BY StepLists DEF Steps
    <2>2. QED BY <1>19, <2>1, <1>m, StepLists, AtHasSteps DEF ReleaseSpace
  <1>20. CASE EnqueueCleanup(p, r)
    <2>1. ws' = [w \in Spaces |-> IF w \in pass[p].copy.space THEN "TERMINATING" ELSE ws[w]]
      BY <1>20 DEF EnqueueCleanup
    <2>2. ws' \in [Spaces -> SpaceStatuses] BY <2>1, <1>u DEF SpaceStatuses
    <2>3. pass' \in [Passes -> Work] BY <1>20, <1>u, AtHasSteps, DoneType DEF EnqueueCleanup
    <2>4. TypeOK' BY <1>20, <1>t, <2>2, <2>3 DEF EnqueueCleanup, TypeOK
    <2>5. \A w \in Spaces : ws'[w] = "ABSENT" => ws[w] = "ABSENT" BY <2>1
    <2>6. QED BY <1>20, <2>4, <2>5, SpacesKept DEF EnqueueCleanup
  <1>21. CASE Charge(p, r)
    <2>1. After(p, 2) \in Seq(Steps) BY AfterType
    <2>2. pass[p].todo # <<>> BY <1>21, AtHasSteps DEF Charge
    <2>3. Done(p) \/ (\E todo \in Seq(Steps) : Goto(p, todo)) BY <1>21, <2>1 DEF Charge
    <2>4. charged' \subseteq Runs /\ faults' \in 0 .. MaxFaults
          /\ UNCHANGED <<run, through, admitted, ws, ip, agent, post, cancel, overdue>>
      BY <1>21, <1>u DEF Charge
    <2>5. QED BY <2>2, <2>3, <2>4, OnlyThePassMoves
  <1>22. CASE MarkReported(p, r)
    <2>1. run' \in [Runs -> Row] /\ \A q \in Runs : run'[q].space = run[q].space
      BY <1>22, <1>u DEF MarkReported, Row
    <2>2. QED BY <1>22, <1>u, <2>1, <1>r, AtHasSteps DEF MarkReported
  <1>23. QED
    BY <1>1, <1>2, <1>3, <1>4, <1>5, <1>6, <1>7, <1>8, <1>9, <1>10, <1>11, <1>12, <1>13, <1>14,
       <1>15, <1>16, <1>17, <1>18, <1>19, <1>20, <1>21, <1>22 DEF Step

\* What the other jobs do to a workspace keeps the invariant.
LEMMA OthersKeep ==
  ASSUME SpaceInv, NEW w \in Spaces, Others(w)
  PROVE  SpaceInv'
  <1>t. TypeOK /\ ws \in [Spaces -> SpaceStatuses] BY DEF SpaceInv, TypeOK
  <1>1. UNCHANGED <<run, through, admitted, pass, post, cancel, overdue, charged, faults>>
    BY DEF Others, FindIp, Boot, VerifyPass, EndSpace, CleanSpace
  <1>2. UNCHANGED ws \/ \E s \in {"RUNNING_ASSIGNED", "FAILED", "TERMINATING", "TERMINATED"} :
          ws' = [ws EXCEPT ![w] = s]
    BY DEF Others, FindIp, Boot, VerifyPass, EndSpace, CleanSpace
  <1>3. /\ agent' \in [Runs -> Reports \cup {"none", "gone"}]
        /\ ip' \in SUBSET Spaces
    BY <1>t DEF Others, FindIp, Boot, VerifyPass, EndSpace, CleanSpace, TypeOK
  <1>4. ws' \in [Spaces -> SpaceStatuses] BY <1>t, <1>2 DEF SpaceStatuses
  <1>5. TypeOK' BY <1>t, <1>1, <1>3, <1>4 DEF TypeOK
  <1>6. \A v \in Spaces : ws'[v] = "ABSENT" => ws[v] = "ABSENT" BY <1>t, <1>2
  <1>7. QED BY <1>1, <1>5, <1>6, SpacesKept

\* Every step keeps the invariant.
LEMMA SpaceInvKept == SpaceInv /\ [Next]_vars => SpaceInv'
  <1> SUFFICES ASSUME SpaceInv, [Next]_vars PROVE SpaceInv'
    OBVIOUS
  <1>1. ASSUME NEW r \in Runs, Api(r) \/ Agent(r) \/ Events(r) \/ GoOverdue(r) \/ LoseRequests(r)
        PROVE  SpaceInv'
    BY <1>1, RequestsKeep
  <1>2. ASSUME NEW p \in Passes, NEW r \in Runs,
               Pick(p, r) \/ PickUnreported(p, r) \/ FailCharge(p, r)
        PROVE  SpaceInv'
    BY <1>2, PassesKeep
  <1>3. ASSUME NEW p \in Passes, NEW r \in Runs, Step(p, r) PROVE SpaceInv'
    BY <1>3, StepsKeep
  <1>4. ASSUME NEW p \in Passes, CrashPass(p) PROVE SpaceInv'
    <2>1. Idle \in Work BY StepLists DEF Idle, Work, Copy, NoCopy
    <2>2. TypeOK' BY <1>4, <2>1, FaultAssumption DEF SpaceInv, CrashPass, TypeOK
    <2>3. QED BY <1>4, <2>2, SpacesKept DEF CrashPass
  <1>5. ASSUME NEW w \in Spaces, Others(w) PROVE SpaceInv'
    BY <1>5, OthersKeep
  <1>6. CASE UNCHANGED vars
    <2>1. TypeOK' BY <1>6 DEF SpaceInv, vars, TypeOK
    <2>2. QED BY <1>6, <2>1, SpacesKept DEF vars
  <1>7. QED BY <1>1, <1>2, <1>3, <1>4, <1>5, <1>6 DEF Next

-----------------------------------------------------------------------------
(* A charge before its mark.  Two requests stand on it, the passes of the  *)
(* executor and the events of the agent, and each may die between the two. *)

\* In a pass's list, a charge is followed by its mark, and a mark preceded by its charge.
Paired(todo) ==
    \A i \in 1 .. Len(todo) :
        /\ todo[i] = "charge" => i + 1 \in 1 .. Len(todo) /\ todo[i + 1] = "mark"
        /\ todo[i] = "mark" /\ i > 1 => todo[i - 1] = "charge"

StartsWithMark(todo) == todo # <<>> /\ todo[1] = "mark"

\* A pass that is about to mark its run has charged it.
Ordered(work, paid) ==
    /\ Paired(work.todo)
    /\ \A q, r \in work.run : q = r
    /\ StartsWithMark(work.todo) => work.run \subseteq paid

PassesInOrder == \A p \in Passes : Ordered(pass[p], charged)

PostsInOrder == \A r \in Runs : post[r].at = "mark" => r \in charged

ReportInv == PassesInOrder /\ PostsInOrder /\ ReportedWasCharged

\* A list a pass may begin with, whatever has been charged.
Startable(todo) == Paired(todo) /\ ~StartsWithMark(todo)

\* One such list after another.
LEMMA StartableAppend ==
  ASSUME NEW s \in Seq(Steps), NEW t \in Seq(Steps), Startable(s), Startable(t)
  PROVE  Startable(s \o t)
  <1> DEFINE all == s \o t
  <1>1. /\ Len(s) \in Nat /\ Len(t) \in Nat /\ Len(all) = Len(s) + Len(t)
        /\ \A i \in 1 .. Len(s) : all[i] = s[i]
        /\ \A i \in 1 .. Len(t) : all[Len(s) + i] = t[i]
        /\ s = <<>> <=> Len(s) = 0
        /\ t = <<>> <=> Len(t) = 0
        /\ all = <<>> <=> Len(all) = 0
    OBVIOUS
  <1> HIDE DEF all
  <1>2. Paired(s) /\ Paired(t) /\ (Len(s) > 0 => s[1] # "mark") /\ (Len(t) > 0 => t[1] # "mark")
    BY <1>1 DEF Startable, StartsWithMark
  <1>3. ASSUME NEW i \in 1 .. Len(all)
        PROVE  /\ all[i] = "charge" => i + 1 \in 1 .. Len(all) /\ all[i + 1] = "mark"
               /\ all[i] = "mark" /\ i > 1 => all[i - 1] = "charge"
    <2>1. CASE i \in 1 .. Len(s)
      <3>1. all[i] = s[i] BY <1>1, <2>1
      <3>2. i + 1 \in 1 .. Len(s) => all[i + 1] = s[i + 1] BY <1>1
      <3>3. i > 1 => i - 1 \in 1 .. Len(s) /\ all[i - 1] = s[i - 1] BY <1>1, <2>1
      <3>4. QED BY <1>1, <1>2, <2>1, <3>1, <3>2, <3>3 DEF Paired
    <2>2. CASE i \notin 1 .. Len(s)
      <3> DEFINE j == i - Len(s)
      <3>1. j \in 1 .. Len(t) /\ i = Len(s) + j BY <1>1, <2>2
      <3> HIDE DEF j
      <3>2. all[i] = t[j] BY <1>1, <3>1
      <3>3. j + 1 \in 1 .. Len(t) => i + 1 \in 1 .. Len(all) /\ all[i + 1] = t[j + 1]
        <4>1. i + 1 = Len(s) + (j + 1) BY <1>1, <3>1
        <4>2. QED BY <1>1, <3>1, <4>1
      <3>4. j > 1 => j - 1 \in 1 .. Len(t) /\ all[i - 1] = t[j - 1]
        <4> SUFFICES ASSUME j > 1 PROVE j - 1 \in 1 .. Len(t) /\ all[i - 1] = t[j - 1]
          OBVIOUS
        <4> DEFINE k == j - 1
        <4>1. k \in 1 .. Len(t) /\ i - 1 = Len(s) + k BY <1>1, <3>1
        <4> HIDE DEF k
        <4>2. all[i - 1] = t[k] BY <1>1, <4>1
        <4>3. QED BY <4>1, <4>2 DEF k
      <3>5. j = 1 => t[j] # "mark" BY <1>2, <3>1, <1>1
      <3>6. t[j] = "charge" => j + 1 \in 1 .. Len(t) /\ t[j + 1] = "mark" BY <1>2, <3>1 DEF Paired
      <3>7. t[j] = "mark" /\ j > 1 => t[j - 1] = "charge" BY <1>2, <3>1 DEF Paired
      <3>8. j = 1 \/ j > 1 BY <3>1
      <3>9. QED BY <3>2, <3>3, <3>4, <3>5, <3>6, <3>7, <3>8
    <2>3. QED BY <2>1, <2>2
  <1>4. Paired(all) BY <1>3 DEF Paired
  <1>5. ~StartsWithMark(all)
    <2> SUFFICES ASSUME StartsWithMark(all) PROVE FALSE
      OBVIOUS
    <2>1. CASE Len(s) > 0 BY <1>1, <1>2, <2>1 DEF StartsWithMark
    <2>2. CASE Len(s) = 0
      <3>1. Len(t) > 0 /\ all[1] = t[1] BY <1>1, <2>2 DEF StartsWithMark
      <3>2. QED BY <1>2, <3>1 DEF StartsWithMark
    <2>3. QED BY <1>1, <2>1, <2>2
  <1>6. QED BY <1>4, <1>5 DEF Startable, all

\* The lists the executor goes on with.
LEMMA StartableLists ==
  /\ Startable(<<>>) /\ Startable(Report)
  /\ \A s \in Steps \ {"charge", "mark"} : Startable(<<s>>)
  /\ Startable(<<"timed_out">> \o <<"cleanup">> \o Report)
  /\ Startable(<<"fail">> \o <<"cleanup">> \o Report)
  /\ Startable(<<"finalize">> \o Report \o <<"release">>)
  <1>1. Startable(<<>>) BY DEF Startable, Paired, StartsWithMark
  <1>2. Startable(Report) BY DEF Startable, Paired, StartsWithMark, Report
  <1>3. ASSUME NEW s \in Steps \ {"charge", "mark"} PROVE Startable(<<s>>)
    BY <1>3 DEF Startable, Paired, StartsWithMark
  <1>4. \A s, t \in Seq(Steps) : Startable(s) /\ Startable(t) => Startable(s \o t)
    BY StartableAppend
  <1>5. {"timed_out", "cleanup", "fail", "finalize", "release"} \subseteq Steps \ {"charge", "mark"}
    BY DEF Steps
  <1>6. <<"timed_out">> \o <<"cleanup">> \in Seq(Steps) /\ <<"fail">> \o <<"cleanup">> \in Seq(Steps)
        /\ <<"finalize">> \o Report \in Seq(Steps)
    BY StepLists DEF Steps
  <1>7. /\ Startable(<<"timed_out">> \o <<"cleanup">>) /\ Startable(<<"fail">> \o <<"cleanup">>)
        /\ Startable(<<"finalize">> \o Report)
    BY <1>2, <1>3, <1>4, <1>5, StepLists
  <1>8. QED BY <1>1, <1>2, <1>3, <1>4, <1>5, <1>6, <1>7, StepLists

\* What follows a list's first step, when that step has charged if it is a charge.
LEMMA TailOrdered ==
  ASSUME NEW todo \in Seq(Steps), todo # <<>>, Paired(todo)
  PROVE  /\ Paired(Tail(todo))
         /\ StartsWithMark(Tail(todo)) => Head(todo) = "charge"
  <1>1. Len(Tail(todo)) = Len(todo) - 1 /\ Len(todo) \in Nat \ {0} OBVIOUS
  <1>2. \A i \in 1 .. Len(Tail(todo)) : Tail(todo)[i] = todo[i + 1] OBVIOUS
  <1>3. Paired(Tail(todo)) BY <1>1, <1>2 DEF Paired
  <1>4. ASSUME StartsWithMark(Tail(todo)) PROVE Head(todo) = "charge"
    <2>1. 1 \in 1 .. Len(Tail(todo)) BY <1>1, <1>4 DEF StartsWithMark
    <2>2. todo[2] = "mark" /\ 2 \in 1 .. Len(todo) BY <1>1, <1>2, <1>4, <2>1 DEF StartsWithMark
    <2>3. todo[1] = "charge" BY <2>2 DEF Paired
    <2>4. QED BY <2>3
  <1>5. QED BY <1>3, <1>4

\* What follows a charge that is not due or fails, with its mark, and a mark that fails.
LEMMA SkippedStartable ==
  ASSUME NEW todo \in Seq(Steps), todo # <<>>, Paired(todo)
  PROVE  /\ Head(todo) = "charge" => Startable(SubSeq(todo, 3, Len(todo)))
         /\ Head(todo) = "mark" => Startable(SubSeq(todo, 2, Len(todo)))
  <1>1. Len(todo) \in Nat \ {0} /\ Head(todo) = todo[1] OBVIOUS
  <1>2. ASSUME NEW n \in {1, 2} PROVE
          LET rest == SubSeq(todo, n + 1, Len(todo)) IN
          /\ Len(rest) = IF Len(todo) >= n THEN Len(todo) - n ELSE 0
          /\ \A i \in 1 .. Len(rest) : rest[i] = todo[i + n]
    BY <1>1
  <1>3. ASSUME NEW n \in {1, 2}, Len(todo) > n => todo[n + 1] # "mark"
        PROVE  Startable(SubSeq(todo, n + 1, Len(todo)))
    <2> DEFINE rest == SubSeq(todo, n + 1, Len(todo))
    <2>1. /\ Len(rest) = IF Len(todo) >= n THEN Len(todo) - n ELSE 0
          /\ \A i \in 1 .. Len(rest) : rest[i] = todo[i + n]
      BY <1>2
    <2>2. rest \in Seq(Steps) BY <1>1
    <2> HIDE DEF rest
    <2>3. Paired(rest)
      <3> SUFFICES ASSUME NEW i \in 1 .. Len(rest)
                   PROVE  /\ rest[i] = "charge" => i + 1 \in 1 .. Len(rest) /\ rest[i + 1] = "mark"
                          /\ rest[i] = "mark" /\ i > 1 => rest[i - 1] = "charge"
        BY DEF Paired
      <3>1. i + n \in 1 .. Len(todo) /\ Len(rest) = Len(todo) - n /\ rest[i] = todo[i + n]
        BY <1>1, <2>1
      <3>2. ASSUME rest[i] = "charge" PROVE i + 1 \in 1 .. Len(rest) /\ rest[i + 1] = "mark"
        <4>1. i + n + 1 \in 1 .. Len(todo) /\ todo[i + n + 1] = "mark" BY <3>1, <3>2 DEF Paired
        <4>2. i + 1 \in 1 .. Len(rest) /\ i + n + 1 = i + 1 + n BY <1>1, <3>1, <4>1
        <4>3. rest[i + 1] = todo[i + 1 + n] BY <2>1, <4>2
        <4>4. QED BY <4>1, <4>2, <4>3
      <3>3. ASSUME rest[i] = "mark", i > 1 PROVE rest[i - 1] = "charge"
        <4>1. i + n \in Nat /\ i + n > 1 BY <3>3
        <4> DEFINE k == i + n
        <4>a. k \in 1 .. Len(todo) /\ todo[k] = "mark" /\ k > 1 BY <3>1, <3>3, <4>1
        <4> HIDE DEF k
        <4>b. todo[k - 1] = "charge" BY <4>a DEF Paired
        <4>2. todo[i + n - 1] = "charge" BY <4>b DEF k
        <4>3. i - 1 \in 1 .. Len(rest) /\ i + n - 1 = i - 1 + n BY <1>1, <3>1, <3>3
        <4>4. rest[i - 1] = todo[i - 1 + n] BY <2>1, <4>3
        <4>5. QED BY <4>2, <4>3, <4>4
      <3>4. QED BY <3>2, <3>3
    <2>4. ~StartsWithMark(rest)
      <3> SUFFICES ASSUME StartsWithMark(rest) PROVE FALSE
        OBVIOUS
      <3>1. 1 \in 1 .. Len(rest) BY <2>2 DEF StartsWithMark
      <3>2. QED BY <1>1, <1>3, <2>1, <3>1 DEF StartsWithMark
    <2>5. QED BY <2>3, <2>4 DEF Startable, rest
  <1>4. ASSUME Head(todo) = "charge" PROVE Startable(SubSeq(todo, 3, Len(todo)))
    <2>1. 2 \in 1 .. Len(todo) /\ todo[2] = "mark" BY <1>1, <1>4 DEF Paired
    <2>2. Len(todo) > 2 => todo[3] # "mark" BY <1>1, <2>1 DEF Paired
    <2>3. QED BY <2>2, <1>3
  <1>5. ASSUME Head(todo) = "mark" PROVE Startable(SubSeq(todo, 2, Len(todo)))
    <2>1. Len(todo) > 1 => todo[2] # "mark" BY <1>1, <1>5 DEF Paired
    <2>2. QED BY <2>1, <1>3
  <1>6. QED BY <1>4, <1>5

\* A pass has the order when it is idle, or begins a list with one run, or none.
LEMMA IdleOrdered ==
  ASSUME NEW paid
  PROVE  Ordered(Idle, paid)
  BY DEF Ordered, Idle, Paired, StartsWithMark

\* The charges a pass relies on stay.
LEMMA OrderedStays ==
  ASSUME NEW work, NEW paid, NEW more, Ordered(work, paid), paid \subseteq more
  PROVE  Ordered(work, more)
  BY DEF Ordered

\* A pass that has done its first step, and charged its run if that was a charge.
LEMMA DoneOrdered ==
  ASSUME SpaceInv, PassesInOrder, charged \subseteq charged', NEW p \in Passes,
         pass[p].todo # <<>>, Done(p),
         Head(pass[p].todo) = "charge" => pass[p].run \subseteq charged'
  PROVE  PassesInOrder'
  <1>1. pass \in [Passes -> Work] BY DEF SpaceInv, TypeOK
  <1>2. pass[p] \in Work /\ pass[p].todo \in Seq(Steps) /\ Ordered(pass[p], charged)
    BY <1>1 DEF Work, PassesInOrder
  <1> DEFINE work == [pass[p] EXCEPT !.todo = Tail(pass[p].todo)]
  <1>3. work.todo = Tail(pass[p].todo) /\ work.run = pass[p].run BY <1>2 DEF Work
  <1>4. pass' = [pass EXCEPT ![p] = IF Len(pass[p].todo) = 1 THEN Idle ELSE work] BY DEF Done
  <1> HIDE DEF work
  <1>5. Ordered(work, charged') BY <1>2, <1>3, TailOrdered DEF Ordered
  <1>6. pass'[p] = Idle \/ pass'[p] = work BY <1>1, <1>4
  <1>7. Ordered(pass'[p], charged') BY <1>5, <1>6, IdleOrdered
  <1>8. ASSUME NEW q \in Passes, q # p PROVE Ordered(pass'[q], charged')
    <2>1. pass'[q] = pass[q] BY <1>1, <1>4, <1>8
    <2>2. QED BY <2>1, OrderedStays DEF PassesInOrder
  <1>9. QED BY <1>7, <1>8 DEF PassesInOrder

\* A pass that goes on with a list it may begin with.
LEMMA GotoOrdered ==
  ASSUME SpaceInv, PassesInOrder, charged \subseteq charged', NEW p \in Passes,
         NEW todo, Startable(todo), Goto(p, todo)
  PROVE  PassesInOrder'
  <1>1. pass \in [Passes -> Work] BY DEF SpaceInv, TypeOK
  <1>2. pass[p] \in Work /\ Ordered(pass[p], charged) BY <1>1 DEF PassesInOrder
  <1> DEFINE work == [pass[p] EXCEPT !.todo = todo]
  <1>3. work.todo = todo /\ work.run = pass[p].run BY <1>2 DEF Work
  <1>4. pass' = [pass EXCEPT ![p] = IF todo = <<>> THEN Idle ELSE work] BY DEF Goto
  <1> HIDE DEF work
  <1>5. Ordered(work, charged') BY <1>2, <1>3 DEF Ordered, Startable
  <1>6. pass'[p] = Idle \/ pass'[p] = work BY <1>1, <1>4
  <1>7. Ordered(pass'[p], charged') BY <1>5, <1>6, IdleOrdered
  <1>8. ASSUME NEW q \in Passes, q # p PROVE Ordered(pass'[q], charged')
    <2>1. pass'[q] = pass[q] BY <1>1, <1>4, <1>8
    <2>2. QED BY <2>1, OrderedStays DEF PassesInOrder
  <1>9. QED BY <1>7, <1>8 DEF PassesInOrder

\* A pass that takes up one run with such a list.
LEMMA TakenUpOrdered ==
  ASSUME SpaceInv, PassesInOrder, UNCHANGED charged, NEW p \in Passes, NEW r \in Runs,
         NEW todo, Startable(todo), NEW copy,
         pass' = [pass EXCEPT ![p] = [todo |-> todo, run |-> {r}, copy |-> copy, found |-> {}]]
  PROVE  PassesInOrder'
  <1>1. pass \in [Passes -> Work] BY DEF SpaceInv, TypeOK
  <1>2. Ordered([todo |-> todo, run |-> {r}, copy |-> copy, found |-> {}], charged')
    BY DEF Ordered, Startable
  <1>3. QED BY <1>1, <1>2 DEF PassesInOrder

\* A step after which the passes are in order, and that marks only what is charged.
LEMMA ReportKept ==
  ASSUME ReportInv, PassesInOrder', charged \subseteq charged',
         \A r \in Runs : run'[r].reported => run[r].reported \/ r \in charged',
         \A r \in Runs : post'[r].at = "mark" => post[r].at = "mark" \/ r \in charged'
  PROVE  ReportInv'
  BY DEF ReportInv, PostsInOrder, ReportedWasCharged

\* What the API, the agent and its events do keeps the order.
LEMMA RequestsReport ==
  ASSUME SpaceInv, ReportInv, NEW r \in Runs,
         Api(r) \/ Agent(r) \/ Events(r) \/ GoOverdue(r) \/ LoseRequests(r)
  PROVE  ReportInv'
  <1>u. /\ run \in [Runs -> Row] /\ post \in [Runs -> [at : {"none", "read", "write", "charge", "mark"},
                                                     state : Reports, started : BOOLEAN]]
    BY DEF SpaceInv, TypeOK
  <1>1. UNCHANGED pass
    BY DEF Api, Agent, Events, GoOverdue, LoseRequests, PassLimits, CreateRun, ReadCancel,
           WriteCancel, Deprovision, StartAgent, LoseAgent, PostStatus, ReadStatus, WriteStatus,
           PostCharge, PostMark
  <1>2. charged \subseteq charged'
    BY DEF Api, Agent, Events, GoOverdue, LoseRequests, PassLimits, CreateRun, ReadCancel,
           WriteCancel, Deprovision, StartAgent, LoseAgent, PostStatus, ReadStatus, WriteStatus,
           PostCharge, PostMark
  <1>3. PassesInOrder' BY <1>1, <1>2, OrderedStays DEF PassesInOrder, ReportInv
  <1>4. \A q \in Runs : run'[q].reported => run[q].reported \/ q \in charged'
    <2>1. CASE PostMark(r)
      <3>1. r \in charged BY <2>1 DEF PostMark, ReportInv, PostsInOrder
      <3>2. \A q \in Runs \ {r} : run'[q] = run[q] BY <2>1, <1>u DEF PostMark
      <3>3. QED BY <1>2, <3>1, <3>2
    <2>2. CASE CreateRun(r) BY <2>2, <1>u DEF CreateRun, Row
    <2>3. CASE WriteCancel(r) BY <2>3, <1>u DEF WriteCancel, Row
    <2>4. CASE WriteStatus(r)
      <3>1. \A q \in Runs : run'[q].reported = run[q].reported BY <2>4, <1>u DEF WriteStatus, Row
      <3>2. QED BY <3>1
    <2>5. CASE ~(PostMark(r) \/ CreateRun(r) \/ WriteCancel(r) \/ WriteStatus(r))
      <3>1. UNCHANGED run
        BY <2>5 DEF Api, Agent, Events, GoOverdue, LoseRequests, PassLimits, ReadCancel,
           Deprovision, StartAgent, LoseAgent, PostStatus, ReadStatus, PostCharge
      <3>2. QED BY <3>1
    <2>6. QED BY <2>1, <2>2, <2>3, <2>4, <2>5
  <1>5. \A q \in Runs : post'[q].at = "mark" => post[q].at = "mark" \/ q \in charged'
    <2>1. \A q \in Runs \ {r} : post'[q] = post[q]
      BY <1>u DEF Api, Agent, Events, GoOverdue, LoseRequests, PassLimits, CreateRun, ReadCancel,
           WriteCancel, Deprovision, StartAgent, LoseAgent, PostStatus, ReadStatus, WriteStatus,
           PostCharge, PostMark
    <2>2. CASE PostCharge(r)
      <3>1. post'[r] = NoPost \/ r \in charged' BY <2>2, <1>u DEF PostCharge
      <3>2. QED BY <2>1, <3>1 DEF NoPost
    <2>3. CASE PostStatus(r)
      <3>1. post'[r] = [NoPost EXCEPT !.at = "read", !.state = agent[r]] BY <2>3, <1>u DEF PostStatus
      <3>2. post'[r].at = "read" BY <3>1 DEF NoPost
      <3>3. QED BY <2>1, <3>2
    <2>4. CASE ReadStatus(r)
      <3>1. post'[r] = NoPost \/ post'[r].at = "write" BY <2>4, <1>u DEF ReadStatus
      <3>2. QED BY <2>1, <3>1 DEF NoPost
    <2>5. CASE WriteStatus(r)
      <3>1. post'[r] = NoPost \/ post'[r] = [NoPost EXCEPT !.at = "charge"]
        BY <2>5, <1>u DEF WriteStatus
      <3>2. post'[r].at # "mark" BY <3>1 DEF NoPost
      <3>3. QED BY <2>1, <3>2
    <2>6. CASE PostMark(r) \/ LoseRequests(r)
      <3>1. post'[r] = NoPost BY <2>6, <1>u DEF PostMark, LoseRequests
      <3>2. QED BY <2>1, <3>1 DEF NoPost
    <2>7. CASE Api(r) \/ StartAgent(r) \/ LoseAgent(r) \/ GoOverdue(r)
      <3>1. UNCHANGED post
        BY <2>7 DEF Api, GoOverdue, PassLimits, CreateRun, ReadCancel, WriteCancel, Deprovision,
           StartAgent, LoseAgent
      <3>2. QED BY <3>1
    <2>8. QED BY <2>2, <2>3, <2>4, <2>5, <2>6, <2>7 DEF Agent, Events
  <1>6. QED BY <1>2, <1>3, <1>4, <1>5, ReportKept

\* Taking up a run, and a charge or a mark that fails, keep the order.
LEMMA PassesReport ==
  ASSUME SpaceInv, ReportInv, NEW p \in Passes, NEW r \in Runs,
         Pick(p, r) \/ PickUnreported(p, r) \/ FailCharge(p, r)
  PROVE  ReportInv'
  <1>1. UNCHANGED <<run, post, charged>> BY DEF Pick, PickUnreported, FailCharge
  <1>2. PassesInOrder /\ run[r] \in Row /\ pass[p] \in Work BY DEF ReportInv, SpaceInv, TypeOK
  <1>3. CASE Pick(p, r)
    <2>1. Stage(run[r]) \in {<<"find">>, <<"check">>, <<"execute">>, <<"monitor">>, <<"upload">>}
      BY <1>3, Zenon DEF Pick, Stage, Active
    <2>2. {"find", "check", "execute", "monitor", "upload"} \subseteq Steps \ {"charge", "mark"}
      BY DEF Steps
    <2>3. Startable(Stage(run[r])) BY <2>1, <2>2, StartableLists
    <2>4. PassesInOrder' BY <1>1, <1>2, <1>3, <2>3, TakenUpOrdered DEF Pick
    <2>5. QED BY <1>1, <2>4, ReportKept
  <1>4. CASE PickUnreported(p, r)
    <2>1. PassesInOrder' BY <1>1, <1>2, <1>4, StartableLists, TakenUpOrdered DEF PickUnreported
    <2>2. QED BY <1>1, <2>1, ReportKept
  <1>5. CASE FailCharge(p, r)
    <2>1. pass[p].todo \in Seq(Steps) /\ Paired(pass[p].todo)
      BY <1>2 DEF PassesInOrder, Ordered, Work
    <2>2. CASE At(p, r, "charge") /\ Goto(p, After(p, 2))
      <3>1. Startable(After(p, 2)) BY <2>1, <2>2, SkippedStartable DEF At, After
      <3>2. PassesInOrder' BY <1>1, <1>2, <2>2, <3>1, GotoOrdered
      <3>3. QED BY <1>1, <3>2, ReportKept
    <2>3. CASE At(p, r, "mark") /\ Goto(p, After(p, 1))
      <3>1. Startable(After(p, 1)) BY <2>1, <2>3, SkippedStartable DEF At, After
      <3>2. PassesInOrder' BY <1>1, <1>2, <2>3, <3>1, GotoOrdered
      <3>3. QED BY <1>1, <3>2, ReportKept
    <2>4. QED BY <1>5, <2>2, <2>3 DEF FailCharge
  <1>6. QED BY <1>3, <1>4, <1>5

\* Each step of a pass keeps the order.
LEMMA StepsReport ==
  ASSUME SpaceInv, ReportInv, NEW p \in Passes, NEW r \in Runs, Step(p, r)
  PROVE  ReportInv'
  <1>u. run \in [Runs -> Row] /\ pass \in [Passes -> Work] /\ pass[p] \in Work
    BY DEF SpaceInv, TypeOK
  <1>v. PassesInOrder /\ Ordered(pass[p], charged) BY DEF ReportInv, PassesInOrder
  <1>w. pass[p].todo \in Seq(Steps) /\ Paired(pass[p].todo) BY <1>u, <1>v DEF Ordered, Work
  <1>s. ASSUME NEW s \in Steps \ {"charge", "mark"}, Goto(p, <<s>>), UNCHANGED <<run, post, charged>>
        PROVE  ReportInv'
    BY <1>s, <1>v, StartableLists, GotoOrdered, ReportKept
  <1>g. ASSUME NEW todo, Startable(todo), Goto(p, todo), UNCHANGED <<run, post, charged>>
        PROVE  ReportInv'
    BY <1>g, <1>v, GotoOrdered, ReportKept
  <1>d. ASSUME NEW s \in Steps \ {"charge"}, At(p, r, s), Done(p), UNCHANGED <<post, charged>>,
               \A q \in Runs : run'[q].reported = run[q].reported
        PROVE  ReportInv'
    <2>1. pass[p].todo # <<>> /\ Head(pass[p].todo) # "charge" BY <1>d DEF At
    <2>2. PassesInOrder' BY <1>d, <1>v, <2>1, DoneOrdered
    <2>3. QED BY <1>d, <2>2, ReportKept
  <1>a. {"find", "claim", "check", "to_initializing", "execute", "to_running", "init_failed",
         "no_space", "monitor", "timed_out", "fail", "cleanup", "upload", "finalize",
         "release"} \subseteq Steps \ {"charge", "mark"}
    BY DEF Steps
  <1>1. CASE FindWarm(p, r)
    <2>1. PICK found : pass' = [pass EXCEPT ![p].todo = <<"claim">>, ![p].found = found]
      BY <1>1 DEF FindWarm
    <2> DEFINE work == [pass[p] EXCEPT !.todo = <<"claim">>, !.found = found]
    <2>2. pass' = [pass EXCEPT ![p] = work] BY <2>1, <1>u
    <2>3. work.todo = <<"claim">> /\ work.run = pass[p].run BY <1>u DEF Work
    <2> HIDE DEF work
    <2>4. Startable(<<"claim">>) BY <1>a, StartableLists
    <2>5. Ordered(work, charged) BY <1>v, <2>3, <2>4 DEF Ordered, Startable
    <2>6. UNCHANGED <<run, post, charged>> BY <1>1 DEF FindWarm
    <2>7. PassesInOrder' BY <1>u, <1>v, <2>2, <2>5, <2>6 DEF PassesInOrder
    <2>8. QED BY <2>6, <2>7, ReportKept
  <1>2. CASE ClaimWarm(p, r)
    <2>1. \A q \in Runs : run'[q].reported = run[q].reported BY <1>2, <1>u DEF ClaimWarm, Row
    <2>2. QED BY <1>2, <1>a, <1>d, <2>1 DEF ClaimWarm
  <1>3. CASE ClaimRefused(p, r) BY <1>3, <1>a, <1>s DEF ClaimRefused
  <1>4. CASE CreateCold(p, r)
    <2>1. \A q \in Runs : run'[q].reported = run[q].reported BY <1>4, <1>u DEF CreateCold, Row
    <2>2. QED BY <1>4, <1>a, <1>d, <2>1 DEF CreateCold
  <1>5. CASE NoSpace(p, r)
    <2>1. \A q \in Runs : run'[q].reported = run[q].reported BY <1>5, <1>u DEF NoSpace, Row
    <2>2. QED BY <1>5, <1>a, <1>d, <2>1 DEF NoSpace
  <1>6. CASE CheckSpace(p, r)
    <2>1. PICK w \in pass[p].copy.space :
            Goto(p, CASE ws[w] = "RUNNING_ASSIGNED" -> <<"to_initializing">>
                      [] ws[w] \in {"FAILED", "TERMINATED"} -> <<"no_space">>
                      [] OTHER -> <<>>)
      BY <1>6 DEF CheckSpace
    <2>2. \E todo \in {<<"to_initializing">>, <<"no_space">>, <<>>} : Goto(p, todo)
      BY <2>1, Zenon
    <2>3. \A todo \in {<<"to_initializing">>, <<"no_space">>, <<>>} : Startable(todo)
      BY <1>a, StartableLists
    <2>4. UNCHANGED <<run, post, charged>> BY <1>6 DEF CheckSpace
    <2>5. QED BY <2>2, <2>3, <2>4, <1>g
  <1>7. CASE ToInitializing(p, r)
    <2>1. \A q \in Runs : run'[q].reported = run[q].reported BY <1>7, <1>u DEF ToInitializing, Row
    <2>2. QED BY <1>7, <1>a, <1>d, <2>1 DEF ToInitializing
  <1>8. CASE AwaitIp(p, r) \/ Execute(p, r)
    BY <1>8, <1>a, <1>s, <1>g, StartableLists DEF AwaitIp, Execute
  <1>9. CASE ToRunning(p, r)
    <2>1. \A q \in Runs : run'[q].reported = run[q].reported BY <1>9, <1>u DEF ToRunning, Row
    <2>2. QED BY <1>9, <1>a, <1>d, <2>1 DEF ToRunning
  <1>10. CASE InitFailed(p, r)
    <2>1. \A q \in Runs : run'[q].reported = run[q].reported BY <1>10, <1>u DEF InitFailed, Row
    <2>2. QED BY <1>10, <1>a, <1>d, <2>1 DEF InitFailed
  <1>11. CASE MonitorTimeout(p, r) BY <1>11, <1>g, StartableLists DEF MonitorTimeout
  <1>12. CASE MonitorSilent(p, r) BY <1>12, <1>g, StartableLists DEF MonitorSilent
  <1>13. CASE MonitorHealthy(p, r) BY <1>13, <1>g, StartableLists DEF MonitorHealthy
  <1>14. CASE WriteTimedOut(p, r)
    <2>1. \A q \in Runs : run'[q].reported = run[q].reported BY <1>14, <1>u DEF WriteTimedOut, Row
    <2>2. QED BY <1>14, <1>a, <1>d, <2>1 DEF WriteTimedOut
  <1>15. CASE WriteFailed(p, r)
    <2>1. \A q \in Runs : run'[q].reported = run[q].reported BY <1>15, <1>u DEF WriteFailed, Row
    <2>2. QED BY <1>15, <1>a, <1>d, <2>1 DEF WriteFailed
  <1>16. CASE UploadIsOver(p, r) BY <1>16, <1>g, StartableLists DEF UploadIsOver
  <1>17. CASE UploadGoesOn(p, r) BY <1>17, <1>g, StartableLists DEF UploadGoesOn
  <1>18. CASE Finalize(p, r)
    <2>1. \A q \in Runs : run'[q].reported = run[q].reported BY <1>18, <1>u DEF Finalize, Row
    <2>2. QED BY <1>18, <1>a, <1>d, <2>1 DEF Finalize
  <1>19. CASE ReleaseSpace(p, r)
    <2>1. Goto(p, <<"cleanup">>) \/ Goto(p, <<>>) BY <1>19 DEF ReleaseSpace
    <2>2. UNCHANGED <<run, post, charged>> BY <1>19 DEF ReleaseSpace
    <2>3. QED BY <2>1, <2>2, <1>a, <1>s, <1>g, StartableLists
  <1>20. CASE EnqueueCleanup(p, r) BY <1>20, <1>a, <1>d DEF EnqueueCleanup
  <1>21. CASE Charge(p, r)
    <2>1. UNCHANGED <<run, post>> /\ At(p, r, "charge") BY <1>21 DEF Charge
    <2>2. CASE Due(r)
      <3>1. charged' = charged \cup {r} /\ Done(p) BY <1>21, <2>2 DEF Charge
      <3>2. pass[p].todo # <<>> /\ r \in pass[p].run BY <2>1 DEF At
      <3>3. pass[p].run \subseteq {r} BY <1>v, <3>2 DEF Ordered
      <3>4. PassesInOrder' BY <1>v, <3>1, <3>2, <3>3, DoneOrdered
      <3>5. QED BY <2>1, <3>1, <3>4, ReportKept
    <2>3. CASE ~Due(r)
      <3>1. UNCHANGED charged /\ Goto(p, After(p, 2)) BY <1>21, <2>3 DEF Charge
      <3>2. Startable(After(p, 2)) BY <1>w, <2>1, SkippedStartable DEF At, After
      <3>3. QED BY <2>1, <3>1, <3>2, <1>g
    <2>4. QED BY <2>2, <2>3
  <1>22. CASE MarkReported(p, r)
    <2>1. At(p, r, "mark") /\ Done(p) /\ UNCHANGED <<post, charged>> BY <1>22 DEF MarkReported
    <2>2. pass[p].todo # <<>> /\ Head(pass[p].todo) = "mark" /\ r \in pass[p].run BY <2>1 DEF At
    <2>3. StartsWithMark(pass[p].todo) BY <1>w, <2>2 DEF StartsWithMark
    <2>4. r \in charged BY <1>v, <2>2, <2>3 DEF Ordered
    <2>5. \A q \in Runs \ {r} : run'[q] = run[q] BY <1>22, <1>u DEF MarkReported
    <2>6. PassesInOrder' BY <1>v, <2>1, <2>2, DoneOrdered
    <2>7. QED BY <2>1, <2>4, <2>5, <2>6, ReportKept
  <1>23. QED
    BY <1>1, <1>2, <1>3, <1>4, <1>5, <1>6, <1>7, <1>8, <1>9, <1>10, <1>11, <1>12, <1>13, <1>14,
       <1>15, <1>16, <1>17, <1>18, <1>19, <1>20, <1>21, <1>22 DEF Step

\* Every step keeps the order.
LEMMA ReportInvKept == SpaceInv /\ ReportInv /\ [Next]_vars => ReportInv'
  <1> SUFFICES ASSUME SpaceInv, ReportInv, [Next]_vars PROVE ReportInv'
    OBVIOUS
  <1>1. ASSUME NEW r \in Runs, Api(r) \/ Agent(r) \/ Events(r) \/ GoOverdue(r) \/ LoseRequests(r)
        PROVE  ReportInv'
    BY <1>1, RequestsReport
  <1>2. ASSUME NEW p \in Passes, NEW r \in Runs,
               Pick(p, r) \/ PickUnreported(p, r) \/ FailCharge(p, r)
        PROVE  ReportInv'
    BY <1>2, PassesReport
  <1>3. ASSUME NEW p \in Passes, NEW r \in Runs, Step(p, r) PROVE ReportInv'
    BY <1>3, StepsReport
  <1>4. ASSUME NEW p \in Passes, CrashPass(p) PROVE ReportInv'
    <2>1. pass' = [pass EXCEPT ![p] = Idle] /\ UNCHANGED <<run, post, charged>>
      BY <1>4 DEF CrashPass
    <2>2. pass \in [Passes -> Work] BY DEF SpaceInv, TypeOK
    <2>3. PassesInOrder' BY <2>1, <2>2, IdleOrdered DEF ReportInv, PassesInOrder
    <2>4. QED BY <2>1, <2>3, ReportKept
  <1>5. ASSUME NEW w \in Spaces, Others(w) PROVE ReportInv'
    <2>1. UNCHANGED <<run, pass, post, charged>>
      BY <1>5 DEF Others, FindIp, Boot, VerifyPass, EndSpace, CleanSpace
    <2>2. QED BY <2>1 DEF ReportInv, PassesInOrder, PostsInOrder, ReportedWasCharged
  <1>6. CASE UNCHANGED vars
    BY <1>6 DEF vars, ReportInv, PassesInOrder, PostsInOrder, ReportedWasCharged
  <1>7. QED BY <1>1, <1>2, <1>3, <1>4, <1>5, <1>6 DEF Next

-----------------------------------------------------------------------------
(* The theorems.                                                           *)

\* The executor's state stays well typed: whatever stale copies its passes write, a row
\* has one of the statuses and a pass one of the lists of steps.
THEOREM TypeCorrect == Spec => []TypeOK
  <1>1. Init => SpaceInv BY SpaceInvInitially
  <1>2. SpaceInv /\ [Next]_vars => SpaceInv' BY SpaceInvKept
  <1>3. SpaceInv => TypeOK BY DEF SpaceInv
  <1>4. QED BY <1>1, <1>2, <1>3, PTL DEF Spec

\* Two runs never have one workspace, although passes overlap and a warm workspace is
\* looked up before it is claimed, for any number of runs, workspaces and passes.
THEOREM SpacesAreNotShared == Spec => []SpacesNotShared
  <1>1. Init => SpaceInv BY SpaceInvInitially
  <1>2. SpaceInv /\ [Next]_vars => SpaceInv' BY SpaceInvKept
  <1>3. SpaceInv => SpacesNotShared BY DEF SpaceInv
  <1>4. QED BY <1>1, <1>2, <1>3, PTL DEF Spec

\* A run is marked as reported only after Stripe has its charge, however many passes and
\* events report it at once, whatever stale copies they write, and wherever they die: a
\* run that is marked is one that no later sweep has to charge.
THEOREM ReportedMeansCharged == Spec => []ReportedWasCharged
  <1>1. Init => SpaceInv BY SpaceInvInitially
  <1>2. Init => ReportInv
    BY IdleOrdered DEF Init, ReportInv, PassesInOrder, PostsInOrder, ReportedWasCharged, NoRow, NoPost
  <1>3. SpaceInv /\ [Next]_vars => SpaceInv' BY SpaceInvKept
  <1>4. SpaceInv /\ ReportInv /\ [Next]_vars => ReportInv' BY ReportInvKept
  <1>5. ReportInv => ReportedWasCharged BY DEF ReportInv
  <1>6. QED BY <1>1, <1>2, <1>3, <1>4, <1>5, PTL DEF Spec
=============================================================================
