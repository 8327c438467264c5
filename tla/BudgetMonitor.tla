------------------------------ MODULE BudgetMonitor ------------------------------
(***************************************************************************)
(* The budget monitor (worker/src/jobs/budget-monitor.ts): every fifteen   *)
(* minutes a pass compares the month's spend of each user, then of each    *)
(* organisation, with its limit; over it, and with AUTO_TERMINATE, it      *)
(* stops their workspaces, and from 90% of it on it warns, at most once in *)
(* four hours.  The accounts are listed at the start of each half of the   *)
(* pass and their spend is summed when their turn comes.  Passes may       *)
(* overlap and the worker may die anywhere in one.                         *)
(***************************************************************************)
EXTENDS Naturals

CONSTANTS
    Offices,        \* workspaces of the one user modelled
    OrgOffices,     \* those of them that the organisation owns
    BudgetPasses,   \* passes that may overlap
    MaxBudgetMoves, \* bound: changes of the spend, the limit or the action
    MaxLaunches,    \* bound: launches of a workspace after the first
    MaxBudgetDeaths \* bound: deaths of the worker

ASSUME BudgetAssumption ==
    /\ OrgOffices \subseteq Offices
    /\ {MaxBudgetMoves, MaxLaunches, MaxBudgetDeaths} \subseteq Nat

VARIABLES
    budget,         \* account -> [level: of its spend, auto: AUTO_TERMINATE, cooled: alerted lately]
    warned,         \* dedupe keys <<account, threshold>> of the month's warning mails
    office,         \* workspace -> "active" (the four listed statuses), "TERMINATING" or "gone"
    pass,           \* pass -> where it is, with the account it read and the workspaces it listed
    moves, launches, budgetDeaths

budgetVars == <<budget, warned, office, pass, moves, launches, budgetDeaths>>

Accounts == {"user", "org"}
Levels == {"ok", "warn", "over"}
OfficesOf(a) == IF a = "user" THEN Offices ELSE OrgOffices
Idle == [at |-> "idle"]

BudgetTypeOK ==
    /\ budget \in [Accounts -> [level : Levels, auto : BOOLEAN, cooled : BOOLEAN]]
    /\ warned \subseteq Accounts \X {"warn", "over"}
    /\ office \in [Offices -> {"active", "TERMINATING", "gone"}]
    /\ pass \in [BudgetPasses -> {Idle, [at |-> "orgs"]}
          \cup [at : {"check"}, acct : Accounts, auto : BOOLEAN, cooled : BOOLEAN]
          \cup [at : {"warn"}, acct : Accounts, level : {"warn", "over"}]
          \cup [at : {"stop"}, acct : Accounts, todo : SUBSET Offices]
          \cup [at : {"mark"}, acct : Accounts]]
    /\ moves \in 0 .. MaxBudgetMoves
    /\ launches \in 0 .. MaxLaunches
    /\ budgetDeaths \in 0 .. MaxBudgetDeaths

BudgetInit ==
    /\ budget = [a \in Accounts |-> [level |-> "ok", auto |-> FALSE, cooled |-> FALSE]]
    /\ warned = {}
    /\ office = [o \in Offices |-> "active"]
    /\ pass = [p \in BudgetPasses |-> Idle]
    /\ moves = 0 /\ launches = 0 /\ budgetDeaths = 0

-----------------------------------------------------------------------------
(* The accounts and their workspaces.                                      *)

\* Spend goes up as workspaces run; the customer changes the limit (which moves the level
\* anywhere) or the action (routes/budget.ts).
MoveBudget(a) ==
    /\ moves < MaxBudgetMoves /\ moves' = moves + 1
    /\ \E l \in Levels, auto \in BOOLEAN :
          budget' = [budget EXCEPT ![a] = [level |-> l, auto |-> auto, cooled |-> @.cooled]]
    /\ UNCHANGED <<warned, office, pass, launches, budgetDeaths>>

\* Four hours have passed since the last alert.
CooldownEnds(a) ==
    /\ budget[a].cooled
    /\ budget' = [budget EXCEPT ![a].cooled = FALSE]
    /\ UNCHANGED <<warned, office, pass, moves, launches, budgetDeaths>>

\* A launch looks at the user's budget, and at no organisation's.
LaunchOffice(o) ==
    /\ office[o] = "gone"
    /\ ~(budget["user"].level = "over" /\ budget["user"].auto)
    /\ launches < MaxLaunches /\ launches' = launches + 1
    /\ office' = [office EXCEPT ![o] = "active"]
    /\ UNCHANGED <<budget, warned, pass, moves, budgetDeaths>>

CloseOffice(o) ==
    /\ office[o] = "TERMINATING"
    /\ office' = [office EXCEPT ![o] = "gone"]
    /\ UNCHANGED <<budget, warned, pass, moves, launches, budgetDeaths>>

-----------------------------------------------------------------------------
(* A pass.                                                                 *)

\* The users with a limit are listed, with their action and last alert; when they are done,
\* the organisations.
ListAccounts(p) ==
    /\ pass[p].at \in {"idle", "orgs"}
    /\ LET a == IF pass[p] = Idle THEN "user" ELSE "org"
       IN pass' = [pass EXCEPT ![p] =
             [at |-> "check", acct |-> a, auto |-> budget[a].auto, cooled |-> budget[a].cooled]]
    /\ UNCHANGED <<budget, warned, office, moves, launches, budgetDeaths>>

\* Fault: the pass is over when the users are done.
AfterUsers(p) == Idle

AfterAccount(p) == IF pass[p].acct = "user" THEN [at |-> "orgs"] ELSE Idle

\* Over the limit with AUTO_TERMINATE the account's active workspaces are listed, and the
\* account is done if it has none; else it is warned, unless it was lately.
CheckBudget(p) ==
    /\ pass[p].at = "check"
    /\ LET a == pass[p].acct
           level == budget[a].level
           active == {o \in OfficesOf(a) : office[o] = "active"}
       IN \/ /\ level = "over" /\ pass[p].auto
             /\ pass' = [pass EXCEPT ![p] =
                   IF active = {} THEN AfterAccount(p)
                   ELSE [at |-> "stop", acct |-> a, todo |-> active]]
          \/ /\ ~(level = "over" /\ pass[p].auto)
             /\ pass' = [pass EXCEPT ![p] =
                   IF level # "ok" /\ ~pass[p].cooled
                   THEN [at |-> "warn", acct |-> a, level |-> level]
                   ELSE AfterAccount(p)]
    /\ UNCHANGED <<budget, warned, office, moves, launches, budgetDeaths>>

\* The workspace is made TERMINATING by its id, whatever became of it since it was listed,
\* and its cleanup is queued.
StopOffice(p, o) ==
    /\ pass[p].at = "stop" /\ o \in pass[p].todo
    /\ office' = [office EXCEPT ![o] = "TERMINATING"]
    /\ pass' = [pass EXCEPT ![p] =
          IF pass[p].todo = {o} THEN [at |-> "mark", acct |-> pass[p].acct]
          ELSE [pass[p] EXCEPT !.todo = @ \ {o}]]
    /\ UNCHANGED <<budget, warned, moves, launches, budgetDeaths>>

\* The alert and the webhook deliveries, then the mail, once per month and threshold.
QueueWarning(p) ==
    /\ pass[p].at = "warn"
    /\ warned' = warned \cup {<<pass[p].acct, pass[p].level>>}
    /\ pass' = [pass EXCEPT ![p] = [at |-> "mark", acct |-> pass[p].acct]]
    /\ UNCHANGED <<budget, office, moves, launches, budgetDeaths>>

MarkAlerted(p) ==
    /\ pass[p].at = "mark"
    /\ budget' = [budget EXCEPT ![pass[p].acct].cooled = TRUE]
    /\ pass' = [pass EXCEPT ![p] = AfterAccount(p)]
    /\ UNCHANGED <<warned, office, moves, launches, budgetDeaths>>

BudgetStops(p) ==
    /\ pass[p] # Idle
    /\ budgetDeaths < MaxBudgetDeaths /\ budgetDeaths' = budgetDeaths + 1
    /\ pass' = [pass EXCEPT ![p] = Idle]
    /\ UNCHANGED <<budget, warned, office, moves, launches>>

BudgetStep(p) ==
    \/ ListAccounts(p) \/ CheckBudget(p) \/ QueueWarning(p) \/ MarkAlerted(p)
    \/ \E o \in Offices : StopOffice(p, o)

BudgetNext ==
    \/ \E a \in Accounts : MoveBudget(a) \/ CooldownEnds(a)
    \/ \E o \in Offices : LaunchOffice(o) \/ CloseOffice(o)
    \/ \E p \in BudgetPasses : BudgetStep(p) \/ BudgetStops(p)

BudgetSpec ==
    /\ BudgetInit /\ [][BudgetNext]_budgetVars
    /\ \A a \in Accounts : WF_budgetVars(CooldownEnds(a))
    /\ \A p \in BudgetPasses : WF_budgetVars(BudgetStep(p))

-----------------------------------------------------------------------------
(* Properties.                                                             *)

\* A workspace of an account that stays over its limit with AUTO_TERMINATE is taken down,
\* through overlapping passes, launches that slip in and deaths of the worker.
OverBudgetStops ==
    \A a \in Accounts, o \in Offices :
        (budget[a].level = "over" /\ budget[a].auto /\ o \in OfficesOf(a) /\ office[o] = "active")
            ~> (office[o] # "active" \/ budget[a].level # "over" \/ ~budget[a].auto)
=============================================================================
