------------------------------- MODULE Incidents -------------------------------
(***************************************************************************)
(* Incident detection (worker/src/index.ts:398-684): a pass runs its       *)
(* checks in order; a check counts, and then opens, refreshes or resolves  *)
(* the incidents of its type in steps of their own.  Passes overlap, and   *)
(* the authors resolve incidents of their own accord                       *)
(* (routes/author/usage.ts).                                               *)
(*                                                                         *)
(* Two checks are modelled: that of the failure rate, which stands for     *)
(* those that count one thing and says nothing in an hour of few launches, *)
(* and that of the cleanup queue, which decides about two types.  The      *)
(* incidents of a type are counted, OPEN and ACKED ones alike, as all      *)
(* queries here do.                                                        *)
(***************************************************************************)
EXTENDS Naturals, Sequences

CONSTANTS
    Passes,         \* incidentDetectionTick runs that may overlap
    MaxThrows       \* bound: checks that fail

ASSUME IncidentAssumption == MaxThrows \in Nat

Types == {"spike", "cleanup_failed", "cleanup_backlog"}

VARIABLES
    bad,        \* types whose condition holds in the tables
    quiet,      \* whether fewer than five workspaces were launched in the last hour
    open,       \* type -> number of incidents that are not resolved
    pass,       \* pass -> check it is at, and what it still has to do there
    throws      \* checks that have failed

incidentVars == <<bad, quiet, open, pass, throws>>

Raise(t) == [do |-> "raise", type |-> t]
Resolve(t) == [do |-> "resolve", type |-> t]
Create(t) == [do |-> "create", type |-> t]

Duties == [do : {"raise", "create", "resolve"}, type : Types]

IncidentTypeOK ==
    /\ bad \subseteq Types /\ quiet \in BOOLEAN
    /\ open \in [Types -> Nat]
    /\ pass \in [Passes -> [check : 0 .. 2, duties : Seq(Duties)]]
    /\ throws \in 0 .. MaxThrows

IncidentInit ==
    /\ bad = {} /\ quiet = TRUE
    /\ open = [t \in Types |-> 0]
    /\ pass = [p \in Passes |-> [check |-> 0, duties |-> <<>>]]
    /\ throws = 0

\* The tables change.
ConditionChanges(t) ==
    /\ bad' = IF t \in bad THEN bad \ {t} ELSE bad \cup {t}
    /\ UNCHANGED <<quiet, open, pass, throws>>

LaunchesChange == quiet' = ~quiet /\ UNCHANGED <<bad, open, pass, throws>>

-----------------------------------------------------------------------------
(* The checks.                                                             *)

\* One thing is counted and compared with a limit.
CheckCount(t) == IF t \in bad THEN <<Raise(t)>> ELSE <<Resolve(t)>>

\* Too few launches for a rate: neither raised nor resolved.
CheckSpike == IF quiet THEN <<>> ELSE CheckCount("spike")

\* A dead letter hides the backlog; both are resolved once neither is there.
\* Fault: each is resolved only when it is looked at.
CheckCleanupApart ==
    IF "cleanup_failed" \in bad THEN <<Raise("cleanup_failed")>>
    ELSE IF "cleanup_backlog" \in bad THEN <<Raise("cleanup_backlog")>>
    ELSE <<Resolve("cleanup_backlog")>>

CheckCleanupBacklog ==
    IF "cleanup_failed" \in bad THEN <<Raise("cleanup_failed")>>
    ELSE IF "cleanup_backlog" \in bad THEN <<Raise("cleanup_backlog")>>
    ELSE <<Resolve("cleanup_backlog"), Resolve("cleanup_failed")>>

\* The pass begins, or goes on to its next check: the tables are counted.
Count(p) ==
    /\ pass[p].duties = <<>>
    /\ pass' = [pass EXCEPT ![p] =
                  CASE pass[p].check = 0 -> [check |-> 1, duties |-> CheckSpike]
                    [] pass[p].check = 1 -> [check |-> 2, duties |-> CheckCleanupBacklog]
                    [] pass[p].check = 2 -> [check |-> 0, duties |-> <<>>]]
    /\ UNCHANGED <<bad, quiet, open, throws>>

Duty(p, do) == pass[p].duties # <<>> /\ Head(pass[p].duties).do = do
TypeOf(p) == Head(pass[p].duties).type
Done(p) == pass' = [pass EXCEPT ![p].duties = Tail(@)]

\* A query fails: the rest of the checks is left out, there is no try around each.
CheckThrows(p) ==
    /\ pass[p].duties # <<>>
    /\ throws < MaxThrows /\ throws' = throws + 1
    /\ pass' = [pass EXCEPT ![p] = [check |-> 0, duties |-> <<>>]]
    /\ UNCHANGED <<bad, quiet, open>>

\* upsertIncident looks for one that is not resolved and refreshes it ...
FindIncident(p) ==
    /\ Duty(p, "raise")
    /\ pass' = [pass EXCEPT ![p].duties =
                  (IF open[TypeOf(p)] > 0 THEN <<>> ELSE <<Create(TypeOf(p))>>) \o Tail(@)]
    /\ UNCHANGED <<bad, quiet, open, throws>>

\* ... or opens one, whoever else has by then.
CreateIncident(p) ==
    /\ Duty(p, "create") /\ Done(p)
    /\ open' = [open EXCEPT ![TypeOf(p)] = @ + 1]
    /\ UNCHANGED <<bad, quiet, throws>>

\* resolveIncident: all of the type, acknowledged or not.
ResolveIncident(p) ==
    /\ Duty(p, "resolve") /\ Done(p)
    /\ open' = [open EXCEPT ![TypeOf(p)] = 0]
    /\ UNCHANGED <<bad, quiet, throws>>

-----------------------------------------------------------------------------
(* The authors.                                                            *)

\* Any incident may be resolved, also while its condition lasts.
ResolveByAuthor(t) ==
    /\ open[t] > 0
    /\ open' = [open EXCEPT ![t] = @ - 1]
    /\ UNCHANGED <<bad, quiet, pass, throws>>

-----------------------------------------------------------------------------
WithinPass(p) ==
    Count(p) \/ FindIncident(p) \/ CreateIncident(p) \/ ResolveIncident(p)

IncidentNext ==
    \/ \E p \in Passes : WithinPass(p) \/ CheckThrows(p)
    \/ LaunchesChange
    \/ \E t \in Types : ConditionChanges(t) \/ ResolveByAuthor(t)

IncidentSpec ==
    /\ IncidentInit /\ [][IncidentNext]_incidentVars
    /\ \A p \in Passes : WF_incidentVars(WithinPass(p))

\* Once nothing is wrong any more, all incidents are at last resolved, those two passes
\* have opened for one condition included (index.ts:402: "single-writer for incidents"
\* is not what the overlapping ticks provide).  That holds while workspaces are launched:
\* in quiet hours the incident of the failure rate stays open (see README).
IncidentsClear == <>[](bad = {} /\ ~quiet) => <>[](\A t \in Types : open[t] = 0)
=============================================================================
