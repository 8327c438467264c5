----------------------------- MODULE EventRetention -----------------------------
(***************************************************************************)
(* Event retention (worker/src/jobs/event-retention.ts): a pass, started   *)
(* between two and four in the morning, adds the events of the days        *)
(* between two ages to a rollup per day and user, one rollup at a time,    *)
(* and then deletes the events above the second age.  Nothing marks an     *)
(* event as added, so every pass adds it again while it is in the window.  *)
(***************************************************************************)
EXTENDS Naturals

CONSTANTS
    Groups,         \* the events of one user on one day: what shares a rollup
    Late,           \* those of the groups that are of day 1, not of day 0
    RollupAge,      \* events older than this many days are rolled up (7)
    DeleteAge,      \* and deleted when they are older than this (30)
    MaxMissed,      \* bound: days in a row without a complete pass
    LastDay         \* bound: days

ASSUME RetentionAssumption ==
    /\ Late \subseteq Groups
    /\ {RollupAge, DeleteAge, MaxMissed, LastDay} \subseteq Nat
    /\ RollupAge + MaxMissed < DeleteAge

VARIABLES
    today,          \* days since the first event
    stored,         \* groups whose events are still in the table
    rolled,         \* groups added to their rollup, once or more
    nightly,        \* the night's pass: what it has still to add, or where it is
    missed          \* days in a row without a complete pass

retentionVars == <<today, stored, rolled, nightly, missed>>

RetentionTypeOK ==
    /\ today \in 0 .. LastDay
    /\ stored \subseteq Groups
    /\ rolled \subseteq Groups
    /\ nightly \in [at : {"adding"}, todo : SUBSET Groups] \cup [at : {"due", "complete", "stopped"}]
    /\ missed \in 0 .. MaxMissed

Age(g) == today - IF g \in Late THEN 1 ELSE 0

RetentionInit ==
    /\ today = 0
    /\ stored = Groups
    /\ rolled = {}
    /\ nightly = [at |-> "complete"]
    /\ missed = 0

\* Fault: the last day of the window is left out.
WindowShort == {g \in stored : RollupAge < Age(g) /\ Age(g) < DeleteAge}

\* The days from thirty days ago to seven days ago, the latter excluded.
Window == {g \in stored : RollupAge < Age(g) /\ Age(g) <= DeleteAge}

StartRetention ==
    /\ nightly.at = "due"
    /\ nightly' = [at |-> "adding", todo |-> Window]
    /\ UNCHANGED <<today, stored, rolled, missed>>

AddRollup(g) ==
    /\ nightly.at = "adding" /\ g \in nightly.todo
    /\ rolled' = rolled \cup {g}
    /\ nightly' = [nightly EXCEPT !.todo = @ \ {g}]
    /\ UNCHANGED <<today, stored, missed>>

\* Events are deleted by the hour: of the day that is exactly thirty days old, those of
\* the hours before the pass.  A group counts as deleted with its first event.
DeleteOldEvents ==
    /\ nightly.at = "adding" /\ nightly.todo = {}
    /\ stored' = {g \in stored : Age(g) < DeleteAge}
    /\ nightly' = [at |-> "complete"]
    /\ UNCHANGED <<today, rolled, missed>>

\* A rollup cannot be written, or the worker dies: nothing more of the pass happens.
RetentionStops ==
    /\ nightly.at = "adding"
    /\ nightly' = [at |-> "stopped"]
    /\ UNCHANGED <<today, stored, rolled, missed>>

\* The date of the last pass is kept in memory: a worker that starts between two and four
\* runs the night's pass again.
WorkerStartsAtNight ==
    /\ nightly.at \in {"complete", "stopped"}
    /\ nightly' = [at |-> "due"]
    /\ UNCHANGED <<today, stored, rolled, missed>>

\* The pass of the day before has ended, or there was none.
NextDay ==
    /\ nightly.at # "adding"
    /\ today < LastDay /\ today' = today + 1
    /\ missed' = IF nightly.at = "complete" THEN 0 ELSE missed + 1
    /\ missed' <= MaxMissed
    /\ nightly' = [at |-> "due"]
    /\ UNCHANGED <<stored, rolled>>

RetentionNext ==
    \/ StartRetention \/ DeleteOldEvents \/ RetentionStops
    \/ WorkerStartsAtNight \/ NextDay
    \/ \E g \in Groups : AddRollup(g)

RetentionSpec == RetentionInit /\ [][RetentionNext]_retentionVars

-----------------------------------------------------------------------------
(* Properties.                                                             *)

\* No event is deleted before it was added to a rollup, through passes that stop half-way,
\* nights without a pass and restarts, as long as a pass completes within the window's
\* length.
DeletedWasRolledUp == Groups \ stored \subseteq rolled
=============================================================================
