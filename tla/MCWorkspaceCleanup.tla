------------------------- MODULE MCWorkspaceCleanup -------------------------
(* Instances of WorkspaceCleanup for TLC.  Passes of a job are alike.      *)
EXTENDS WorkspaceCleanup, TLC

Symmetry == Permutations(Cleaner) \cup Permutations(Waiter)

\* No step looks at the usage sessions, and neither do the invariants of this run.
ButBilled == <<status, held, late, job, fresh, threads, faults>>
=============================================================================
