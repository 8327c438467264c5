--------------------------- MODULE MCUsageBilling ---------------------------
(* Instances of UsageBilling for TLC.  Openers are alike, and closers too. *)
EXTENDS UsageBilling, TLC

Symmetry == Permutations(Opener) \cup Permutations(Closer)
=============================================================================
