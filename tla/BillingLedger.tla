--------------------------- MODULE BillingLedger ---------------------------
(***************************************************************************)
(* What usage billing promises, with no threads, no retries and no outbox: *)
(* a usage session is opened at most once, never while its workspace has   *)
(* another one open, is closed once with a number of seconds, and those    *)
(* seconds, never others, are charged at most once.                        *)
(***************************************************************************)
EXTENDS Naturals

CONSTANTS Workspace,     \* workspaces
          MaxSessions    \* usage sessions a workspace may ever have (a bound)

Session == Workspace \X (1..MaxSessions)
WorkspaceOf(s) == s[1]

VARIABLE ledger          \* [Session -> [phase, seconds]]

Phase == {"unused", "open", "closed", "charged"}

LedgerTypeOK == ledger \in [Session -> [phase : Phase, seconds : Nat]]

LedgerInit == ledger = [s \in Session |-> [phase |-> "unused", seconds |-> 0]]

Open(s) ==
  /\ ledger[s].phase = "unused"
  /\ \A t \in Session : WorkspaceOf(t) = WorkspaceOf(s) => ledger[t].phase # "open"
  /\ ledger' = [ledger EXCEPT ![s].phase = "open"]

\* Closed with any number of seconds: how long the session was open is not said.
Close(s) ==
  /\ ledger[s].phase = "open"
  /\ ledger'[s].seconds \in Nat
  /\ ledger' = [ledger EXCEPT ![s] = [phase   |-> "closed",
                                     seconds |-> ledger'[s].seconds]]

Charge(s) ==
  /\ ledger[s].phase = "closed"
  /\ ledger' = [ledger EXCEPT ![s].phase = "charged"]

LedgerNext == \E s \in Session : Open(s) \/ Close(s) \/ Charge(s)

LedgerSpec == LedgerInit /\ [][LedgerNext]_ledger
=============================================================================
