--------------------------- MODULE LaunchContract ---------------------------
(***************************************************************************)
(* What an idempotent launch promises, with no tables, retries, races or   *)
(* polling: an operation, named by a user and an idempotency key, is begun *)
(* once, for one payload; it launches one workspace, which is no other     *)
(* operation's, or fails, and that is final; and whoever is answered, is   *)
(* answered with that outcome.  One request alone may be told of a failure *)
(* though the operation has launched: the next one is told of the launch.  *)
(***************************************************************************)
CONSTANTS Operation, Payload, Workspace, Request

VARIABLES outcome,   \* [Operation -> [phase, payload, ws]]
          launched,  \* answers given: (request, operation, payload, workspace)
          refused    \* answers given: (request, operation)

Outcome == [phase : {"none", "open", "launched", "failed"},
            payload : SUBSET Payload, ws : SUBSET Workspace]

ContractTypeOK ==
  /\ outcome \in [Operation -> Outcome]
  /\ launched \subseteq Request \X Operation \X Payload \X Workspace
  /\ refused \subseteq Request \X Operation

ContractInit ==
  /\ outcome = [o \in Operation |-> [phase |-> "none", payload |-> {}, ws |-> {}]]
  /\ launched = {}
  /\ refused = {}

Begin(o, p) ==
  /\ outcome[o].phase = "none"
  /\ outcome' = [outcome EXCEPT ![o] = [phase |-> "open", payload |-> {p}, ws |-> {}]]
  /\ UNCHANGED <<launched, refused>>

Launch(o, w) ==
  /\ outcome[o].phase = "open"
  /\ \A other \in Operation : w \notin outcome[other].ws
  /\ outcome' = [outcome EXCEPT ![o] = [@ EXCEPT !.phase = "launched", !.ws = {w}]]
  /\ UNCHANGED <<launched, refused>>

Fail(o) ==
  /\ outcome[o].phase = "open"
  /\ outcome' = [outcome EXCEPT ![o] = [@ EXCEPT !.phase = "failed"]]
  /\ UNCHANGED <<launched, refused>>

Unanswered(r) == (\A a \in launched : a[1] # r) /\ (\A a \in refused : a[1] # r)

\* A request with another payload than the operation's is never told of it.
AnswerLaunched(r, o) ==
  \E p \in outcome[o].payload, w \in outcome[o].ws :
    /\ Unanswered(r)
    /\ launched' = launched \cup {<<r, o, p, w>>}
    /\ UNCHANGED <<outcome, refused>>

AnswerFailed(r, o) ==
  /\ outcome[o].phase = "failed"
  /\ Unanswered(r)
  /\ refused' = refused \cup {<<r, o>>}
  /\ UNCHANGED <<outcome, launched>>

\* The launch was recorded, and the call that recorded it was cut off.
AnswerCutOff(r, o) ==
  /\ outcome[o].phase = "launched"
  /\ \A a \in refused : a[2] # o
  /\ Unanswered(r)
  /\ refused' = refused \cup {<<r, o>>}
  /\ UNCHANGED <<outcome, launched>>

ContractNext ==
  \E o \in Operation :
    \/ \E p \in Payload : Begin(o, p)
    \/ \E w \in Workspace : Launch(o, w)
    \/ Fail(o)
    \/ \E r \in Request : AnswerLaunched(r, o) \/ AnswerFailed(r, o) \/ AnswerCutOff(r, o)

contractVars == <<outcome, launched, refused>>

ContractSpec == ContractInit /\ [][ContractNext]_contractVars
=============================================================================
