------------------------------ MODULE Teardown ------------------------------
(***************************************************************************)
(* What taking down a workspace promises, with no passes, no crashes and   *)
(* no order of writes: once a cleanup is asked for, what the workspace     *)
(* holds is only ever given back, the entry points before the VM and the   *)
(* claim on the GPU last of all; nothing that its user works with goes     *)
(* without a cleanup that was asked for; and it is over, or its cleanup    *)
(* done, only when it holds nothing of that.  No more is promised of entry *)
(* points taken later.  A cleanup that is not done stays open until all    *)
(* its attempts have been made, and one made is never uncounted.           *)
(***************************************************************************)
EXTENDS Naturals

CONSTANTS Workspace,    \* workspaces
          MaxAttempts   \* attempts a cleanup has

VARIABLES teardown,     \* [Workspace -> [holds, over, cleanup, tries]]
          late          \* entry points taken after the cleanup was asked for

Holdings == {"vm", "gpu", "allocation", "endpoint", "lease"}

\* What is given back at once: the ports of the lease go with their endpoint.
Portions == {{"vm"}, {"gpu"}, {"allocation"}, {"endpoint"}, {"endpoint", "lease"}}

TeardownTypeOK ==
  /\ teardown \in [Workspace -> [holds : SUBSET Holdings, over : BOOLEAN,
                                 cleanup : {"none", "open", "DONE", "FAILED"},
                                 tries : 0 .. MaxAttempts]]
  /\ late \in [Workspace -> SUBSET {"endpoint", "lease"}]

TeardownInit ==
  /\ \E holds \in [Workspace -> {h \in SUBSET Holdings : {"vm", "gpu", "allocation"} \subseteq h}] :
       teardown = [w \in Workspace |-> [holds |-> holds[w], over |-> FALSE,
                                        cleanup |-> "none", tries |-> 0]]
  /\ late = [w \in Workspace |-> {}]

\* Every step is one of a single workspace.
Becomes(w, holds, over, cleanup, tries) ==
  teardown' = [teardown EXCEPT ![w] = [holds |-> holds, over |-> over,
                                       cleanup |-> cleanup, tries |-> tries]]

\* Asked for, or to be tried again; the workspace may come back to life meanwhile.
Open(w) ==
  /\ \E over \in {teardown[w].over, FALSE} :
       Becomes(w, teardown[w].holds, over, "open", teardown[w].tries)
  /\ UNCHANGED late

Revive(w) ==
  /\ Becomes(w, teardown[w].holds, FALSE, teardown[w].cleanup, teardown[w].tries)
  /\ UNCHANGED late

\* What follows takes a cleanup that was asked for.
AskedFor(w) == teardown[w].cleanup # "none"

\* One more attempt; those beyond the last are not counted.
Try(w) ==
  /\ AskedFor(w)
  /\ \E n \in {teardown[w].tries + 1, MaxAttempts} :
       n <= MaxAttempts /\ Becomes(w, teardown[w].holds, teardown[w].over, "open", n)
  /\ UNCHANGED late

\* GPUs and entry points may also be freed on their own, as the incident job does.
GiveBack(w, what) ==
  /\ what \subseteq {"gpu", "endpoint"} \/ AskedFor(w)
  /\ "vm" \in what => teardown[w].holds \cap {"endpoint", "lease"} = {}
  /\ "allocation" \in what => teardown[w].holds \subseteq {"allocation"}
  /\ Becomes(w, teardown[w].holds \ what, teardown[w].over, teardown[w].cleanup, teardown[w].tries)
  /\ late' = [late EXCEPT ![w] = @ \ what]

\* Entry points may be taken at any time.
TakeInTime(w, what) ==
  /\ ~AskedFor(w) /\ ~teardown[w].over
  /\ Becomes(w, teardown[w].holds \cup what, FALSE, "none", teardown[w].tries)
  /\ UNCHANGED late

TakeLate(w, what) ==
  /\ AskedFor(w)
  /\ late' = [late EXCEPT ![w] = @ \cup what]
  /\ UNCHANGED teardown

End(w) ==
  /\ AskedFor(w) /\ teardown[w].holds = {}
  /\ Becomes(w, {}, TRUE, teardown[w].cleanup, teardown[w].tries)
  /\ UNCHANGED late

Finish(w) ==
  /\ AskedFor(w) /\ teardown[w].holds = {}
  /\ Becomes(w, {}, teardown[w].over, "DONE", teardown[w].tries)
  /\ UNCHANGED late

GiveUp(w) ==
  /\ AskedFor(w) /\ teardown[w].tries = MaxAttempts
  /\ Becomes(w, teardown[w].holds, teardown[w].over, "FAILED", MaxAttempts)
  /\ UNCHANGED late

TeardownNext ==
  \E w \in Workspace :
    \/ Revive(w) \/ Open(w) \/ Try(w) \/ End(w) \/ Finish(w) \/ GiveUp(w)
    \/ \E what \in Portions : GiveBack(w, what)
    \/ \E what \in SUBSET {"endpoint", "lease"} : TakeInTime(w, what) \/ TakeLate(w, what)

TeardownSpec == TeardownInit /\ [][TeardownNext]_<<teardown, late>>
=============================================================================
