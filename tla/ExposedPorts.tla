------------------------------ MODULE ExposedPorts ------------------------------
(***************************************************************************)
(* The ports of a workspace its user has exposed: the routes of the API    *)
(* (apps/api/src/routes/workspaces.ts), which write the table and nothing  *)
(* else, and the gateway, which reads the table when it starts             *)
(* (apps/gateway/src/index.ts:245) and serves from its memory.  Nobody     *)
(* calls the gateway's own routes for exposing and releasing a port: what  *)
(* the user changes reaches the gateway at its next start.                 *)
(***************************************************************************)
EXTENDS Naturals

CONSTANTS
    Services,       \* ports of the workspace
    ShareRequests,  \* bound: requests under way at a time
    Modes           \* PUBLIC and PRIVATE

VARIABLES
    shared,     \* port -> its row [mode, active], {} or one
    hosting,    \* whether the workspace is RUNNING_ASSIGNED
    sharing,    \* request -> what it has decided to write, {} or one
    proxy,      \* whether the gateway is up
    serving,    \* port -> the mode it is served in, {} or one
    chosen      \* <<port, mode>> that some request of the user has written

shareVars == <<shared, hosting, sharing, proxy, serving, chosen>>

SharedRow == [mode : Modes, active : BOOLEAN]

ShareDecisions ==
    [do : {"expose"}, of : Services, mode : Modes, found : BOOLEAN]
    \cup [do : {"update"}, of : Services, mode : Modes]

ShareTypeOK ==
    /\ shared \in [Services -> SUBSET SharedRow]
    /\ hosting \in BOOLEAN
    /\ sharing \in [ShareRequests -> SUBSET ShareDecisions]
    /\ proxy \in BOOLEAN
    /\ serving \in [Services -> SUBSET Modes]
    /\ chosen \subseteq Services \X Modes

ShareInit ==
    /\ shared = [s \in Services |-> {}]
    /\ hosting = TRUE
    /\ sharing = [r \in ShareRequests |-> {}]
    /\ proxy = FALSE
    /\ serving = [s \in Services |-> {}]
    /\ chosen = {}

Exposed(s) == \E row \in shared[s] : row.active

-----------------------------------------------------------------------------
(* The user.                                                               *)

\* POST /:id/ports: the workspace runs, and the port is not exposed already.
ExposeRead(r, s, m) ==
    /\ sharing[r] = {} /\ hosting /\ ~Exposed(s)
    /\ sharing' = [sharing EXCEPT ![r] =
                     {[do |-> "expose", of |-> s, mode |-> m, found |-> shared[s] # {}]}]
    /\ UNCHANGED <<shared, hosting, proxy, serving, chosen>>

\* A row that was found is made active again, whatever has become of it; a new one is
\* refused when another request has made one by then: one row per port, by the schema.
ExposeWrite(r) ==
    /\ \E d \in sharing[r] :
         /\ d.do = "expose"
         /\ IF d.found \/ shared[d.of] = {}
              THEN /\ shared' = [shared EXCEPT ![d.of] = {[mode |-> d.mode, active |-> TRUE]}]
                   /\ chosen' = chosen \cup {<<d.of, d.mode>>}
              ELSE UNCHANGED <<shared, chosen>>
    /\ sharing' = [sharing EXCEPT ![r] = {}]
    /\ UNCHANGED <<hosting, proxy, serving>>

\* DELETE: any row, also one that is released, or of a workspace that has ended.
ReleaseShare(s) ==
    /\ shared[s] # {}
    /\ shared' = [shared EXCEPT ![s] = {[row EXCEPT !.active = FALSE] : row \in @}]
    /\ UNCHANGED <<hosting, sharing, proxy, serving, chosen>>

\* PUT: the mode of an exposed port, which may be released before it is written.
UpdateRead(r, s, m) ==
    /\ sharing[r] = {} /\ Exposed(s)
    /\ sharing' = [sharing EXCEPT ![r] = {[do |-> "update", of |-> s, mode |-> m]}]
    /\ UNCHANGED <<shared, hosting, proxy, serving, chosen>>

UpdateWrite(r) ==
    /\ \E d \in sharing[r] :
         /\ d.do = "update"
         /\ shared' = [shared EXCEPT ![d.of] = {[row EXCEPT !.mode = d.mode] : row \in @}]
         /\ chosen' = chosen \cup {<<d.of, d.mode>>}
    /\ sharing' = [sharing EXCEPT ![r] = {}]
    /\ UNCHANGED <<hosting, proxy, serving>>

\* The workspace ends; its rows and its address stay as they are.
HostEnds ==
    /\ hosting /\ hosting' = FALSE
    /\ UNCHANGED <<shared, sharing, proxy, serving, chosen>>

-----------------------------------------------------------------------------
(* The gateway.                                                            *)

LoadShares ==
    /\ ~proxy /\ proxy' = TRUE
    /\ serving' = [s \in Services |-> {row.mode : row \in {x \in shared[s] : x.active}}]
    /\ UNCHANGED <<shared, hosting, sharing, chosen>>

CrashProxy ==
    /\ proxy /\ proxy' = FALSE
    /\ serving' = [s \in Services |-> {}]
    /\ UNCHANGED <<shared, hosting, sharing, chosen>>

ShareNext ==
    \/ HostEnds \/ LoadShares \/ CrashProxy
    \/ \E s \in Services : ReleaseShare(s)
    \/ \E r \in ShareRequests :
         \/ ExposeWrite(r) \/ UpdateWrite(r)
         \/ \E s \in Services, m \in Modes : ExposeRead(r, s, m) \/ UpdateRead(r, s, m)

ShareSpec == ShareInit /\ [][ShareNext]_shareVars

-----------------------------------------------------------------------------
(* Properties.                                                             *)

\* However the user's requests race and the gateway restarts: a port has one row, and it
\* is served in one mode, which the user has chosen for it at some time.  (That the mode
\* is the present one, and that the port is still exposed, the code does not provide.)
ServedAsChosen ==
    \A s \in Services :
        /\ \A a, b \in shared[s] : a = b
        /\ \A a, b \in serving[s] : a = b
        /\ \A m \in serving[s] : <<s, m>> \in chosen
=============================================================================
