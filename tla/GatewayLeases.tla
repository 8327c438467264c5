---------------------------- MODULE GatewayLeases ----------------------------
(***************************************************************************)
(* The port leases of the gateway (apps/gateway/src/index.ts): its memory  *)
(* of who has which ports, the endpoint table it shares with the API and   *)
(* the worker, and its reconciliation of the two when it starts.           *)
(*                                                                         *)
(* A call for ports is made by a launch for the workspace it has assigned; *)
(* two launches may assign one workspace (LaunchOperations), so that there *)
(* are several calls for it, one after the other or at once.  One cleaner  *)
(* takes a workspace down.  A lease gives a port to each of the Columns of *)
(* the endpoint table, which are unique each on its own, over released     *)
(* rows too.  The gateway may die at any moment, the API may give up       *)
(* waiting (10 s), and the cleaner's call to the gateway may fail.         *)
(***************************************************************************)
EXTENDS Naturals, FiniteSets

CONSTANTS
    Workspaces,     \* workspaces that ports are asked for
    Calls,          \* calls for ports, each by a launch, for the workspace it assigned
    Ports,          \* the gateway's port range
    Columns         \* the port columns of the endpoint table

ASSUME ColumnsAssumption == Columns # {}

VARIABLES
    space,      \* workspace -> live, ending (being taken down) or TERMINATED
    endpoint,   \* workspace -> its endpoint row, {} or one
    gate,       \* the gateway process
    stale,      \* leases its reconciliation still has to release
    cache,      \* workspace -> activeAllocations, {} or one lease
    taken,      \* allocatedPorts
    ask,        \* call -> where it is, its workspace, and the lease it has found or picked
    told,       \* live workspace -> the lease its user is told, {} or one
    cleaner,    \* workspace -> where its cleanup is
    contested   \* history: live workspaces that two calls were made for at once

leaseVars ==
    <<space, endpoint, gate, stale, cache, taken, ask, told, cleaner, contested>>

-----------------------------------------------------------------------------
(* Leases and rows.                                                        *)

Lease == {f \in [Columns -> Ports] : \A c, d \in Columns : c # d => f[c] # f[d]}

PortsOf(leases) == {f[c] : f \in leases, c \in Columns}

EndpointRow == [lease : Lease, released : BOOLEAN]

Unreleased(w) == \E row \in endpoint[w] : ~row.released

LeaseOf(w) == {row.lease : row \in endpoint[w]}

AskStates == {"new", "asked", "read", "upsert", "cache", "answered", "written", "over"}

\* The gateway is at work on the call, in memory: its death is the end of it.
InGateway(k) == ask[k].at \in {"asked", "read", "upsert", "cache"}
CleanerStates == {"no", "call", "memory", "row", "status", "done"}

LeaseTypeOK ==
    /\ space \in [Workspaces -> {"live", "ending", "TERMINATED"}]
    /\ endpoint \in [Workspaces -> SUBSET EndpointRow]
    /\ gate \in {"down", "loaded", "reconciling", "up"}
    /\ stale \in SUBSET Workspaces
    /\ cache \in [Workspaces -> SUBSET Lease]
    /\ taken \in SUBSET Ports
    /\ ask \in [Calls -> [at : AskStates, space : Workspaces \cup {"none"}, lease : SUBSET Lease]]
    /\ told \in [Workspaces -> SUBSET Lease]
    /\ cleaner \in [Workspaces -> CleanerStates]
    /\ contested \in SUBSET Workspaces

LeaseInit ==
    /\ space = [w \in Workspaces |-> "live"]
    /\ endpoint = [w \in Workspaces |-> {}]
    /\ gate = "down"
    /\ stale = {}
    /\ cache = [w \in Workspaces |-> {}]
    /\ taken = {}
    /\ ask = [k \in Calls |-> [at |-> "new", space |-> "none", lease |-> {}]]
    /\ told = [w \in Workspaces |-> {}]
    /\ cleaner = [w \in Workspaces |-> "no"]
    /\ contested = {}

-----------------------------------------------------------------------------
(* Start, reconciliation, crash.                                           *)

\* Fault: the memory is left to fill up with requests.
LoadLeasesLazily ==
    /\ gate = "down"
    /\ gate' = "loaded"
    /\ UNCHANGED <<space, endpoint, stale, cache, taken, ask, told, cleaner, contested>>

\* The unreleased leases are loaded into memory, before the gateway listens ...
LoadLeases ==
    /\ gate = "down"
    /\ gate' = "loaded"
    /\ cache' = [w \in Workspaces |-> IF Unreleased(w) THEN LeaseOf(w) ELSE {}]
    /\ taken' = UNION {PortsOf(LeaseOf(w)) : w \in {v \in Workspaces : Unreleased(v)}}
    /\ UNCHANGED <<space, endpoint, stale, ask, told, cleaner, contested>>

\* ... then the leases of workspaces that are gone are listed ...
ListStale ==
    /\ gate = "loaded"
    /\ gate' = "reconciling"
    /\ stale' = {w \in Workspaces : Unreleased(w) /\ space[w] = "TERMINATED"}
    /\ UNCHANGED <<space, endpoint, cache, taken, ask, told, cleaner, contested>>

Released(w) == [endpoint EXCEPT ![w] = {[row EXCEPT !.released = TRUE] : row \in @}]

\* ... released, and dropped from memory with their ports.
ReleaseStale(w) ==
    /\ gate = "reconciling" /\ w \in stale
    /\ endpoint' = Released(w)
    /\ cache' = [cache EXCEPT ![w] = {}]
    /\ taken' = taken \ PortsOf(LeaseOf(w))
    /\ stale' = stale \ {w}
    /\ UNCHANGED <<space, gate, ask, told, cleaner, contested>>

Listen ==
    /\ gate = "reconciling" /\ stale = {}
    /\ gate' = "up"
    /\ UNCHANGED <<space, endpoint, stale, cache, taken, ask, told, cleaner, contested>>

\* The process dies: its memory and the requests in it are gone; their callers see
\* an error (a launch fails, a cleanup goes on or tries again).
CrashGateway ==
    /\ gate # "down"
    /\ gate' = "down"
    /\ stale' = {}
    /\ cache' = [w \in Workspaces |-> {}]
    /\ taken' = {}
    /\ ask' = [k \in Calls |->
                 IF InGateway(k) THEN [at |-> "over", space |-> "none", lease |-> {}] ELSE ask[k]]
    /\ cleaner' = [w \in Workspaces |->
                     IF cleaner[w] = "memory" THEN "call" ELSE cleaner[w]]
    /\ UNCHANGED <<space, endpoint, told, contested>>

-----------------------------------------------------------------------------
(* Allocation.                                                             *)

At(k, w, at) == ask[k].at = at /\ ask[k].space = w

\* The call for w goes on to the next await, with the lease it is about, or is over.
Goes(k, w, at, lease) == ask' = [ask EXCEPT ![k] = [at |-> at, space |-> w, lease |-> lease]]

IsOver(k) == ask' = [ask EXCEPT ![k] = [at |-> "over", space |-> "none", lease |-> {}]]

\* The API asks for the ports of a workspace its launch has assigned, which may have
\* been taken down by then.  A cached lease is the answer.
AskPorts(k, w) ==
    /\ ask[k].at = "new" /\ gate = "up"
    /\ IF cache[w] # {} THEN Goes(k, w, "answered", cache[w]) ELSE Goes(k, w, "asked", {})
    /\ contested' = IF space[w] = "live" /\ \E j \in Calls : ask[j].space = w /\ InGateway(j)
                      THEN contested \cup {w} ELSE contested
    /\ UNCHANGED <<space, endpoint, gate, stale, cache, taken, told, cleaner>>

\* The row is read; other calls, and a cleanup, may come before what follows from it.
ReadRow(k, w) ==
    /\ At(k, w, "asked")
    /\ Goes(k, w, "read", IF Unreleased(w) THEN LeaseOf(w) ELSE {})
    /\ UNCHANGED <<space, endpoint, gate, stale, cache, taken, told, cleaner, contested>>

\* An unreleased row is the answer, and goes into memory.
RebuildEntry(k, w) ==
    /\ At(k, w, "read") /\ ask[k].lease # {}
    /\ cache' = [cache EXCEPT ![w] = ask[k].lease]
    /\ taken' = taken \cup PortsOf(ask[k].lease)
    /\ Goes(k, w, "answered", ask[k].lease)
    /\ UNCHANGED <<space, endpoint, gate, stale, told, cleaner, contested>>

\* Otherwise free ports are picked and taken at once: getUniquePort is synchronous.
PickPorts(k, w) ==
    /\ At(k, w, "read") /\ ask[k].lease = {}
    /\ \E lease \in Lease :
         /\ PortsOf({lease}) \cap taken = {}
         /\ taken' = taken \cup PortsOf({lease})
         /\ Goes(k, w, "upsert", {lease})
    /\ UNCHANGED <<space, endpoint, gate, stale, cache, told, cleaner, contested>>

\* A thousand random ports were all taken: the request fails, and the ports it has
\* picked before stay taken, outside the try block that would free them.
PickExhausted(k, w) ==
    /\ At(k, w, "read") /\ ask[k].lease = {}
    /\ taken # {}
    /\ \E picked \in SUBSET (Ports \ taken) :
         /\ Cardinality(picked) < Cardinality(Columns)
         /\ taken' = taken \cup picked
    /\ IsOver(k)
    /\ UNCHANGED <<space, endpoint, gate, stale, cache, told, cleaner, contested>>

\* Each port column is unique over all rows, released ones included.
Refused(w, lease) ==
    \E v \in Workspaces \ {w} : \E row \in endpoint[v], c \in Columns : row.lease[c] = lease[c]

Upserted(w, lease) ==
    /\ ~Refused(w, lease)
    /\ endpoint' = [endpoint EXCEPT ![w] = {[lease |-> lease, released |-> FALSE]}]

\* The database first ...
UpsertLease(k, w) ==
    /\ At(k, w, "upsert")
    /\ \E lease \in ask[k].lease : Upserted(w, lease)
    /\ Goes(k, w, "cache", ask[k].lease)
    /\ UNCHANGED <<space, gate, stale, cache, taken, told, cleaner, contested>>

\* ... which may refuse: the ports are freed again ...
UpsertFails(k, w) ==
    /\ At(k, w, "upsert")
    /\ \E lease \in ask[k].lease : Refused(w, lease)
    /\ taken' = taken \ PortsOf(ask[k].lease)
    /\ IsOver(k)
    /\ UNCHANGED <<space, endpoint, gate, stale, cache, told, cleaner, contested>>

\* ... and then the memory.
CacheLease(k, w) ==
    /\ At(k, w, "cache")
    /\ cache' = [cache EXCEPT ![w] = ask[k].lease]
    /\ Goes(k, w, "answered", ask[k].lease)
    /\ UNCHANGED <<space, endpoint, gate, stale, taken, told, cleaner, contested>>

\* The answer reaches the API, which upserts the row once more, unreleased.
UpsertAgain(k, w) ==
    /\ At(k, w, "answered")
    /\ \E lease \in ask[k].lease : Upserted(w, lease)
    /\ Goes(k, w, "written", ask[k].lease)
    /\ UNCHANGED <<space, gate, stale, cache, taken, told, cleaner, contested>>

\* The indexes refuse it, or nobody waits for the answer: the API gives up after ten
\* seconds, while the gateway goes on with the call.
AnswerDropped(k) ==
    /\ ask[k].at = "answered"
    /\ IsOver(k)
    /\ UNCHANGED <<space, endpoint, gate, stale, cache, taken, told, cleaner, contested>>

\* Then it writes the ports to the workspace, where the user finds them.
TellPorts(k, w) ==
    /\ At(k, w, "written")
    /\ told' = IF space[w] = "live" THEN [told EXCEPT ![w] = ask[k].lease] ELSE told
    /\ IsOver(k)
    /\ UNCHANGED <<space, endpoint, gate, stale, cache, taken, cleaner, contested>>

-----------------------------------------------------------------------------
(* Release.                                                                *)

\* The workspace is taken down, at any time of its launch; what its user was told is
\* no concern any more.
EndWorkspaceOf(w) ==
    /\ space[w] = "live"
    /\ space' = [space EXCEPT ![w] = "ending"]
    /\ cleaner' = [cleaner EXCEPT ![w] = "call"]
    /\ told' = [told EXCEPT ![w] = {}] /\ contested' = contested \ {w}
    /\ UNCHANGED <<endpoint, gate, stale, cache, taken, ask>>

\* POST /internal/gateway/release: the row first ...
ReleaseInDb(w) ==
    /\ cleaner[w] = "call" /\ gate = "up"
    /\ endpoint' = Released(w)
    /\ cleaner' = [cleaner EXCEPT ![w] = "memory"]
    /\ UNCHANGED <<space, gate, stale, cache, taken, ask, told, contested>>

\* ... and then the memory, if it has the workspace.
ReleaseInMemory(w) ==
    /\ cleaner[w] = "memory"
    /\ taken' = taken \ PortsOf(cache[w])
    /\ cache' = [cache EXCEPT ![w] = {}]
    /\ cleaner' = [cleaner EXCEPT ![w] = "row"]
    /\ UNCHANGED <<space, endpoint, gate, stale, ask, told, contested>>

\* Where the call is best effort, the cleaner goes on without it.
ReleaseUnreachable(w) ==
    /\ cleaner[w] = "call"
    /\ cleaner' = [cleaner EXCEPT ![w] = "row"]
    /\ UNCHANGED <<space, endpoint, gate, stale, cache, taken, ask, told, contested>>

\* The cleaner releases the row itself, and ends the workspace.
ReleaseRow(w) ==
    /\ cleaner[w] = "row"
    /\ endpoint' = Released(w)
    /\ cleaner' = [cleaner EXCEPT ![w] = "status"]
    /\ UNCHANGED <<space, gate, stale, cache, taken, ask, told, contested>>

MarkTerminated(w) ==
    /\ cleaner[w] = "status"
    /\ space' = [space EXCEPT ![w] = "TERMINATED"]
    /\ cleaner' = [cleaner EXCEPT ![w] = "done"]
    /\ UNCHANGED <<endpoint, gate, stale, cache, taken, ask, told, contested>>

\* Fault: a row that is still in memory is taken for a live lease.
ReleaseLeakLate(w) ==
    /\ space[w] = "TERMINATED" /\ Unreleased(w) /\ cache[w] = {}
    /\ endpoint' = Released(w)
    /\ UNCHANGED <<space, gate, stale, cache, taken, ask, told, cleaner, contested>>

\* checkPortLeaks: a row of a workspace that is gone is released; the gateway is
\* not told, and keeps its memory of it.
ReleaseLeak(w) ==
    /\ space[w] = "TERMINATED" /\ Unreleased(w)
    /\ endpoint' = Released(w)
    /\ UNCHANGED <<space, gate, stale, cache, taken, ask, told, cleaner, contested>>

-----------------------------------------------------------------------------
Reconcile == LoadLeases \/ ListStale \/ (\E w \in Workspaces : ReleaseStale(w)) \/ Listen

Allocate(k) ==
    \/ \E w \in Workspaces :
         \/ AskPorts(k, w) \/ ReadRow(k, w) \/ RebuildEntry(k, w) \/ PickPorts(k, w)
         \/ PickExhausted(k, w) \/ UpsertLease(k, w) \/ UpsertFails(k, w) \/ CacheLease(k, w)
         \/ UpsertAgain(k, w) \/ TellPorts(k, w)
    \/ AnswerDropped(k)

Clean(w) ==
    \/ ReleaseInDb(w) \/ ReleaseInMemory(w) \/ ReleaseUnreachable(w)
    \/ ReleaseRow(w) \/ MarkTerminated(w)

LeaseNext ==
    \/ Reconcile \/ CrashGateway
    \/ \E k \in Calls : Allocate(k)
    \/ \E w \in Workspaces : EndWorkspaceOf(w) \/ Clean(w) \/ ReleaseLeak(w)

LeaseSpec ==
    /\ LeaseInit /\ [][LeaseNext]_leaseVars
    /\ \A w \in Workspaces : WF_leaseVars(ReleaseLeak(w))

-----------------------------------------------------------------------------
(* Properties.                                                             *)

\* What the gateway owes the caller it has told a lease: the row stays unreleased, and
\* the gateway that listens has it in memory.
Keeps(w, lease) ==
    /\ endpoint[w] = {[lease |-> lease, released |-> FALSE]}
    /\ gate = "up" => cache[w] = {lease}

\* A lease lasts as long as its workspace, across restarts, the reconciliation, whatever
\* happens to other workspaces (the header of the gateway: "On crash/restart, cache is
\* rebuilt from DB, no leases are lost"), and later calls for the same workspace, which
\* are answered with it; unless two calls for it were in the gateway at once.
LeaseSurvives ==
    \A w \in Workspaces \ contested : \A lease \in told[w] :
        Keeps(w, lease)

\* The same of every workspace ("Idempotent: check cache first, then DB",
\* apps/gateway/src/index.ts:345).  It does not hold (LeaseReplaced.cfg): two calls that
\* both have found no row pick a lease each.
LeaseNeverReplaced ==
    \A w \in Workspaces : \A lease \in told[w] : Keeps(w, lease)

\* Two live workspaces whose calls did not overlap are told different ports in each column,
\* also when the row of one is opened again behind its cleanup.
ToldApartInColumns ==
    \A v, w \in Workspaces \ contested :
        v # w => \A f \in told[v], g \in told[w], c \in Columns : f[c] # g[c]

\* No port is told to two such workspaces, in whatever columns ("Port uniqueness under pressure",
\* tests/stress/gateway-stress.test.ts:7).  It does not hold (SharedPort.cfg): see README.
PortToldOnce ==
    \A v, w \in Workspaces \ contested :
        v # w => PortsOf(told[v]) \cap PortsOf(told[w]) = {}

\* The lease of a workspace that is gone is at last released for good, also when a
\* late upsert of the API has opened it again.
TerminalLeaseReleased ==
    \A w \in Workspaces : (space[w] = "TERMINATED") ~> []~Unreleased(w)
=============================================================================
