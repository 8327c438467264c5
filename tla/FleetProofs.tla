------------------------------- MODULE FleetProofs -------------------------------
(***************************************************************************)
(* Proofs about the fleet's components: the port leases of the gateway     *)
(* last as long as their workspaces and are apart in each column, where    *)
(* calls for one workspace do not overlap; a volume in use is attached; an *)
(* exposed port is served in a mode its user has chosen; the check of a    *)
(* tick passes in one worker at a time.  Each is proved of the component's *)
(* own steps, some are carried over to the composition of Fleet, whose     *)
(* steps are steps of the component or leave its variables alone.          *)
(***************************************************************************)
EXTENDS Fleet, TLAPS

-----------------------------------------------------------------------------
(* What a step of the composition is for a component.                      *)

\* The composition starts where the components do.
LEMMA FleetStarts == FleetInit => LeaseInit /\ VolumeInit /\ ShareInit
  BY DEF FleetInit

\* A step of the composition is a step of the leases, or not their business.
LEMMA FleetStepsLeases == [FleetNext]_fleetVars => [LeaseNext]_leaseVars
  BY DEF FleetNext, fleetVars, leaseVars

\* ... and so for the volumes ...
LEMMA FleetStepsVolumes == [FleetNext]_fleetVars => [VolumeNext]_volumeVars
  BY DEF FleetNext, fleetVars, volumeVars

\* ... and for the exposed ports.
LEMMA FleetStepsShares == [FleetNext]_fleetVars => [ShareNext]_shareVars
  BY DEF FleetNext, fleetVars, shareVars

-----------------------------------------------------------------------------
(* Leases: types.                                                          *)

CallRow == [at : AskStates, space : Workspaces \cup {"none"}, lease : SUBSET Lease]

\* The leases start well typed.
LEMMA LeaseTypeInitially == LeaseInit => LeaseTypeOK
  BY DEF LeaseInit, LeaseTypeOK, AskStates, CleanerStates

\* Releasing a row leaves a well-typed table.
LEMMA ReleasedType ==
  ASSUME endpoint \in [Workspaces -> SUBSET EndpointRow], NEW w \in Workspaces
  PROVE  Released(w) \in [Workspaces -> SUBSET EndpointRow]
  <1>1. ASSUME NEW row \in endpoint[w] PROVE [row EXCEPT !.released = TRUE] \in EndpointRow
    <2>1. row \in [lease : Lease, released : BOOLEAN] BY DEF EndpointRow
    <2>2. [row EXCEPT !.released = TRUE] \in [lease : Lease, released : BOOLEAN] BY <2>1
    <2>3. QED BY <2>2 DEF EndpointRow
  <1>2. {[row EXCEPT !.released = TRUE] : row \in endpoint[w]} \in SUBSET EndpointRow
    BY <1>1
  <1>3. QED BY <1>2 DEF Released

\* The rows name leases.
LEMMA LeaseOfType ==
  ASSUME LeaseTypeOK, NEW w \in Workspaces
  PROVE  LeaseOf(w) \in SUBSET Lease
  BY DEF LeaseTypeOK, LeaseOf, EndpointRow

\* A call that goes on, or is over, is well typed.
LEMMA CallType ==
  ASSUME LeaseTypeOK, NEW k \in Calls,
         \/ IsOver(k)
         \/ \E w \in Workspaces, at \in AskStates, lease \in SUBSET Lease : Goes(k, w, at, lease)
  PROVE  ask' \in [Calls -> CallRow]
  <1>1. ask \in [Calls -> CallRow] BY DEF LeaseTypeOK, CallRow
  <1>2. CASE IsOver(k)
    BY <1>1, <1>2 DEF IsOver, CallRow, AskStates
  <1>3. ASSUME NEW w \in Workspaces, NEW at \in AskStates, NEW lease \in SUBSET Lease,
               Goes(k, w, at, lease)
        PROVE  ask' \in [Calls -> CallRow]
    BY <1>1, <1>3 DEF Goes, CallRow
  <1>4. QED BY <1>2, <1>3

\* An upsert leaves a well-typed table.
LEMMA UpsertedType ==
  ASSUME LeaseTypeOK, NEW w \in Workspaces, NEW lease \in Lease, Upserted(w, lease)
  PROVE  endpoint' \in [Workspaces -> SUBSET EndpointRow]
  BY DEF LeaseTypeOK, Upserted, EndpointRow

\* Releasing, dying and starting again keep the types.
LEMMA OtherStepsType ==
  ASSUME LeaseTypeOK,
         \/ Reconcile \/ CrashGateway
         \/ \E w \in Workspaces : EndWorkspaceOf(w) \/ Clean(w) \/ ReleaseLeak(w)
         \/ UNCHANGED leaseVars
  PROVE  LeaseTypeOK'
  <1> USE DEF LeaseTypeOK
  <1>1. CASE LoadLeases
    <2>1. \A w \in Workspaces : LeaseOf(w) \in SUBSET Lease BY LeaseOfType
    <2>2. \A w \in Workspaces : PortsOf(LeaseOf(w)) \in SUBSET Ports
      BY <2>1 DEF PortsOf, Lease
    <2>3. QED BY <1>1, <2>1, <2>2 DEF LoadLeases
  <1>2. CASE ListStale BY <1>2 DEF ListStale
  <1>3. ASSUME NEW w \in Workspaces, ReleaseStale(w) PROVE LeaseTypeOK'
    BY <1>3, ReleasedType DEF ReleaseStale
  <1>4. CASE Listen BY <1>4 DEF Listen
  <1>5. CASE CrashGateway
    <2>1. ask' \in [Calls -> CallRow] BY <1>5 DEF CrashGateway, CallRow, AskStates
    <2>2. QED BY <1>5, <2>1 DEF CrashGateway, CleanerStates, CallRow
  <1>6. ASSUME NEW w \in Workspaces, EndWorkspaceOf(w) PROVE LeaseTypeOK'
    BY <1>6 DEF EndWorkspaceOf, CleanerStates
  <1>7. ASSUME NEW w \in Workspaces, ReleaseInDb(w) PROVE LeaseTypeOK'
    BY <1>7, ReleasedType DEF ReleaseInDb, CleanerStates
  <1>8. ASSUME NEW w \in Workspaces, ReleaseInMemory(w) PROVE LeaseTypeOK'
    BY <1>8 DEF ReleaseInMemory, CleanerStates
  <1>9. ASSUME NEW w \in Workspaces, ReleaseUnreachable(w) PROVE LeaseTypeOK'
    BY <1>9 DEF ReleaseUnreachable, CleanerStates
  <1>10. ASSUME NEW w \in Workspaces, ReleaseRow(w) PROVE LeaseTypeOK'
    BY <1>10, ReleasedType DEF ReleaseRow, CleanerStates
  <1>11. ASSUME NEW w \in Workspaces, MarkTerminated(w) PROVE LeaseTypeOK'
    BY <1>11 DEF MarkTerminated, CleanerStates
  <1>12. ASSUME NEW w \in Workspaces, ReleaseLeak(w) PROVE LeaseTypeOK'
    BY <1>12, ReleasedType DEF ReleaseLeak
  <1>13. CASE UNCHANGED leaseVars BY <1>13 DEF leaseVars
  <1>14. QED
    BY <1>1, <1>2, <1>3, <1>4, <1>5, <1>6, <1>7, <1>8, <1>9, <1>10, <1>11, <1>12, <1>13
       DEF Reconcile, Clean

\* So does every step of a call.
LEMMA CallStepsType ==
  ASSUME LeaseTypeOK, NEW k \in Calls, Allocate(k)
  PROVE  LeaseTypeOK'
  <1> USE DEF LeaseTypeOK
  <1>0. ask[k].lease \in SUBSET Lease OBVIOUS
  <1>1. ASSUME NEW w \in Workspaces, AskPorts(k, w) PROVE LeaseTypeOK'
    <2>1. ask' \in [Calls -> CallRow] BY <1>1, CallType DEF AskPorts, AskStates
    <2>2. contested' \in SUBSET Workspaces BY <1>1 DEF AskPorts
    <2>3. QED BY <1>1, <2>1, <2>2 DEF AskPorts, CallRow
  <1>2. ASSUME NEW w \in Workspaces, ReadRow(k, w) PROVE LeaseTypeOK'
    <2>1. (IF Unreleased(w) THEN LeaseOf(w) ELSE {}) \in SUBSET Lease BY LeaseOfType
    <2>2. ask' \in [Calls -> CallRow] BY <1>2, <2>1, CallType DEF ReadRow, AskStates
    <2>3. QED BY <1>2, <2>2 DEF ReadRow, CallRow
  <1>3. ASSUME NEW w \in Workspaces, RebuildEntry(k, w) PROVE LeaseTypeOK'
    <2>1. ask' \in [Calls -> CallRow] BY <1>0, <1>3, CallType DEF RebuildEntry, AskStates
    <2>2. PortsOf(ask[k].lease) \in SUBSET Ports BY <1>0 DEF PortsOf, Lease
    <2>3. QED BY <1>0, <1>3, <2>1, <2>2 DEF RebuildEntry, CallRow
  <1>4. ASSUME NEW w \in Workspaces, PickPorts(k, w) PROVE LeaseTypeOK'
    <2>1. PICK lease \in Lease : /\ taken' = taken \cup PortsOf({lease})
                                 /\ Goes(k, w, "upsert", {lease})
      BY <1>4 DEF PickPorts
    <2>2. ask' \in [Calls -> CallRow] BY <2>1, CallType DEF AskStates
    <2>3. PortsOf({lease}) \in SUBSET Ports BY DEF PortsOf, Lease
    <2>4. QED BY <1>4, <2>1, <2>2, <2>3 DEF PickPorts, CallRow
  <1>5. ASSUME NEW w \in Workspaces, PickExhausted(k, w) PROVE LeaseTypeOK'
    <2>1. ask' \in [Calls -> CallRow] BY <1>5, CallType DEF PickExhausted
    <2>2. QED BY <1>5, <2>1 DEF PickExhausted, CallRow
  <1>6. ASSUME NEW w \in Workspaces, UpsertLease(k, w) PROVE LeaseTypeOK'
    <2>1. ask' \in [Calls -> CallRow] BY <1>0, <1>6, CallType DEF UpsertLease, AskStates
    <2>2. endpoint' \in [Workspaces -> SUBSET EndpointRow]
      BY <1>0, <1>6, UpsertedType DEF UpsertLease
    <2>3. QED BY <1>6, <2>1, <2>2 DEF UpsertLease, CallRow
  <1>7. ASSUME NEW w \in Workspaces, UpsertFails(k, w) PROVE LeaseTypeOK'
    <2>1. ask' \in [Calls -> CallRow] BY <1>7, CallType DEF UpsertFails
    <2>2. QED BY <1>7, <2>1 DEF UpsertFails, CallRow
  <1>8. ASSUME NEW w \in Workspaces, CacheLease(k, w) PROVE LeaseTypeOK'
    <2>1. ask' \in [Calls -> CallRow] BY <1>0, <1>8, CallType DEF CacheLease, AskStates
    <2>2. QED BY <1>0, <1>8, <2>1 DEF CacheLease, CallRow
  <1>9. ASSUME NEW w \in Workspaces, UpsertAgain(k, w) PROVE LeaseTypeOK'
    <2>1. ask' \in [Calls -> CallRow] BY <1>0, <1>9, CallType DEF UpsertAgain, AskStates
    <2>2. endpoint' \in [Workspaces -> SUBSET EndpointRow]
      BY <1>0, <1>9, UpsertedType DEF UpsertAgain
    <2>3. QED BY <1>9, <2>1, <2>2 DEF UpsertAgain, CallRow
  <1>10. CASE AnswerDropped(k)
    <2>1. ask' \in [Calls -> CallRow] BY <1>10, CallType DEF AnswerDropped
    <2>2. QED BY <1>10, <2>1 DEF AnswerDropped, CallRow
  <1>11. ASSUME NEW w \in Workspaces, TellPorts(k, w) PROVE LeaseTypeOK'
    <2>1. ask' \in [Calls -> CallRow] BY <1>11, CallType DEF TellPorts
    <2>2. QED BY <1>0, <1>11, <2>1 DEF TellPorts, CallRow
  <1>12. QED
    BY <1>1, <1>2, <1>3, <1>4, <1>5, <1>6, <1>7, <1>8, <1>9, <1>10, <1>11 DEF Allocate

\* A step of the leases keeps their types.
LEMMA LeaseTypeKept == LeaseTypeOK /\ [LeaseNext]_leaseVars => LeaseTypeOK'
  BY OtherStepsType, CallStepsType DEF LeaseNext

-----------------------------------------------------------------------------
(* Leases: the invariant.                                                  *)

\* Nobody cleans up a live workspace: the cleaner has not started, and the
\* reconciliation has not listed it.
LiveIsLeftAlone ==
    \A w \in Workspaces :
        space[w] = "live" => cleaner[w] = "no" /\ w \notin stale

\* The users of live workspaces are told leases, and calls are in a gateway that listens.
OnlyLiveTold == \A w \in Workspaces : told[w] # {} => space[w] = "live"

GateIsUp == \A k \in Calls : InGateway(k) => gate = "up"

InsideFor(k, w) == ask[k].space = w /\ InGateway(k)

OutFor(k, w) == ask[k].space = w /\ ask[k].at \in {"answered", "written"}

\* The table has the lease, and the memory of a gateway that is not down has it too.
HasRow(w, f) == endpoint[w] = {[lease |-> f, released |-> FALSE]}

Backed(w, leases) ==
    \E f \in Lease : leases = {f} /\ HasRow(w, f) /\ (gate # "down" => cache[w] = {f})

\* A call in the gateway is the only one of its workspace, nobody has been told a lease
\* yet, and the row is there from the upsert on.
FirstCall(k, w) ==
    /\ cache[w] = {} /\ told[w] = {}
    /\ \A j \in Calls : ~OutFor(j, w) /\ (InsideFor(j, w) => j = k)
    /\ \/ ask[k].at \in {"asked", "read"} /\ endpoint[w] = {} /\ ask[k].lease = {}
       \/ ask[k].at = "upsert" /\ endpoint[w] = {} /\ (\E f \in Lease : ask[k].lease = {f})
       \/ ask[k].at = "cache" /\ (\E f \in Lease : ask[k].lease = {f} /\ HasRow(w, f))

\* With no call in the gateway, the memory is what the table has.
Matched(w) ==
    \/ endpoint[w] = {} /\ (gate # "down" => cache[w] = {})
    \/ \E f \in Lease : HasRow(w, f) /\ (gate # "down" => cache[w] = {f})

Kept(w) ==
    /\ \A k \in Calls : InsideFor(k, w) => FirstCall(k, w)
    /\ (\A k \in Calls : ~InsideFor(k, w)) => Matched(w)
    /\ told[w] # {} => Backed(w, told[w])
    /\ \A k \in Calls : OutFor(k, w) => Backed(w, ask[k].lease)

Undisputed(w) == w \notin contested /\ space[w] = "live"

LeaseInv ==
    /\ LeaseTypeOK /\ LiveIsLeftAlone /\ OnlyLiveTold /\ GateIsUp
    /\ \A w \in Workspaces : Undisputed(w) => Kept(w)

\* The invariant holds at first.
LEMMA LeaseInvInitially == LeaseInit => LeaseInv
  <1> SUFFICES ASSUME LeaseInit PROVE LeaseInv OBVIOUS
  <1>1. LeaseTypeOK BY LeaseTypeInitially
  <1>2. LiveIsLeftAlone /\ OnlyLiveTold /\ GateIsUp
    BY DEF LeaseInit, LiveIsLeftAlone, OnlyLiveTold, GateIsUp, InGateway
  <1>3. \A w \in Workspaces : Kept(w)
    BY DEF LeaseInit, Kept, InsideFor, OutFor, InGateway, Matched
  <1>4. QED BY <1>1, <1>2, <1>3 DEF LeaseInv

\* It implies what the gateway promises of a lease.
LEMMA LeaseInvMeans == LeaseInv => LeaseSurvives
  <1> SUFFICES ASSUME LeaseInv, NEW w \in Workspaces, w \notin contested, NEW lease \in told[w]
               PROVE  Keeps(w, lease)
    BY DEF LeaseSurvives
  <1>1. Backed(w, told[w]) BY DEF LeaseInv, OnlyLiveTold, Undisputed, Kept
  <1>2. QED BY <1>1 DEF Backed, HasRow, Keeps

\* A row that has a lease.
LEMMA RowHasLease ==
  ASSUME NEW w \in Workspaces, NEW f, HasRow(w, f)
  PROVE  Unreleased(w) /\ LeaseOf(w) = {f}
  <1>1. /\ [lease |-> f, released |-> FALSE].lease = f
        /\ ~[lease |-> f, released |-> FALSE].released
    OBVIOUS
  <1>2. QED BY <1>1 DEF HasRow, Unreleased, LeaseOf

\* What a step has to leave alone of a workspace for what is kept of it.
Untouched(v) ==
    /\ endpoint'[v] = endpoint[v] /\ cache'[v] = cache[v] /\ told'[v] = told[v]
    /\ (gate' = "down") <=> (gate = "down")
    /\ \A k \in Calls : /\ InsideFor(k, v)' <=> InsideFor(k, v)
                        /\ OutFor(k, v)' <=> OutFor(k, v)
                        /\ InsideFor(k, v) \/ OutFor(k, v) => ask'[k] = ask[k]

LEMMA UntouchedKeeps ==
  ASSUME NEW v \in Workspaces, Kept(v), Untouched(v)
  PROVE  Kept(v)'
  <1>1. \A f : HasRow(v, f)' <=> HasRow(v, f) BY DEF Untouched, HasRow
  <1>2. \A k \in Calls : InsideFor(k, v) /\ FirstCall(k, v) => FirstCall(k, v)'
    BY <1>1 DEF Untouched, FirstCall
  <1>3. Matched(v) => Matched(v)' BY <1>1 DEF Untouched, Matched
  <1>4. \A L : Backed(v, L) => (\E f \in Lease : L = {f} /\ HasRow(v, f)' /\ (gate' # "down" => cache'[v] = {f}))
    BY <1>1 DEF Untouched, Backed
  <1>5. told'[v] # {} => Backed(v, told[v])' BY <1>4 DEF Kept, Untouched, Backed
  <1>6. \A k \in Calls : OutFor(k, v)' => Backed(v, ask[k].lease)'
    BY <1>4 DEF Kept, Untouched, Backed
  <1>7. QED BY <1>2, <1>3, <1>5, <1>6 DEF Kept, Untouched

\* A step that makes no workspace undisputed, and touches none that is.
LEMMA UntouchedKeepsAll ==
  ASSUME LeaseInv, LeaseTypeOK', LiveIsLeftAlone', OnlyLiveTold', GateIsUp',
         \A v \in Workspaces : Undisputed(v)' => Undisputed(v) /\ Untouched(v)
  PROVE  LeaseInv'
  BY UntouchedKeeps DEF LeaseInv

\* A call for one workspace leaves the calls for others alone.
LEMMA OthersCalls ==
  ASSUME LeaseTypeOK, NEW k \in Calls, NEW w \in Workspaces,
         ask[k].at = "new" \/ ask[k].space = w,
         \/ IsOver(k)
         \/ \E at, lease : Goes(k, w, at, lease),
         NEW v \in Workspaces, v # w, NEW j \in Calls
  PROVE  /\ InsideFor(j, v)' <=> InsideFor(j, v)
         /\ OutFor(j, v)' <=> OutFor(j, v)
         /\ InsideFor(j, v) \/ OutFor(j, v) => ask'[j] = ask[j]
  <1>1. CASE j # k
    BY <1>1 DEF IsOver, Goes, LeaseTypeOK, InsideFor, OutFor, InGateway
  <1>2. CASE j = k
    BY <1>2 DEF IsOver, Goes, LeaseTypeOK, InsideFor, OutFor, InGateway
  <1>3. QED BY <1>1, <1>2

\* The parts of the invariant that a step of a call cannot disturb, but for the one
\* workspace it is for.
LEMMA CallKeepsOthers ==
  ASSUME LeaseInv, LeaseTypeOK', NEW k \in Calls, NEW w \in Workspaces,
         ask[k].at = "new" \/ ask[k].space = w,
         \/ IsOver(k)
         \/ \E at, lease : Goes(k, w, at, lease),
         InGateway(k)' => gate = "up",
         \A v \in Workspaces \ {w} : /\ endpoint'[v] = endpoint[v] /\ cache'[v] = cache[v]
                                     /\ told'[v] = told[v]
                                     /\ v \in contested' <=> v \in contested,
         told'[w] # {} => space[w] = "live",
         UNCHANGED <<gate, space, cleaner, stale>>,
         Undisputed(w)' => Kept(w)'
  PROVE  LeaseInv'
  <1>1. LeaseTypeOK BY DEF LeaseInv
  <1>2. LiveIsLeftAlone' BY DEF LeaseInv, LiveIsLeftAlone
  <1>3. OnlyLiveTold' BY DEF LeaseInv, OnlyLiveTold
  <1>4. GateIsUp'
    <2>1. \A j \in Calls \ {k} : ask'[j] = ask[j] BY <1>1 DEF IsOver, Goes, LeaseTypeOK
    <2>2. QED BY <2>1 DEF LeaseInv, GateIsUp, InGateway
  <1>5. \A v \in Workspaces \ {w} : Untouched(v)
    BY <1>1, OthersCalls DEF Untouched
  <1>6. \A v \in Workspaces \ {w} : Undisputed(v)' => Kept(v)'
    BY <1>5, UntouchedKeeps DEF LeaseInv, Undisputed
  <1>7. QED BY <1>2, <1>3, <1>4, <1>6 DEF LeaseInv

\* A step of a call in the gateway keeps the invariant: while its workspace is undisputed
\* the call is the first, so that a second lease is never picked.
LEMMA GatewayCallKeeps ==
  ASSUME LeaseInv, LeaseTypeOK', NEW k \in Calls, NEW w \in Workspaces,
         \/ AskPorts(k, w) \/ ReadRow(k, w) \/ RebuildEntry(k, w) \/ PickPorts(k, w)
         \/ PickExhausted(k, w) \/ UpsertLease(k, w) \/ UpsertFails(k, w) \/ CacheLease(k, w)
  PROVE  LeaseInv'
  <1>t. LeaseTypeOK BY DEF LeaseInv
  <1>g. \A v : Undisputed(v)' => (Undisputed(v) \/ AskPorts(k, w))
    BY DEF Undisputed, ReadRow, RebuildEntry, PickPorts, PickExhausted, UpsertLease,
       UpsertFails, CacheLease
  <1>1. CASE AskPorts(k, w)
    <2>1. CASE cache[w] # {}
      <3>1. Goes(k, w, "answered", cache[w]) BY <1>1, <2>1 DEF AskPorts
      <3>2. ask'[k] = [at |-> "answered", space |-> w, lease |-> cache[w]]
            /\ \A j \in Calls \ {k} : ask'[j] = ask[j]
        BY <3>1, <1>t DEF Goes, LeaseTypeOK
      <3>3. ~InGateway(k)' /\ OutFor(k, w)' /\ ~InsideFor(k, w)' /\ ~InsideFor(k, w)
        BY <1>1, <3>2 DEF InGateway, OutFor, InsideFor, AskPorts
      <3>4. \A j \in Calls \ {k} : /\ InsideFor(j, w)' <=> InsideFor(j, w)
                                   /\ OutFor(j, w)' <=> OutFor(j, w)
        BY <3>2 DEF InsideFor, OutFor, InGateway
      <3>5. ASSUME Undisputed(w)' PROVE Kept(w)'
        <4>1. Undisputed(w) /\ \A j \in Calls : ~InsideFor(j, w)
          BY <1>1, <3>5 DEF AskPorts, Undisputed, InsideFor
        <4>2. Kept(w) /\ Matched(w) BY <4>1 DEF LeaseInv, Kept
        <4>3. gate = "up" /\ UNCHANGED <<endpoint, gate, cache, told>> BY <1>1 DEF AskPorts
        <4>4. Backed(w, cache[w])' BY <2>1, <4>2, <4>3 DEF Matched, Backed, HasRow
        <4>5. Matched(w)' BY <4>2, <4>3 DEF Matched, HasRow
        <4>6. \A L : Backed(w, L) => (\E f \in Lease : L = {f} /\ HasRow(w, f)' /\ (gate' # "down" => cache'[w] = {f}))
          BY <4>3 DEF Backed, HasRow
        <4>7. QED BY <3>2, <3>3, <3>4, <4>1, <4>2, <4>3, <4>4, <4>5, <4>6 DEF Kept, Backed
      <3>6. QED BY <1>1, <3>1, <3>3, <3>5, <1>t, CallKeepsOthers DEF AskPorts, LeaseInv, OnlyLiveTold
    <2>2. CASE cache[w] = {}
      <3>1. Goes(k, w, "asked", {}) BY <1>1, <2>2 DEF AskPorts
      <3>2. ask'[k] = [at |-> "asked", space |-> w, lease |-> {}]
            /\ \A j \in Calls \ {k} : ask'[j] = ask[j]
        BY <3>1, <1>t DEF Goes, LeaseTypeOK
      <3>3. InsideFor(k, w)' /\ ~OutFor(k, w)' BY <3>2 DEF InGateway, OutFor, InsideFor
      <3>4. \A j \in Calls \ {k} : /\ InsideFor(j, w)' <=> InsideFor(j, w)
                                   /\ OutFor(j, w)' <=> OutFor(j, w)
        BY <3>2 DEF InsideFor, OutFor, InGateway
      <3>5. ASSUME Undisputed(w)' PROVE Kept(w)'
        <4>1. Undisputed(w) /\ \A j \in Calls : ~InsideFor(j, w)
          BY <1>1, <3>5 DEF AskPorts, Undisputed, InsideFor
        <4>2. Kept(w) /\ Matched(w) BY <4>1 DEF LeaseInv, Kept
        <4>3. gate = "up" /\ UNCHANGED <<endpoint, gate, cache, told>> BY <1>1 DEF AskPorts
        <4>4. endpoint[w] = {} BY <2>2, <4>2, <4>3 DEF Matched
        <4>5. told[w] = {} /\ \A j \in Calls : ~OutFor(j, w)
          BY <2>2, <4>2, <4>3 DEF Kept, Backed
        <4>6. FirstCall(k, w)'
          BY <2>2, <3>2, <3>3, <3>4, <4>1, <4>3, <4>4, <4>5 DEF FirstCall
        <4>7. QED BY <3>3, <3>4, <4>1, <4>3, <4>5, <4>6 DEF Kept
      <3>6. QED BY <1>1, <3>1, <3>5, <1>t, CallKeepsOthers DEF AskPorts, LeaseInv, OnlyLiveTold
    <2>3. QED BY <2>1, <2>2
  <1>2. ASSUME ~AskPorts(k, w) PROVE LeaseInv'
    <2>1. InsideFor(k, w) /\ gate = "up"
      BY <1>2 DEF LeaseInv, GateIsUp, InsideFor, InGateway, At, ReadRow, RebuildEntry, PickPorts,
         PickExhausted, UpsertLease, UpsertFails, CacheLease
    <2>2. UNCHANGED <<space, gate, stale, told, cleaner, contested>>
      BY <1>2 DEF ReadRow, RebuildEntry, PickPorts, PickExhausted, UpsertLease, UpsertFails, CacheLease
    <2>3. IsOver(k) \/ \E at, lease : Goes(k, w, at, lease)
      BY <1>2 DEF ReadRow, RebuildEntry, PickPorts, PickExhausted, UpsertLease, UpsertFails, CacheLease
    <2>4. \A v \in Workspaces \ {w} : endpoint'[v] = endpoint[v] /\ cache'[v] = cache[v]
      BY <1>2, <1>t DEF ReadRow, RebuildEntry, PickPorts, PickExhausted, UpsertLease, UpsertFails,
         CacheLease, Upserted, LeaseTypeOK
    <2>5. \A j \in Calls \ {k} : ask'[j] = ask[j]
      BY <2>3, <1>t DEF IsOver, Goes, LeaseTypeOK
    <2>6. \A j \in Calls \ {k} : /\ InsideFor(j, w)' <=> InsideFor(j, w)
                                 /\ OutFor(j, w)' <=> OutFor(j, w)
      BY <2>5 DEF InsideFor, OutFor, InGateway
    <2>7. ASSUME Undisputed(w) PROVE Kept(w)'
      <3>1. FirstCall(k, w) BY <2>1, <2>7 DEF LeaseInv, Kept
      <3>2. told'[w] = {} /\ \A j \in Calls \ {k} : ~OutFor(j, w)' /\ ~InsideFor(j, w)'
        BY <2>2, <2>6, <3>1 DEF FirstCall
      \* the call stays in the gateway, first as before
      <3>3. ASSUME ask'[k].at \in {"read", "upsert", "cache"}, ask'[k].space = w, cache'[w] = {},
                   \/ ask'[k].at = "read" /\ endpoint'[w] = {} /\ ask'[k].lease = {}
                   \/ ask'[k].at = "upsert" /\ endpoint'[w] = {} /\ (\E f \in Lease : ask'[k].lease = {f})
                   \/ ask'[k].at = "cache" /\ (\E f \in Lease : ask'[k].lease = {f} /\ HasRow(w, f)')
            PROVE  Kept(w)'
        <4>1. InsideFor(k, w)' /\ ~OutFor(k, w)' BY <3>3 DEF InsideFor, OutFor, InGateway
        <4>2. FirstCall(k, w)' BY <3>2, <3>3, <4>1 DEF FirstCall
        <4>3. QED BY <3>2, <4>1, <4>2 DEF Kept
      \* the call is over, and nothing has come of it
      <3>4. ASSUME IsOver(k), endpoint'[w] = {}, cache'[w] = {}
            PROVE  Kept(w)'
        <4>1. ~InsideFor(k, w)' /\ ~OutFor(k, w)'
          BY <3>4, <1>t DEF IsOver, LeaseTypeOK, InsideFor, OutFor, InGateway
        <4>2. QED BY <3>2, <3>4, <4>1 DEF Kept, Matched
      <3>5. CASE ReadRow(k, w)
        <4>1. ask[k].at = "asked" /\ endpoint[w] = {} /\ cache[w] = {}
          BY <3>1, <3>5 DEF FirstCall, ReadRow, At
        <4>2. ~Unreleased(w) BY <4>1 DEF Unreleased
        <4>3. ask'[k] = [at |-> "read", space |-> w, lease |-> {}]
          BY <3>5, <4>2, <1>t DEF ReadRow, Goes, LeaseTypeOK
        <4>4. QED BY <3>3, <3>5, <4>1, <4>3 DEF ReadRow
      <3>6. CASE RebuildEntry(k, w)
        BY <3>1, <3>6 DEF FirstCall, RebuildEntry, At
      <3>7. CASE PickPorts(k, w)
        <4>1. PICK f \in Lease : Goes(k, w, "upsert", {f}) BY <3>7 DEF PickPorts
        <4>2. ask'[k] = [at |-> "upsert", space |-> w, lease |-> {f}]
          BY <4>1, <1>t DEF Goes, LeaseTypeOK
        <4>3. endpoint[w] = {} /\ cache[w] = {} BY <3>1, <3>7 DEF FirstCall, PickPorts, At
        <4>4. QED BY <3>3, <3>7, <4>2, <4>3 DEF PickPorts
      <3>8. CASE PickExhausted(k, w)
        BY <3>1, <3>4, <3>8 DEF FirstCall, PickExhausted, At
      <3>9. CASE UpsertLease(k, w)
        <4>1. PICK f \in Lease : ask[k].lease = {f} BY <3>1, <3>9 DEF FirstCall, UpsertLease, At
        <4>2. Upserted(w, f) BY <3>9, <4>1 DEF UpsertLease
        <4>3. HasRow(w, f)' BY <4>2, <1>t DEF Upserted, LeaseTypeOK, HasRow
        <4>4. ask'[k] = [at |-> "cache", space |-> w, lease |-> {f}]
          BY <3>9, <4>1, <1>t DEF UpsertLease, Goes, LeaseTypeOK
        <4>5. cache'[w] = {} BY <3>1, <3>9 DEF FirstCall, UpsertLease
        <4>6. QED BY <3>3, <4>3, <4>4, <4>5
      <3>10. CASE UpsertFails(k, w)
        BY <3>1, <3>4, <3>10 DEF FirstCall, UpsertFails, At
      <3>11. CASE CacheLease(k, w)
        <4>1. PICK f \in Lease : ask[k].lease = {f} /\ HasRow(w, f)
          BY <3>1, <3>11 DEF FirstCall, CacheLease, At
        <4>2. ask'[k] = [at |-> "answered", space |-> w, lease |-> {f}]
          BY <3>11, <4>1, <1>t DEF CacheLease, Goes, LeaseTypeOK
        <4>3. cache'[w] = {f} /\ HasRow(w, f)'
          BY <3>11, <4>1, <1>t DEF CacheLease, LeaseTypeOK, HasRow
        <4>4. ~InsideFor(k, w)' BY <4>2 DEF InsideFor, InGateway
        <4>5. Matched(w)' /\ Backed(w, ask[k].lease)' BY <4>2, <4>3 DEF Matched, Backed
        <4>6. QED BY <3>2, <4>4, <4>5 DEF Kept
      <3>12. QED BY <1>2, <3>5, <3>6, <3>7, <3>8, <3>9, <3>10, <3>11
    <2>8. Undisputed(w)' => Kept(w)' BY <2>2, <2>7 DEF Undisputed
    <2>9. told'[w] # {} => space[w] = "live" BY <2>2 DEF LeaseInv, OnlyLiveTold
    <2>10. ask[k].space = w BY <2>1 DEF InsideFor
    <2>11. QED BY <2>1, <2>2, <2>3, <2>4, <2>8, <2>9, <2>10, CallKeepsOthers
  <1>3. QED BY <1>1, <1>2

\* What the API does with an answer keeps the invariant: it writes what is there.
LEMMA ApiKeeps ==
  ASSUME LeaseInv, LeaseTypeOK', NEW k \in Calls, NEW w \in Workspaces,
         \/ UpsertAgain(k, w) \/ TellPorts(k, w)
         \/ AnswerDropped(k) /\ ask[k].space = w
  PROVE  LeaseInv'
  <1>t. LeaseTypeOK BY DEF LeaseInv
  <1>1. OutFor(k, w) /\ ~InsideFor(k, w)
    BY DEF UpsertAgain, TellPorts, AnswerDropped, At, OutFor, InsideFor, InGateway
  <1>2. UNCHANGED <<space, gate, stale, cache, cleaner, contested>>
    BY DEF UpsertAgain, TellPorts, AnswerDropped
  <1>3. \/ IsOver(k)
        \/ Goes(k, w, "written", ask[k].lease)
    BY DEF UpsertAgain, TellPorts, AnswerDropped
  <1>4. \A v \in Workspaces \ {w} : endpoint'[v] = endpoint[v] /\ told'[v] = told[v]
    BY <1>t DEF UpsertAgain, TellPorts, AnswerDropped, Upserted, LeaseTypeOK
  <1>5. ~InGateway(k)' /\ ~InsideFor(k, w)' /\ (OutFor(k, w)' => ask'[k].lease = ask[k].lease)
    BY <1>3, <1>t DEF IsOver, Goes, LeaseTypeOK, InGateway, InsideFor, OutFor
  <1>6. \A j \in Calls \ {k} : ask'[j] = ask[j]
    BY <1>3, <1>t DEF IsOver, Goes, LeaseTypeOK
  <1>7. \A j \in Calls \ {k} : /\ InsideFor(j, w)' <=> InsideFor(j, w)
                               /\ OutFor(j, w)' <=> OutFor(j, w)
    BY <1>6 DEF InsideFor, OutFor, InGateway
  <1>8. ASSUME Undisputed(w) PROVE Kept(w)'
    <2>1. Kept(w) BY <1>8 DEF LeaseInv
    <2>2. PICK f \in Lease : /\ ask[k].lease = {f} /\ HasRow(w, f)
                             /\ gate # "down" => cache[w] = {f}
      BY <1>1, <2>1 DEF Kept, Backed
    <2>3. \A j \in Calls : ~InsideFor(j, w)
      BY <1>1, <2>1 DEF Kept, FirstCall
    <2>4. HasRow(w, f)'
      <3>1. CASE UpsertAgain(k, w)
        BY <2>2, <3>1, <1>t DEF UpsertAgain, Upserted, HasRow, LeaseTypeOK
      <3>2. CASE ~UpsertAgain(k, w)
        BY <2>2, <3>2 DEF TellPorts, AnswerDropped, HasRow
      <3>3. QED BY <3>1, <3>2
    <2>5. \A L : Backed(w, L) => (\E g \in Lease : L = {g} /\ HasRow(w, g)' /\ (gate' # "down" => cache'[w] = {g}))
      <3>1. SUFFICES ASSUME NEW L, NEW g \in Lease, L = {g}, HasRow(w, g),
                            gate # "down" => cache[w] = {g}
                     PROVE  HasRow(w, g)' /\ (gate' # "down" => cache'[w] = {g})
        BY DEF Backed
      <3>2. LeaseOf(w) = {f} /\ LeaseOf(w) = {g} BY <2>2, <3>1, RowHasLease
      <3>3. f = g BY <3>2
      <3>4. QED BY <1>2, <2>4, <3>1, <3>3
    <2>6. Matched(w)' BY <1>2, <2>2, <2>4 DEF Matched
    <2>7. told'[w] # {} => Backed(w, told[w])'
      <3>1. told'[w] = told[w] \/ told'[w] = {f}
        BY <2>2, <1>t DEF UpsertAgain, TellPorts, AnswerDropped, LeaseTypeOK
      <3>2. CASE told'[w] = told[w] BY <2>1, <2>5, <3>2 DEF Kept, Backed
      <3>3. CASE told'[w] = {f} BY <1>2, <2>2, <2>4, <3>3 DEF Backed
      <3>4. QED BY <3>1, <3>2, <3>3
    <2>8. \A j \in Calls : OutFor(j, w)' => Backed(w, ask[j].lease)'
      <3>1. \A j \in Calls : OutFor(j, w)' => OutFor(j, w) /\ ask'[j].lease = ask[j].lease
        BY <1>1, <1>5, <1>6, <1>7
      <3>2. QED BY <2>1, <2>5, <3>1 DEF Kept, Backed
    <2>9. \A j \in Calls : ~InsideFor(j, w)' BY <1>5, <1>7, <2>3
    <2>10. QED BY <2>6, <2>7, <2>8, <2>9 DEF Kept
  <1>9. Undisputed(w)' => Kept(w)' BY <1>2, <1>8 DEF Undisputed
  <1>10. told'[w] # {} => space[w] = "live"
    BY <1>t DEF UpsertAgain, TellPorts, AnswerDropped, LeaseInv, OnlyLiveTold, LeaseTypeOK
  <1>11. ask[k].space = w BY <1>1 DEF OutFor
  <1>12. (\E at, lease : Goes(k, w, at, lease)) \/ IsOver(k) BY <1>3
  <1>13. QED BY <1>2, <1>4, <1>5, <1>9, <1>10, <1>11, <1>12, CallKeepsOthers

\* An answer nobody waits for, of a call that is for no workspace at all.
LEMMA DropKeeps ==
  ASSUME LeaseInv, LeaseTypeOK', NEW k \in Calls, AnswerDropped(k)
  PROVE  LeaseInv'
  <1>t. LeaseTypeOK BY DEF LeaseInv
  <1>1. CASE ask[k].space \in Workspaces BY <1>1, ApiKeeps
  <1>2. CASE ask[k].space \notin Workspaces
    <2>1. /\ \A j \in Calls \ {k} : ask'[j] = ask[j]
          /\ ask'[k].at = "over" /\ ask[k].at = "answered"
          /\ UNCHANGED <<space, endpoint, gate, stale, cache, told, cleaner, contested>>
      BY <1>t DEF AnswerDropped, IsOver, LeaseTypeOK
    <2>2. LiveIsLeftAlone' /\ OnlyLiveTold' /\ GateIsUp'
      BY <2>1 DEF LeaseInv, LiveIsLeftAlone, OnlyLiveTold, GateIsUp, InGateway
    <2>3. \A v \in Workspaces : Undisputed(v)' => Undisputed(v) /\ Untouched(v)
      BY <1>2, <2>1 DEF Undisputed, Untouched, InsideFor, OutFor, InGateway
    <2>4. QED BY <2>2, <2>3, UntouchedKeepsAll
  <1>3. QED BY <1>1, <1>2

\* A step that writes the row, or the memory, of no live workspace, and touches no call.
LEMMA AsideKeeps ==
  ASSUME LeaseInv, LeaseTypeOK', LiveIsLeftAlone', OnlyLiveTold', GateIsUp',
         (gate' = "down") <=> (gate = "down"), ask' = ask,
         \A v \in Workspaces : Undisputed(v)' =>
             /\ Undisputed(v) /\ endpoint'[v] = endpoint[v]
             /\ cache'[v] = cache[v] /\ told'[v] = told[v]
  PROVE  LeaseInv'
  <1>1. \A v \in Workspaces : Undisputed(v)' => Untouched(v)
    BY DEF Untouched, InsideFor, OutFor, InGateway
  <1>2. QED BY <1>1, UntouchedKeepsAll

\* Steps that may touch a workspace being taken down, or gone.
LEMMA CleanKeeps ==
  ASSUME LeaseInv, LeaseTypeOK', NEW w \in Workspaces,
         \/ ReleaseStale(w) \/ EndWorkspaceOf(w) \/ Clean(w) \/ ReleaseLeak(w)
  PROVE  LeaseInv'
  <1>t. LeaseTypeOK BY DEF LeaseInv
  <1>1. UNCHANGED <<gate, ask>>
    BY DEF ReleaseStale, EndWorkspaceOf, Clean, ReleaseLeak, ReleaseInDb, ReleaseInMemory,
       ReleaseUnreachable, ReleaseRow, MarkTerminated
  <1>2. space'[w] # "live" /\ \A v \in Workspaces \ {w} : space'[v] = space[v] /\ cleaner'[v] = cleaner[v]
    BY <1>t DEF LeaseInv, LiveIsLeftAlone, LeaseTypeOK, ReleaseStale, EndWorkspaceOf, Clean, ReleaseLeak,
       ReleaseInDb, ReleaseInMemory, ReleaseUnreachable, ReleaseRow, MarkTerminated
  <1>3. \A v \in Workspaces \ {w} :
           endpoint'[v] = endpoint[v] /\ cache'[v] = cache[v] /\ told'[v] = told[v]
    BY <1>t DEF LeaseTypeOK, ReleaseStale, EndWorkspaceOf, Clean, ReleaseLeak, Released,
       ReleaseInDb, ReleaseInMemory, ReleaseUnreachable, ReleaseRow, MarkTerminated
  <1>4. contested' = contested \/ contested' = contested \ {w}
    BY DEF ReleaseStale, EndWorkspaceOf, Clean, ReleaseLeak, ReleaseInDb, ReleaseInMemory,
       ReleaseUnreachable, ReleaseRow, MarkTerminated
  <1>5. stale' \subseteq stale
    BY DEF ReleaseStale, EndWorkspaceOf, Clean, ReleaseLeak, ReleaseInDb, ReleaseInMemory,
       ReleaseUnreachable, ReleaseRow, MarkTerminated
  <1>6. told'[w] = {}
    BY <1>t DEF LeaseInv, LiveIsLeftAlone, OnlyLiveTold, LeaseTypeOK, ReleaseStale, EndWorkspaceOf,
       Clean, ReleaseLeak, ReleaseInDb, ReleaseInMemory, ReleaseUnreachable, ReleaseRow, MarkTerminated
  <1>7. LiveIsLeftAlone' BY <1>2, <1>5 DEF LeaseInv, LiveIsLeftAlone
  <1>8. OnlyLiveTold' BY <1>2, <1>3, <1>6 DEF LeaseInv, OnlyLiveTold
  <1>9. GateIsUp' BY <1>1 DEF LeaseInv, GateIsUp, InGateway
  <1>10. \A v \in Workspaces : Undisputed(v)' =>
             Undisputed(v) /\ endpoint'[v] = endpoint[v] /\ cache'[v] = cache[v] /\ told'[v] = told[v]
    BY <1>2, <1>3, <1>4 DEF Undisputed
  <1>11. QED BY <1>1, <1>7, <1>8, <1>9, <1>10, AsideKeeps

\* The start: memory comes from the table, which has what was told.
LEMMA LoadKeeps ==
  ASSUME LeaseInv, LeaseTypeOK', LoadLeases
  PROVE  LeaseInv'
  <1>1. /\ gate = "down" /\ gate' = "loaded"
        /\ UNCHANGED <<space, endpoint, stale, ask, told, cleaner, contested>>
    BY DEF LoadLeases
  <1>2. \A k \in Calls : ~InGateway(k) /\ ~InGateway(k)'
    BY <1>1 DEF LeaseInv, GateIsUp, InGateway
  <1>3. LiveIsLeftAlone' /\ OnlyLiveTold' /\ GateIsUp'
    BY <1>1, <1>2 DEF LeaseInv, LiveIsLeftAlone, OnlyLiveTold, GateIsUp
  <1>4. ASSUME NEW v \in Workspaces, Undisputed(v) PROVE Kept(v)'
    <2>1. Kept(v) /\ Matched(v) BY <1>2, <1>4 DEF LeaseInv, Kept, InsideFor
    <2>2. CASE endpoint[v] = {}
      <3>1. ~Unreleased(v) BY <2>2 DEF Unreleased
      <3>2. cache'[v] = {} BY <3>1 DEF LoadLeases
      <3>3. \A L : ~Backed(v, L) BY <2>2 DEF Backed, HasRow
      <3>4. QED
        BY <1>1, <1>2, <2>1, <2>2, <3>2, <3>3 DEF Kept, Matched, InsideFor, OutFor
    <2>3. ASSUME NEW f \in Lease, HasRow(v, f) PROVE Kept(v)'
      <3>1. Unreleased(v) /\ LeaseOf(v) = {f} BY <2>3, RowHasLease
      <3>2. cache'[v] = {f} BY <3>1 DEF LoadLeases
      <3>3. HasRow(v, f)' BY <1>1, <2>3 DEF HasRow
      <3>4. \A L : Backed(v, L) => L = {f}
        <4>1. SUFFICES ASSUME NEW L, NEW g \in Lease, L = {g}, HasRow(v, g) PROVE L = {f}
          BY DEF Backed
        <4>2. LeaseOf(v) = {g} BY <4>1, RowHasLease
        <4>3. QED BY <3>1, <4>1, <4>2
      <3>5. Matched(v)' BY <3>2, <3>3 DEF Matched
      <3>6. told'[v] # {} => Backed(v, told[v])'
        BY <1>1, <2>1, <3>2, <3>3, <3>4 DEF Kept, Backed
      <3>7. \A k \in Calls : OutFor(k, v)' => Backed(v, ask[k].lease)'
        BY <1>1, <2>1, <3>2, <3>3, <3>4 DEF Kept, Backed, OutFor
      <3>8. QED BY <1>2, <3>5, <3>6, <3>7 DEF Kept, InsideFor
    <2>4. QED BY <2>1, <2>2, <2>3 DEF Matched
  <1>5. QED BY <1>1, <1>3, <1>4 DEF LeaseInv, Undisputed

\* The death of the gateway: the table is left with what was told.
LEMMA CrashKeeps ==
  ASSUME LeaseInv, LeaseTypeOK', CrashGateway
  PROVE  LeaseInv'
  <1>t. LeaseTypeOK BY DEF LeaseInv
  <1>1. /\ gate' = "down" /\ stale' = {}
        /\ UNCHANGED <<space, endpoint, told, contested>>
    BY DEF CrashGateway
  <1>2. \A k \in Calls : /\ ~InGateway(k)'
                         /\ ~InGateway(k) => ask'[k] = ask[k]
                         /\ InGateway(k) => ask'[k].at = "over"
    BY <1>t DEF CrashGateway, InGateway, LeaseTypeOK
  <1>3. \A w \in Workspaces : cleaner[w] = "no" => cleaner'[w] = "no"
    BY DEF CrashGateway
  <1>4. LiveIsLeftAlone' /\ OnlyLiveTold' /\ GateIsUp'
    BY <1>1, <1>2, <1>3 DEF LeaseInv, LiveIsLeftAlone, OnlyLiveTold, GateIsUp
  <1>5. ASSUME NEW v \in Workspaces, Undisputed(v) PROVE Kept(v)'
    <2>1. Kept(v) BY <1>5 DEF LeaseInv
    <2>2. \A k \in Calls : OutFor(k, v)' => OutFor(k, v) /\ ask'[k] = ask[k]
      BY <1>2 DEF OutFor
    <2>3. \A f : HasRow(v, f)' <=> HasRow(v, f) BY <1>1 DEF HasRow
    <2>4. \A L : Backed(v, L) => (\E f \in Lease : L = {f} /\ HasRow(v, f)')
      BY <2>3 DEF Backed
    <2>5. Matched(v)'
      <3>1. CASE \E k \in Calls : InsideFor(k, v)
        <4>1. PICK k \in Calls : FirstCall(k, v) BY <2>1, <3>1 DEF Kept
        <4>2. QED BY <1>1, <2>3, <4>1 DEF FirstCall, Matched
      <3>2. CASE \A k \in Calls : ~InsideFor(k, v)
        BY <1>1, <2>1, <2>3, <3>2 DEF Kept, Matched
      <3>3. QED BY <3>1, <3>2
    <2>6. told'[v] # {} => Backed(v, told[v])' BY <1>1, <2>1, <2>4 DEF Kept, Backed
    <2>7. \A k \in Calls : OutFor(k, v)' => Backed(v, ask[k].lease)'
      BY <1>1, <2>1, <2>2, <2>4 DEF Kept, Backed
    <2>8. QED BY <1>2, <2>5, <2>6, <2>7 DEF Kept, InsideFor
  <1>6. QED BY <1>1, <1>4, <1>5 DEF LeaseInv, Undisputed

\* Every step keeps the invariant.
LEMMA LeaseInvKept == LeaseInv /\ [LeaseNext]_leaseVars => LeaseInv'
  <1> SUFFICES ASSUME LeaseInv, [LeaseNext]_leaseVars PROVE LeaseInv' OBVIOUS
  <1>t. LeaseTypeOK /\ LeaseTypeOK' BY LeaseTypeKept DEF LeaseInv
  <1>1. CASE LoadLeases BY <1>1, <1>t, LoadKeeps
  <1>2. CASE ListStale
    <2>1. LiveIsLeftAlone' BY <1>2 DEF ListStale, LeaseInv, LiveIsLeftAlone
    <2>2. OnlyLiveTold' /\ GateIsUp'
      BY <1>2 DEF ListStale, LeaseInv, OnlyLiveTold, GateIsUp, InGateway
    <2>3. QED BY <1>2, <1>t, <2>1, <2>2, AsideKeeps DEF ListStale, Undisputed
  <1>3. CASE Listen
    <2>1. LiveIsLeftAlone' BY <1>3 DEF Listen, LeaseInv, LiveIsLeftAlone
    <2>2. OnlyLiveTold' /\ GateIsUp'
      BY <1>3 DEF Listen, LeaseInv, OnlyLiveTold, GateIsUp, InGateway
    <2>3. QED BY <1>3, <1>t, <2>1, <2>2, AsideKeeps DEF Listen, Undisputed
  <1>4. CASE CrashGateway BY <1>4, <1>t, CrashKeeps
  <1>5. ASSUME NEW w \in Workspaces,
               ReleaseStale(w) \/ EndWorkspaceOf(w) \/ Clean(w) \/ ReleaseLeak(w)
        PROVE  LeaseInv'
    BY <1>5, <1>t, CleanKeeps
  <1>6. ASSUME NEW k \in Calls, Allocate(k) PROVE LeaseInv'
    BY <1>6, <1>t, GatewayCallKeeps, ApiKeeps, DropKeeps DEF Allocate
  <1>7. CASE UNCHANGED leaseVars
    <2>1. LiveIsLeftAlone' /\ OnlyLiveTold' /\ GateIsUp'
      BY <1>7 DEF leaseVars, LeaseInv, LiveIsLeftAlone, OnlyLiveTold, GateIsUp, InGateway
    <2>2. QED BY <1>7, <1>t, <2>1, AsideKeeps DEF leaseVars, Undisputed
  <1>8. QED BY <1>1, <1>2, <1>3, <1>4, <1>5, <1>6, <1>7 DEF LeaseNext, Reconcile

-----------------------------------------------------------------------------
(* Leases: the theorems.                                                   *)

\* The state of the leases stays well typed: a lease always has distinct ports of the
\* range, and an answer that is late, lost or overtaken leaves no other kind of row.
THEOREM LeasesTypeCorrect == LeaseSpec => []LeaseTypeOK
  <1>1. LeaseInit => LeaseTypeOK BY LeaseTypeInitially
  <1>2. LeaseTypeOK /\ [LeaseNext]_leaseVars => LeaseTypeOK' BY LeaseTypeKept
  <1>3. QED BY <1>1, <1>2, PTL DEF LeaseSpec

\* A lease that the user of a live workspace was told stays in the table, and in the
\* memory of the gateway that listens, for any number of workspaces, calls and ports and
\* whatever crashes, reconciliations, cleanups and later calls happen, unless two calls
\* for that workspace were in the gateway at once.
THEOREM LeasesSurvive == LeaseSpec => []LeaseSurvives
  <1>1. LeaseInit => LeaseInv BY LeaseInvInitially
  <1>2. LeaseInv /\ [LeaseNext]_leaseVars => LeaseInv' BY LeaseInvKept
  <1>3. LeaseInv => LeaseSurvives BY LeaseInvMeans
  <1>4. QED BY <1>1, <1>2, <1>3, PTL DEF LeaseSpec

\* ... and in the composition with the rest of the fleet, which the run checks.
THEOREM LeasesSurviveInFleet == FleetSpec => []LeaseSurvives
  <1>1. FleetInit => LeaseInv BY FleetStarts, LeaseInvInitially
  <1>2. LeaseInv /\ [FleetNext]_fleetVars => LeaseInv' BY FleetStepsLeases, LeaseInvKept
  <1>3. LeaseInv => LeaseSurvives BY LeaseInvMeans
  <1>4. QED BY <1>1, <1>2, <1>3, PTL DEF FleetSpec

\* The unique indexes, as the rows show them.
RowsApart ==
  \A v, w \in Workspaces : v # w =>
    \A f \in LeaseOf(v), g \in LeaseOf(w), c \in Columns : f[c] # g[c]

\* Releasing the row of one workspace changes no lease of the table.
LEMMA ReleasedRows ==
  ASSUME LeaseTypeOK, NEW w \in Workspaces, endpoint' = Released(w)
  PROVE  \A v \in Workspaces : LeaseOf(v)' = LeaseOf(v)
  <1> DEFINE closed == {[row EXCEPT !.released = TRUE] : row \in endpoint[w]}
  <1>1. endpoint' = [endpoint EXCEPT ![w] = closed] BY DEF Released
  <1>2. endpoint \in [Workspaces -> SUBSET EndpointRow] BY DEF LeaseTypeOK
  <1>3. \A row \in endpoint[w] : row \in [lease : Lease, released : BOOLEAN]
    BY <1>2 DEF EndpointRow
  <1>4. {row.lease : row \in closed} = {row.lease : row \in endpoint[w]}
    <2>1. \A row \in endpoint[w] : [row EXCEPT !.released = TRUE].lease = row.lease
      BY <1>3
    <2>2. QED BY <2>1
  <1> HIDE DEF closed
  <1>5. endpoint'[w] = closed /\ \A v \in Workspaces \ {w} : endpoint'[v] = endpoint[v]
    BY <1>1, <1>2
  <1>6. QED BY <1>4, <1>5 DEF LeaseOf

\* The table changes by an upsert that the indexes have let pass, or names what it named.
LEMMA RowsApartKept == LeaseTypeOK /\ RowsApart /\ [LeaseNext]_leaseVars => RowsApart'
  <1> SUFFICES ASSUME LeaseTypeOK, RowsApart, [LeaseNext]_leaseVars PROVE RowsApart' OBVIOUS
  <1>1. ASSUME NEW w \in Workspaces, endpoint' = Released(w) PROVE RowsApart'
    BY <1>1, ReleasedRows DEF RowsApart
  <1>2. ASSUME NEW w \in Workspaces, NEW f \in Lease, Upserted(w, f) PROVE RowsApart'
    <2>1. endpoint'[w] = {[lease |-> f, released |-> FALSE]}
          /\ \A v \in Workspaces \ {w} : endpoint'[v] = endpoint[v]
      BY <1>2 DEF Upserted, LeaseTypeOK
    <2>2. LeaseOf(w)' = {f} /\ \A v \in Workspaces \ {w} : LeaseOf(v)' = LeaseOf(v)
      BY <2>1 DEF LeaseOf
    <2>3. \A v \in Workspaces \ {w} : \A g \in LeaseOf(v), c \in Columns : f[c] # g[c]
      BY <1>2 DEF Upserted, Refused, LeaseOf
    <2>4. QED BY <2>2, <2>3 DEF RowsApart
  <1>3. CASE endpoint' = endpoint
    BY <1>3 DEF RowsApart, LeaseOf
  <1>4. ASSUME NEW k \in Calls, NEW w \in Workspaces, UpsertLease(k, w) \/ UpsertAgain(k, w)
        PROVE  \E f \in Lease : Upserted(w, f)
    BY <1>4 DEF UpsertLease, UpsertAgain, LeaseTypeOK
  <1>5. QED
    BY <1>1, <1>2, <1>3, <1>4 DEF LeaseNext, Reconcile, Allocate, Clean, LoadLeases, ListStale,
       ReleaseStale, Listen, CrashGateway, AskPorts, ReadRow, RebuildEntry, PickPorts, PickExhausted,
       UpsertFails, CacheLease, AnswerDropped, TellPorts, EndWorkspaceOf, ReleaseInDb,
       ReleaseInMemory, ReleaseUnreachable, ReleaseRow, MarkTerminated, ReleaseLeak, leaseVars

\* Column by column, the users of two live workspaces are never told one port, for any
\* number of workspaces, calls, ports and columns, unless two calls for one of them were
\* in the gateway at once.  (Across the columns they may be: SharedPort.cfg.)
THEOREM PortsApartInColumns == LeaseSpec => []ToldApartInColumns
  <1>1. LeaseInit => LeaseInv /\ RowsApart
    BY LeaseInvInitially DEF LeaseInit, RowsApart, LeaseOf
  <1>2. LeaseInv /\ RowsApart /\ [LeaseNext]_leaseVars => (LeaseInv /\ RowsApart)'
    BY LeaseInvKept, RowsApartKept DEF LeaseInv
  <1>3. LeaseInv /\ RowsApart => ToldApartInColumns
    <2> SUFFICES ASSUME LeaseSurvives, RowsApart,
                        NEW v \in Workspaces \ contested, NEW w \in Workspaces \ contested, v # w,
                        NEW f \in told[v], NEW g \in told[w], NEW c \in Columns
                 PROVE  f[c] # g[c]
      BY LeaseInvMeans DEF ToldApartInColumns
    <2>1. HasRow(v, f) /\ HasRow(w, g)
      BY DEF LeaseSurvives, Keeps, HasRow
    <2>2. f \in LeaseOf(v) /\ g \in LeaseOf(w)
      BY <2>1, RowHasLease
    <2>3. QED BY <2>2 DEF RowsApart
  <1>4. QED BY <1>1, <1>2, <1>3, PTL DEF LeaseSpec

-----------------------------------------------------------------------------
(* Volumes.                                                                *)

\* The volumes start well typed.
LEMMA VolumeTypeInitially == VolumeInit => VolumeTypeOK
  BY VolumeAssumption DEF VolumeInit, VolumeTypeOK, VolumeStates

\* What a request that has decided to attach, detach or delete names.
LEMMA DecidedNames ==
  ASSUME VolumeTypeOK, NEW r \in Requests, NEW do, Decided(r, do)
  PROVE  Vol(r) \in VolumeIds /\ \E d \in request[r] : Vol(r) = d.vol /\ Room(r) = d.room
  <1> DEFINE d == CHOOSE d \in request[r] : TRUE
  <1>1. request[r] # {} BY DEF Decided
  <1>2. d \in request[r] BY <1>1
  <1>3. Vol(r) = d.vol /\ Room(r) = d.room BY DEF Vol, Room
  <1>4. d \in Decisions BY <1>2 DEF VolumeTypeOK
  <1>5. d.vol \in VolumeIds BY <1>4 DEF Decisions
  <1>6. QED BY <1>2, <1>3, <1>5

\* A request holds one decision at most, so what is decided is what is named.
Singular == \A r \in Requests : \A d, e \in request[r] : d = e

\* The workspace named by a decision to attach is one of the user's.
LEMMA AttachNames ==
  ASSUME VolumeTypeOK, Singular, NEW r \in Requests, Decided(r, "attach")
  PROVE  Room(r) \in Rooms
  <1>1. PICK d \in request[r] : d.do = "attach" BY DEF Decided
  <1>2. PICK e \in request[r] : Room(r) = e.room BY DecidedNames
  <1>3. d = e BY DEF Singular
  <1>4. d \in Decisions BY DEF VolumeTypeOK
  <1>5. d \in [do : {"attach"}, vol : VolumeIds, room : Rooms] BY <1>1, <1>4 DEF Decisions
  <1>6. QED BY <1>2, <1>3, <1>5

VolumeInv == VolumeTypeOK /\ Singular /\ InUseIsAttached

\* The invariant of the volumes holds at first.
LEMMA VolumeInvInitially == VolumeInit => VolumeInv
  BY VolumeTypeInitially DEF VolumeInit, VolumeInv, Singular, InUseIsAttached

\* A decision taken keeps it: no volume is written.
LEMMA DecideKeeps ==
  ASSUME VolumeInv, NEW r \in Requests, NEW decision \in Decisions, Decide(r, decision)
  PROVE  VolumeInv'
  <1>1. VolumeTypeOK' BY DEF VolumeInv, Decide, VolumeTypeOK
  <1>2. request'[r] = {decision} /\ \A q \in Requests \ {r} : request'[q] = request[q]
    BY DEF VolumeInv, Decide, VolumeTypeOK
  <1>3. Singular' BY <1>2 DEF VolumeInv, Singular
  <1>4. InUseIsAttached' BY DEF VolumeInv, Decide, InUseIsAttached
  <1>5. QED BY <1>1, <1>3, <1>4 DEF VolumeInv

\* An answered request keeps the rest of the state well typed.
LEMMA AnsweredKeeps ==
  ASSUME VolumeInv, NEW r \in Requests, Answered(r),
         volume' \in [VolumeIds -> VolumeStates], attached' \in [VolumeIds -> SUBSET Rooms]
  PROVE  VolumeTypeOK' /\ Singular'
  <1>1. VolumeTypeOK' BY DEF VolumeInv, Answered, VolumeTypeOK
  <1>2. request'[r] = {} /\ \A q \in Requests \ {r} : request'[q] = request[q]
    BY DEF VolumeInv, Answered, VolumeTypeOK
  <1>3. Singular' BY <1>2 DEF VolumeInv, Singular
  <1>4. QED BY <1>1, <1>3

\* Every step of the volumes keeps the invariant.
LEMMA VolumeInvKept == VolumeInv /\ [VolumeNext]_volumeVars => VolumeInv'
  <1> SUFFICES ASSUME VolumeInv, [VolumeNext]_volumeVars PROVE VolumeInv'
    OBVIOUS
  <1>t. VolumeTypeOK /\ Singular BY DEF VolumeInv
  <1>1. ASSUME NEW v \in VolumeIds, CreateVolume(v) PROVE VolumeInv'
    BY <1>1 DEF VolumeInv, CreateVolume, VolumeTypeOK, VolumeStates, Singular, InUseIsAttached
  <1>2. ASSUME NEW v \in VolumeIds, NoDisk(v) PROVE VolumeInv'
    <2>1. VolumeTypeOK'
      BY <1>2, <1>t, VolumeAssumption DEF NoDisk, WorkedOff, VolumeTypeOK, VolumeStates
    <2>2. \A u \in VolumeIds : volume'[u] = "IN_USE" => volume[u] = "IN_USE"
      BY <1>2, <1>t DEF NoDisk, VolumeTypeOK
    <2>3. Singular' /\ InUseIsAttached'
      BY <1>2, <2>2 DEF VolumeInv, NoDisk, WorkedOff, Singular, InUseIsAttached
    <2>4. QED BY <2>1, <2>3 DEF VolumeInv
  <1>3. ASSUME NEW r \in Requests, NEW v \in VolumeIds, DecideDetach(r, v) PROVE VolumeInv'
    <2>1. [do |-> "detach", vol |-> v] \in Decisions BY DEF Decisions
    <2>2. QED BY <1>3, <2>1, DecideKeeps DEF DecideDetach
  <1>4. ASSUME NEW r \in Requests, NEW v \in VolumeIds, DecideDelete(r, v) PROVE VolumeInv'
    <2>1. [do |-> "delete", vol |-> v] \in Decisions BY DEF Decisions
    <2>2. QED BY <1>4, <2>1, DecideKeeps DEF DecideDelete
  <1>5. ASSUME NEW r \in Requests, NEW v \in VolumeIds, NEW room \in Rooms, DecideAttach(r, v, room)
        PROVE  VolumeInv'
    <2>1. [do |-> "attach", vol |-> v, room |-> room] \in Decisions BY DEF Decisions
    <2>2. QED BY <1>5, <2>1, DecideKeeps DEF DecideAttach
  <1>6. ASSUME NEW r \in Requests, WriteAttach(r) PROVE VolumeInv'
    <2>1. Vol(r) \in VolumeIds /\ Room(r) \in Rooms
      BY <1>6, <1>t, DecidedNames, AttachNames DEF WriteAttach
    <2>2. CASE \E u \in VolumeIds \ {Vol(r)} : Room(r) \in attached[u]
      <3>1. UNCHANGED <<volume, attached>> BY <1>6, <2>2 DEF WriteAttach
      <3>2. VolumeTypeOK' /\ Singular'
        BY <1>6, <3>1, <1>t, AnsweredKeeps DEF WriteAttach, VolumeTypeOK
      <3>3. QED BY <3>1, <3>2 DEF VolumeInv, InUseIsAttached
    <2>3. CASE ~\E u \in VolumeIds \ {Vol(r)} : Room(r) \in attached[u]
      <3>1. /\ volume' = [volume EXCEPT ![Vol(r)] = "IN_USE"]
            /\ attached' = [attached EXCEPT ![Vol(r)] = {Room(r)}]
        BY <1>6, <2>3 DEF WriteAttach
      <3>2. volume' \in [VolumeIds -> VolumeStates] /\ attached' \in [VolumeIds -> SUBSET Rooms]
        BY <3>1, <2>1, <1>t DEF VolumeTypeOK, VolumeStates
      <3>3. VolumeTypeOK' /\ Singular' BY <1>6, <3>2, AnsweredKeeps DEF WriteAttach
      <3>4. InUseIsAttached'
        BY <2>1, <2>3, <3>1, <1>t DEF VolumeInv, InUseIsAttached, VolumeTypeOK
      <3>5. QED BY <3>3, <3>4 DEF VolumeInv
    <2>4. QED BY <2>2, <2>3
  <1>7. ASSUME NEW r \in Requests, WriteDetach(r) PROVE VolumeInv'
    <2>1. Vol(r) \in VolumeIds BY <1>7, <1>t, DecidedNames DEF WriteDetach
    <2>2. volume' \in [VolumeIds -> VolumeStates] /\ attached' \in [VolumeIds -> SUBSET Rooms]
      BY <1>7, <2>1, <1>t DEF WriteDetach, VolumeTypeOK, VolumeStates
    <2>3. VolumeTypeOK' /\ Singular' BY <1>7, <2>2, AnsweredKeeps DEF WriteDetach
    <2>4. InUseIsAttached'
      BY <1>7, <2>1, <1>t DEF WriteDetach, VolumeInv, InUseIsAttached, VolumeTypeOK
    <2>5. QED BY <2>3, <2>4 DEF VolumeInv
  <1>8. ASSUME NEW r \in Requests, WriteDelete(r) PROVE VolumeInv'
    <2>1. Vol(r) \in VolumeIds BY <1>8, <1>t, DecidedNames DEF WriteDelete
    <2>2. volume' \in [VolumeIds -> VolumeStates] /\ attached' \in [VolumeIds -> SUBSET Rooms]
      BY <1>8, <2>1, <1>t DEF WriteDelete, VolumeTypeOK, VolumeStates
    <2>3. VolumeTypeOK' /\ Singular' BY <1>8, <2>2, AnsweredKeeps DEF WriteDelete
    <2>4. InUseIsAttached'
      BY <1>8, <2>1, <1>t DEF WriteDelete, VolumeInv, InUseIsAttached, VolumeTypeOK
    <2>5. QED BY <2>3, <2>4 DEF VolumeInv
  <1>9. ASSUME NEW room \in Rooms, RoomEnds(room) PROVE VolumeInv'
    BY <1>9 DEF VolumeInv, RoomEnds, VolumeTypeOK, Singular, InUseIsAttached
  <1>10. CASE ListVolumes
    <2>1. listed' \subseteq [todo : {"CREATING", "DELETING"}, vol : VolumeIds]
      BY <1>10, <1>t DEF ListVolumes, Listing, WithStatus, VolumeTypeOK
    <2>a. VolumeTypeOK' BY <1>10, <1>t, <2>1 DEF ListVolumes, VolumeTypeOK
    <2>2. Singular' /\ InUseIsAttached'
      BY <1>10 DEF VolumeInv, ListVolumes, Singular, InUseIsAttached
    <2>3. QED BY <2>a, <2>2 DEF VolumeInv
  <1>11. ASSUME NEW v \in VolumeIds, MakeDisk(v) PROVE VolumeInv'
    <2>1. VolumeTypeOK' BY <1>11, <1>t DEF MakeDisk, WorkedOff, VolumeTypeOK, VolumeStates
    <2>2. Singular' /\ InUseIsAttached'
      BY <1>11, <1>t DEF VolumeInv, MakeDisk, WorkedOff, Singular, InUseIsAttached, VolumeTypeOK
    <2>3. QED BY <2>1, <2>2 DEF VolumeInv
  <1>12. ASSUME NEW v \in VolumeIds, DropDisk(v) PROVE VolumeInv'
    <2>1. VolumeTypeOK' BY <1>12, <1>t DEF DropDisk, WorkedOff, VolumeTypeOK, VolumeStates
    <2>2. Singular' /\ InUseIsAttached'
      BY <1>12, <1>t DEF VolumeInv, DropDisk, WorkedOff, Singular, InUseIsAttached, VolumeTypeOK
    <2>3. QED BY <2>1, <2>2 DEF VolumeInv
  <1>13. CASE ManagerStops
    BY <1>13, VolumeAssumption DEF VolumeInv, ManagerStops, VolumeTypeOK, Singular, InUseIsAttached
  <1>14. CASE UNCHANGED volumeVars
    BY <1>14 DEF VolumeInv, volumeVars, VolumeTypeOK, Singular, InUseIsAttached
  <1>15. ASSUME NEW v \in VolumeIds, AwaitSpace(v) PROVE VolumeInv'
    BY <1>15 DEF VolumeInv, AwaitSpace, WorkedOff, VolumeTypeOK, Singular, InUseIsAttached
  <1>16. ASSUME NEW v \in VolumeIds, SpaceChanges(v) PROVE VolumeInv'
    BY <1>16 DEF VolumeInv, SpaceChanges, VolumeTypeOK, Singular, InUseIsAttached
  <1>17. QED
    BY <1>1, <1>2, <1>3, <1>4, <1>5, <1>6, <1>7, <1>8, <1>9, <1>10, <1>11, <1>12, <1>13, <1>14,
       <1>15, <1>16
    DEF VolumeNext, WriteRequest, ManagerStep

\* The state of the volumes stays well typed.
THEOREM VolumesTypeCorrect == VolumeSpec => []VolumeTypeOK
  <1>1. VolumeInit => VolumeInv BY VolumeInvInitially
  <1>2. VolumeInv /\ [VolumeNext]_volumeVars => VolumeInv' BY VolumeInvKept
  <1>3. VolumeInv => VolumeTypeOK BY DEF VolumeInv
  <1>4. QED BY <1>1, <1>2, <1>3, PTL DEF VolumeSpec

\* A volume in use is attached, and a workspace has one volume at most, for any number of
\* volumes, workspaces and requests that overtake each other and the manager.
THEOREM VolumesInUseAreAttached == VolumeSpec => []InUseIsAttached
  <1>1. VolumeInit => VolumeInv BY VolumeInvInitially
  <1>2. VolumeInv /\ [VolumeNext]_volumeVars => VolumeInv' BY VolumeInvKept
  <1>3. VolumeInv => InUseIsAttached BY DEF VolumeInv
  <1>4. QED BY <1>1, <1>2, <1>3, PTL DEF VolumeSpec

\* ... and in the composition with the rest of the fleet, which the run checks.
THEOREM VolumesInUseAreAttachedInFleet == FleetSpec => []InUseIsAttached
  <1>1. FleetInit => VolumeInv BY FleetStarts, VolumeInvInitially
  <1>2. VolumeInv /\ [FleetNext]_fleetVars => VolumeInv' BY FleetStepsVolumes, VolumeInvKept
  <1>3. VolumeInv => InUseIsAttached BY DEF VolumeInv
  <1>4. QED BY <1>1, <1>2, <1>3, PTL DEF FleetSpec

-----------------------------------------------------------------------------
(* Exposed ports.                                                          *)

\* Every row, active or released, has a mode its user has written for that port.
RowsAreChosen ==
    \A s \in Services : \A row \in shared[s] : <<s, row.mode>> \in chosen

ShareInv == ShareTypeOK /\ ServedAsChosen /\ RowsAreChosen

\* The invariant of the exposed ports holds at first.
LEMMA ShareInvInitially == ShareInit => ShareInv
  BY DEF ShareInit, ShareInv, ShareTypeOK, ServedAsChosen, RowsAreChosen

\* A port's rows rewritten, one row of a mode its user chooses for every row there was.
LEMMA RewriteKeeps ==
  ASSUME ShareInv, NEW s \in Services, NEW rows \in SUBSET SharedRow,
         shared' = [shared EXCEPT ![s] = rows],
         \A a, b \in rows : a = b,
         chosen \subseteq chosen',
         \A row \in rows : <<s, row.mode>> \in chosen',
         UNCHANGED serving
  PROVE  ServedAsChosen' /\ RowsAreChosen' /\ shared' \in [Services -> SUBSET SharedRow]
  <1>1. shared'[s] = rows /\ \A t \in Services \ {s} : shared'[t] = shared[t]
    BY DEF ShareInv, ShareTypeOK
  <1>2. ServedAsChosen' BY <1>1 DEF ShareInv, ServedAsChosen
  <1>3. RowsAreChosen' BY <1>1 DEF ShareInv, RowsAreChosen
  <1>4. QED BY <1>2, <1>3 DEF ShareInv, ShareTypeOK

\* Every step of the exposed ports keeps the invariant.
LEMMA ShareInvKept == ShareInv /\ [ShareNext]_shareVars => ShareInv'
  <1> SUFFICES ASSUME ShareInv, [ShareNext]_shareVars PROVE ShareInv'
    OBVIOUS
  <1>t. ShareTypeOK BY DEF ShareInv
  <1>1. CASE HostEnds
    BY <1>1 DEF ShareInv, HostEnds, ShareTypeOK, ServedAsChosen, RowsAreChosen
  <1>2. CASE LoadShares
    <2> DEFINE modes(s) == {row.mode : row \in {x \in shared[s] : x.active}}
    <2>1. \A s \in Services : serving'[s] = modes(s) BY <1>2 DEF LoadShares
    <2>2. \A s \in Services : \A m \in modes(s) : \E row \in shared[s] : m = row.mode
      OBVIOUS
    <2>3. \A s \in Services : modes(s) \in SUBSET Modes BY <1>t DEF ShareTypeOK, SharedRow
    <2> HIDE DEF modes
    <2>4. ShareTypeOK' BY <1>2, <1>t, <2>1, <2>3 DEF LoadShares, ShareTypeOK
    <2>5. ServedAsChosen' /\ RowsAreChosen'
      BY <1>2, <2>1, <2>2 DEF ShareInv, LoadShares, ServedAsChosen, RowsAreChosen
    <2>6. QED BY <2>4, <2>5 DEF ShareInv
  <1>3. CASE CrashProxy
    BY <1>3 DEF ShareInv, CrashProxy, ShareTypeOK, ServedAsChosen, RowsAreChosen
  <1>4. ASSUME NEW s \in Services, ReleaseShare(s) PROVE ShareInv'
    <2> DEFINE rows == {[row EXCEPT !.active = FALSE] : row \in shared[s]}
    <2>1. \A row \in shared[s] : row \in [mode : Modes, active : BOOLEAN]
      BY <1>t DEF ShareTypeOK, SharedRow
    <2>2. \A row \in shared[s] : /\ [row EXCEPT !.active = FALSE] \in [mode : Modes, active : BOOLEAN]
                                 /\ [row EXCEPT !.active = FALSE].mode = row.mode
      BY <2>1
    <2>3. rows \in SUBSET SharedRow BY <2>2 DEF SharedRow
    <2>4. \A a, b \in rows : a = b BY DEF ShareInv, ServedAsChosen
    <2>5. \A row \in rows : <<s, row.mode>> \in chosen BY <2>2 DEF ShareInv, RowsAreChosen
    <2>6. shared' = [shared EXCEPT ![s] = rows] /\ UNCHANGED <<hosting, sharing, proxy, serving, chosen>>
      BY <1>4 DEF ReleaseShare
    <2> HIDE DEF rows
    <2>7. ServedAsChosen' /\ RowsAreChosen' /\ shared' \in [Services -> SUBSET SharedRow]
      BY <2>3, <2>4, <2>5, <2>6, RewriteKeeps
    <2>8. QED BY <2>6, <2>7 DEF ShareInv, ShareTypeOK
  <1>5. ASSUME NEW r \in ShareRequests, ExposeWrite(r) PROVE ShareInv'
    <2>1. PICK d \in sharing[r] :
            /\ d.do = "expose"
            /\ IF d.found \/ shared[d.of] = {}
                 THEN /\ shared' = [shared EXCEPT ![d.of] = {[mode |-> d.mode, active |-> TRUE]}]
                      /\ chosen' = chosen \cup {<<d.of, d.mode>>}
                 ELSE UNCHANGED <<shared, chosen>>
      BY <1>5 DEF ExposeWrite
    <2>2. d \in ShareDecisions BY <1>t DEF ShareTypeOK
    <2>3. d.of \in Services /\ d.mode \in Modes BY <2>2 DEF ShareDecisions
    <2>4. sharing' \in [ShareRequests -> SUBSET ShareDecisions]
          /\ UNCHANGED <<hosting, proxy, serving>>
      BY <1>5, <1>t DEF ExposeWrite, ShareTypeOK
    <2>5. CASE d.found \/ shared[d.of] = {}
      <3> DEFINE rows == {[mode |-> d.mode, active |-> TRUE]}
      <3>a. rows \in SUBSET SharedRow BY <2>3 DEF SharedRow
      <3>b. \A a, b \in rows : a = b OBVIOUS
      <3>c. \A row \in rows : row.mode = d.mode OBVIOUS
      <3>d. shared' = [shared EXCEPT ![d.of] = rows] /\ chosen' = chosen \cup {<<d.of, d.mode>>}
        BY <2>1, <2>5
      <3> HIDE DEF rows
      <3>e. chosen \subseteq chosen' /\ \A row \in rows : <<d.of, row.mode>> \in chosen'
        BY <3>c, <3>d
      <3>1. ServedAsChosen' /\ RowsAreChosen' /\ shared' \in [Services -> SUBSET SharedRow]
        BY <2>3, <2>4, <3>a, <3>b, <3>d, <3>e, RewriteKeeps
      <3>2. chosen' \subseteq Services \X Modes BY <2>1, <2>3, <2>5, <1>t DEF ShareTypeOK
      <3>3. QED BY <2>4, <3>1, <3>2, <1>t DEF ShareInv, ShareTypeOK
    <2>6. CASE ~(d.found \/ shared[d.of] = {})
      BY <2>1, <2>4, <2>6 DEF ShareInv, ShareTypeOK, ServedAsChosen, RowsAreChosen
    <2>7. QED BY <2>5, <2>6
  <1>6. ASSUME NEW r \in ShareRequests, UpdateWrite(r) PROVE ShareInv'
    <2>1. PICK d \in sharing[r] :
            /\ d.do = "update"
            /\ shared' = [shared EXCEPT ![d.of] = {[row EXCEPT !.mode = d.mode] : row \in @}]
            /\ chosen' = chosen \cup {<<d.of, d.mode>>}
      BY <1>6 DEF UpdateWrite
    <2>2. d \in ShareDecisions BY <1>t DEF ShareTypeOK
    <2>3. d.of \in Services /\ d.mode \in Modes BY <2>2 DEF ShareDecisions
    <2> DEFINE rows == {[row EXCEPT !.mode = d.mode] : row \in shared[d.of]}
    <2>4. \A row \in shared[d.of] : row \in [mode : Modes, active : BOOLEAN]
      BY <1>t, <2>3 DEF ShareTypeOK, SharedRow
    <2>5. \A row \in shared[d.of] : /\ [row EXCEPT !.mode = d.mode] \in [mode : Modes, active : BOOLEAN]
                                    /\ [row EXCEPT !.mode = d.mode].mode = d.mode
      BY <2>3, <2>4
    <2>6. rows \in SUBSET SharedRow BY <2>5 DEF SharedRow
    <2>7. \A a, b \in rows : a = b BY <2>3 DEF ShareInv, ServedAsChosen
    <2>8. \A row \in rows : <<d.of, row.mode>> \in chosen' BY <2>1, <2>5
    <2>9. shared' = [shared EXCEPT ![d.of] = rows] BY <2>1
    <2> HIDE DEF rows
    <2>10. sharing' \in [ShareRequests -> SUBSET ShareDecisions]
           /\ UNCHANGED <<hosting, proxy, serving>>
      BY <1>6, <1>t DEF UpdateWrite, ShareTypeOK
    <2>11. ServedAsChosen' /\ RowsAreChosen' /\ shared' \in [Services -> SUBSET SharedRow]
      BY <2>1, <2>3, <2>6, <2>7, <2>8, <2>9, <2>10, RewriteKeeps
    <2>12. chosen' \subseteq Services \X Modes BY <2>1, <2>3, <1>t DEF ShareTypeOK
    <2>13. QED BY <2>10, <2>11, <2>12, <1>t DEF ShareInv, ShareTypeOK
  <1>7. ASSUME NEW r \in ShareRequests, NEW s \in Services, NEW m \in Modes, ExposeRead(r, s, m)
        PROVE  ShareInv'
    <2>1. [do |-> "expose", of |-> s, mode |-> m, found |-> shared[s] # {}] \in ShareDecisions
      BY DEF ShareDecisions
    <2>2. ShareTypeOK' BY <1>7, <1>t, <2>1 DEF ExposeRead, ShareTypeOK
    <2>3. QED BY <1>7, <2>2 DEF ShareInv, ExposeRead, ServedAsChosen, RowsAreChosen
  <1>8. ASSUME NEW r \in ShareRequests, NEW s \in Services, NEW m \in Modes, UpdateRead(r, s, m)
        PROVE  ShareInv'
    <2>1. [do |-> "update", of |-> s, mode |-> m] \in ShareDecisions BY DEF ShareDecisions
    <2>2. ShareTypeOK' BY <1>8, <1>t, <2>1 DEF UpdateRead, ShareTypeOK
    <2>3. QED BY <1>8, <2>2 DEF ShareInv, UpdateRead, ServedAsChosen, RowsAreChosen
  <1>9. CASE UNCHANGED shareVars
    BY <1>9 DEF ShareInv, shareVars, ShareTypeOK, ServedAsChosen, RowsAreChosen
  <1>10. QED BY <1>1, <1>2, <1>3, <1>4, <1>5, <1>6, <1>7, <1>8, <1>9 DEF ShareNext

\* A port has one row and is served in one mode, one its user has chosen, for any number
\* of ports and racing requests, and across the restarts of the gateway.
THEOREM PortsServedAsChosen == ShareSpec => []ServedAsChosen
  <1>1. ShareInit => ShareInv BY ShareInvInitially
  <1>2. ShareInv /\ [ShareNext]_shareVars => ShareInv' BY ShareInvKept
  <1>3. ShareInv => ServedAsChosen BY DEF ShareInv
  <1>4. QED BY <1>1, <1>2, <1>3, PTL DEF ShareSpec

\* ... and in the composition with the rest of the fleet.
THEOREM PortsServedAsChosenInFleet == FleetSpec => []ServedAsChosen
  <1>1. FleetInit => ShareInv BY FleetStarts, ShareInvInitially
  <1>2. ShareInv /\ [FleetNext]_fleetVars => ShareInv' BY FleetStepsShares, ShareInvKept
  <1>3. ShareInv => ServedAsChosen BY DEF ShareInv
  <1>4. QED BY <1>1, <1>2, <1>3, PTL DEF FleetSpec
-----------------------------------------------------------------------------
(* Leadership, ticks and incidents: types.                                 *)

\* A step of the composition is a step of the leadership, or not its business ...
LEMMA FleetStepsLeadership == [FleetNext]_fleetVars => [LeaderNext]_leaderVars
  BY DEF FleetNext, fleetVars, leaderVars

\* ... and so for the ticks ...
LEMMA FleetStepsTicks == [FleetNext]_fleetVars => [TickNext]_tickVars
  BY DEF FleetNext, fleetVars, tickVars

\* ... and for the incidents.
LEMMA FleetStepsIncidents == [FleetNext]_fleetVars => [IncidentNext]_incidentVars
  BY DEF FleetNext, fleetVars, incidentVars

\* The leadership starts well typed.
LEMMA LeaderTypeInitially == LeaderInit => LeaderTypeOK
  BY LeadershipAssumption DEF LeaderInit, LeaderTypeOK

\* The token a worker takes is one nobody has.
LEMMA FreshTokenIsUnused ==
  ASSUME \E t \in Tokens : Unused(t)
  PROVE  FreshToken \in Tokens /\ Unused(FreshToken)
  BY DEF FreshToken

\* A process that ends leaves well-typed variables.
LEMMA EndedType ==
  ASSUME LeaderTypeOK, NEW w \in Workers, ProcessEnds(w), faults' \in 0 .. MaxFaults
  PROVE  LeaderTypeOK'
  BY LeadershipAssumption DEF LeaderTypeOK, ProcessEnds

\* So does an attempt that is scheduled again.
LEMMA RetriedType ==
  ASSUME LeaderTypeOK, NEW w \in Workers, NEW left \in 0 .. MaxAttempts, RetryOrExit(w, left),
         upserts' \in [Workers -> SUBSET Tokens], faults' \in 0 .. MaxFaults
  PROVE  LeaderTypeOK'
  <1>1. CASE ProcessEnds(w) BY <1>1, EndedType
  <1>2. CASE ~ProcessEnds(w)
    <2>1. retries[w] + 1 \in 0 .. MaxRetries
      BY <1>2, LeadershipAssumption DEF RetryOrExit, LeaderTypeOK
    <2>2. (IF left < MaxAttempts THEN left + 1 ELSE left) \in 0 .. MaxAttempts
      BY LeadershipAssumption
    <2>3. QED BY <1>2, <2>1, <2>2 DEF RetryOrExit, LeaderTypeOK
  <1>3. QED BY <1>1, <1>2

\* A fault is counted.
LEMMA FaultType == ASSUME LeaderTypeOK, Fault PROVE faults' \in 0 .. MaxFaults
  BY LeadershipAssumption DEF LeaderTypeOK, Fault

\* A step of the leadership keeps its types.
LEMMA LeaderTypeKept == LeaderTypeOK /\ [LeaderNext]_leaderVars => LeaderTypeOK'
  <1> SUFFICES ASSUME LeaderTypeOK, [LeaderNext]_leaderVars PROVE LeaderTypeOK'
    OBVIOUS
  <1>1. CASE LoseConnection
    BY <1>1, FaultType DEF LoseConnection, LeaderTypeOK
  <1>2. ASSUME NEW w \in Workers, StartWorker(w) PROVE LeaderTypeOK'
    BY <1>2, LeadershipAssumption DEF StartWorker, LeaderTypeOK
  <1>3. ASSUME NEW w \in Workers, StopWorker(w) PROVE LeaderTypeOK'
    BY <1>3, EndedType, FaultType DEF StopWorker
  <1>4. ASSUME NEW w \in Workers, NEW c \in Connections, TakeLock(w, c) PROVE LeaderTypeOK'
    <2>1. FreshToken \in Tokens BY <1>4, FreshTokenIsUnused DEF TakeLock
    <2>2. scheduled[w] - 1 \in 0 .. MaxAttempts
      BY <1>4, LeadershipAssumption DEF TakeLock, LeaderTypeOK
    <2>3. QED BY <1>4, <2>1, <2>2, LeadershipAssumption DEF TakeLock, LeaderTypeOK
  <1>5. ASSUME NEW w \in Workers, NEW c \in Connections, LockRefused(w, c) PROVE LeaderTypeOK'
    <2>1. scheduled[w] - 1 \in 0 .. MaxAttempts
      BY <1>5, LeadershipAssumption DEF LockRefused, LeaderTypeOK
    <2>2. upserts' \in [Workers -> SUBSET Tokens] BY <1>5 DEF LockRefused, LeaderTypeOK
    <2>3. faults' \in 0 .. MaxFaults BY <1>5 DEF LockRefused, LeaderTypeOK
    <2>4. QED BY <1>5, <2>1, <2>2, <2>3, RetriedType DEF LockRefused
  <1>6. ASSUME NEW w \in Workers, LockFails(w) PROVE LeaderTypeOK'
    <2>1. scheduled[w] - 1 \in 0 .. MaxAttempts
      BY <1>6, LeadershipAssumption DEF LockFails, LeaderTypeOK
    <2>2. upserts' \in [Workers -> SUBSET Tokens] BY <1>6 DEF LockFails, LeaderTypeOK
    <2>3. QED BY <1>6, <2>1, <2>2, FaultType, RetriedType DEF LockFails
  <1>7. ASSUME NEW w \in Workers, UpsertLeader(w) PROVE LeaderTypeOK'
    BY <1>7 DEF UpsertLeader, LeaderTypeOK
  <1>8. ASSUME NEW w \in Workers, UpsertLeaderFails(w) PROVE LeaderTypeOK'
    <2>1. scheduled[w] \in 0 .. MaxAttempts BY DEF LeaderTypeOK
    <2>2. upserts' \in [Workers -> SUBSET Tokens] BY <1>8 DEF UpsertLeaderFails, LeaderTypeOK
    <2>3. QED BY <1>8, <2>1, <2>2, FaultType, RetriedType DEF UpsertLeaderFails
  <1>9. ASSUME NEW w \in Workers, ReadLeader(w) PROVE LeaderTypeOK'
    <2>1. faults' \in 0 .. MaxFaults BY <1>9, FaultType DEF ReadLeader, LeaderTypeOK
    <2>2. QED BY <1>9, <2>1 DEF ReadLeader, LeaderTypeOK
  <1>10. ASSUME NEW w \in Workers, CompareToken(w) PROVE LeaderTypeOK'
    <2>1. (IF scheduled[w] < MaxAttempts THEN scheduled[w] + 1 ELSE scheduled[w])
             \in 0 .. MaxAttempts
      BY LeadershipAssumption DEF LeaderTypeOK
    <2>2. QED BY <1>10, <2>1 DEF CompareToken, LeaderTypeOK
  <1>11. CASE UNCHANGED leaderVars BY <1>11 DEF leaderVars, LeaderTypeOK
  <1>12. QED
    BY <1>1, <1>2, <1>3, <1>4, <1>5, <1>6, <1>7, <1>8, <1>9, <1>10, <1>11 DEF LeaderNext, TryLock

\* The ticks start well typed ...
LEMMA TickTypeInitially == TickInit => TickTypeOK
  BY TickAssumption DEF TickInit, TickTypeOK, NoTick

\* ... and stay so: a tick is past its last job exactly when it is over.
LEMMA TickTypeKept == TickTypeOK /\ [TickNext]_tickVars => TickTypeOK'
  <1> SUFFICES ASSUME TickTypeOK, [TickNext]_tickVars PROVE TickTypeOK'
    OBVIOUS
  <1> DEFINE Tick == [at : 0 .. Jobs, running : BOOLEAN, hangs : BOOLEAN,
                      finds : SUBSET (1 .. Jobs)]
  <1>a. \A k \in TickSlots : ticks[k] \in Tick /\ NextJob(k) \in 0 .. Jobs
    <2>1. ASSUME NEW k \in TickSlots
          PROVE  ticks[k] \in Tick /\ ticks[k].at \in 0 .. Jobs
      BY DEF TickTypeOK
    <2>2. QED BY <2>1, TickAssumption DEF NextJob
  <1>1. ASSUME NEW j \in 1 .. Jobs, JobDue(j) PROVE TickTypeOK'
    BY <1>1 DEF JobDue, TickTypeOK
  <1>b. ASSUME NEW k \in TickSlots, Passed(k) PROVE TickTypeOK'
    <2>1. NoTick \in Tick BY TickAssumption DEF NoTick
    <2>2. [at |-> NextJob(k), running |-> FALSE, hangs |-> FALSE, finds |-> ticks[k].finds] \in Tick
      BY <1>a
    <2>3. ticks' \in [TickSlots -> Tick] BY <1>b, <2>1, <2>2 DEF Passed, TickTypeOK
    <2>4. QED BY <1>b, <2>3 DEF Passed, TickTypeOK
  <1>2. ASSUME NEW k \in TickSlots, StartTick(k) PROVE TickTypeOK'
    <2>1. [at |-> 1, running |-> FALSE, hangs |-> FALSE, finds |-> due] \in Tick
      BY TickAssumption DEF TickTypeOK
    <2>2. QED BY <1>2, <2>1 DEF StartTick, Started, TickTypeOK
  <1>3. ASSUME NEW k \in TickSlots, StartJob(k) PROVE TickTypeOK'
    <2>1. \A i \in TickSlots : \A j : /\ ticks[i] \in Tick
                                      /\ [ticks[i] EXCEPT !.running = TRUE] \in Tick
                                      /\ [ticks[i] EXCEPT !.finds = @ \ {j}] \in Tick
      BY <1>a
    <2>2. ticks' \in [TickSlots -> Tick]
      <3>1. PICK still \in SUBSET younger[k] :
              ticks' = [i \in TickSlots |->
                          IF i = k THEN [ticks[k] EXCEPT !.running = TRUE]
                          ELSE IF i \in still THEN ticks[i]
                          ELSE [ticks[i] EXCEPT !.finds = @ \ {ticks[k].at}]]
        BY <1>3, Zenon DEF StartJob
      <3>2. ASSUME NEW i \in TickSlots
            PROVE  (IF i = k THEN [ticks[k] EXCEPT !.running = TRUE]
                    ELSE IF i \in still THEN ticks[i]
                    ELSE [ticks[i] EXCEPT !.finds = @ \ {ticks[k].at}]) \in Tick
        BY <2>1, Zenon
      <3>3. QED BY <3>1, <3>2, Zenon
    <2>3. QED BY <1>3, <2>2 DEF StartJob, TickTypeOK
  <1>4. ASSUME NEW k \in TickSlots, SkipJob(k) PROVE TickTypeOK'
    BY <1>4, <1>b DEF SkipJob
  <1>5. ASSUME NEW k \in TickSlots, EndJob(k) PROVE TickTypeOK'
    BY <1>5, <1>b DEF EndJob
  <1>6. ASSUME NEW k \in TickSlots, JobHangs(k) PROVE TickTypeOK'
    BY <1>6 DEF JobHangs, TickTypeOK
  <1>7. CASE UNCHANGED tickVars BY <1>7 DEF tickVars, TickTypeOK
  <1>8. QED BY <1>1, <1>2, <1>3, <1>4, <1>5, <1>6, <1>7 DEF TickNext, WithinTick

\* The incidents start well typed.
LEMMA IncidentTypeInitially == IncidentInit => IncidentTypeOK
  BY IncidentAssumption DEF IncidentInit, IncidentTypeOK

\* What a check leaves to do is a sequence of duties.
LEMMA ChecksAreDuties == CheckSpike \in Seq(Duties) /\ CheckCleanupBacklog \in Seq(Duties)
  <1>1. \A t \in Types : Raise(t) \in Duties /\ Resolve(t) \in Duties
    BY DEF Raise, Resolve, Duties
  <1>2. \A t \in Types : <<Raise(t)>> \in Seq(Duties) /\ <<Resolve(t)>> \in Seq(Duties)
    BY <1>1
  <1>3. \A t, u \in Types : <<Resolve(t), Resolve(u)>> \in Seq(Duties)
    BY <1>1
  <1>4. "spike" \in Types /\ "cleanup_failed" \in Types /\ "cleanup_backlog" \in Types
    BY DEF Types
  <1>5. QED BY <1>2, <1>3, <1>4 DEF CheckSpike, CheckCount, CheckCleanupBacklog

\* A duty that is left is of a type, and the rest are duties.
LEMMA DutyLeft ==
  ASSUME IncidentTypeOK, NEW p \in Passes, pass[p].duties # <<>>
  PROVE  TypeOf(p) \in Types /\ Tail(pass[p].duties) \in Seq(Duties)
  <1>1. pass[p].duties \in Seq(Duties) BY DEF IncidentTypeOK
  <1>2. Head(pass[p].duties) \in Duties /\ Tail(pass[p].duties) \in Seq(Duties)
    BY <1>1
  <1>3. QED BY <1>2 DEF TypeOf, Duties

\* A step of the incidents keeps their types.
LEMMA IncidentTypeKept == IncidentTypeOK /\ [IncidentNext]_incidentVars => IncidentTypeOK'
  <1> SUFFICES ASSUME IncidentTypeOK, [IncidentNext]_incidentVars PROVE IncidentTypeOK'
    OBVIOUS
  <1>1. ASSUME NEW p \in Passes, Count(p) PROVE IncidentTypeOK'
    <2>1. <<>> \in Seq(Duties) OBVIOUS
    <2>2. pass[p].check \in 0 .. 2 BY DEF IncidentTypeOK
    <2>3. pass' \in [Passes -> [check : 0 .. 2, duties : Seq(Duties)]]
      BY <1>1, <2>1, <2>2, ChecksAreDuties DEF Count, IncidentTypeOK
    <2>4. QED BY <1>1, <2>3 DEF Count, IncidentTypeOK
  <1>2. ASSUME NEW p \in Passes, FindIncident(p) PROVE IncidentTypeOK'
    <2>1. TypeOf(p) \in Types /\ Tail(pass[p].duties) \in Seq(Duties)
      BY <1>2, DutyLeft DEF FindIncident, Duty
    <2>2. Create(TypeOf(p)) \in Duties BY <2>1 DEF Create, Duties
    <2>3. <<Create(TypeOf(p))>> \in Seq(Duties) /\ <<>> \in Seq(Duties) BY <2>2
    <2>4. (IF open[TypeOf(p)] > 0 THEN <<>> ELSE <<Create(TypeOf(p))>>) \o Tail(pass[p].duties)
             \in Seq(Duties)
      BY <2>1, <2>3
    <2>5. QED BY <1>2, <2>4 DEF FindIncident, IncidentTypeOK
  <1>3. ASSUME NEW p \in Passes, CreateIncident(p) PROVE IncidentTypeOK'
    <2>1. TypeOf(p) \in Types /\ Tail(pass[p].duties) \in Seq(Duties)
      BY <1>3, DutyLeft DEF CreateIncident, Duty
    <2>2. open[TypeOf(p)] + 1 \in Nat BY <2>1 DEF IncidentTypeOK
    <2>3. pass' \in [Passes -> [check : 0 .. 2, duties : Seq(Duties)]]
      BY <1>3, <2>1 DEF CreateIncident, Done, IncidentTypeOK
    <2>4. open' \in [Types -> Nat]
      BY <1>3, <2>2 DEF CreateIncident, IncidentTypeOK
    <2>5. QED BY <1>3, <2>3, <2>4 DEF CreateIncident, IncidentTypeOK
  <1>4. ASSUME NEW p \in Passes, ResolveIncident(p) PROVE IncidentTypeOK'
    <2>1. TypeOf(p) \in Types /\ Tail(pass[p].duties) \in Seq(Duties)
      BY <1>4, DutyLeft DEF ResolveIncident, Duty
    <2>2. QED BY <1>4, <2>1 DEF ResolveIncident, Done, IncidentTypeOK
  <1>5. ASSUME NEW p \in Passes, CheckThrows(p) PROVE IncidentTypeOK'
    <2>1. <<>> \in Seq(Duties) OBVIOUS
    <2>2. QED BY <1>5, <2>1, IncidentAssumption DEF CheckThrows, IncidentTypeOK
  <1>6. CASE LaunchesChange BY <1>6 DEF LaunchesChange, IncidentTypeOK
  <1>7. ASSUME NEW t \in Types, ConditionChanges(t) PROVE IncidentTypeOK'
    BY <1>7 DEF ConditionChanges, IncidentTypeOK
  <1>8. ASSUME NEW t \in Types, ResolveByAuthor(t) PROVE IncidentTypeOK'
    BY <1>8 DEF ResolveByAuthor, IncidentTypeOK
  <1>9. CASE UNCHANGED incidentVars BY <1>9 DEF incidentVars, IncidentTypeOK
  <1>10. QED
    BY <1>1, <1>2, <1>3, <1>4, <1>5, <1>6, <1>7, <1>8, <1>9 DEF IncidentNext, WithinPass

-----------------------------------------------------------------------------
(* Leadership: fencing.                                                    *)

\* A leader has a token, and no two processes have, or are about to write, the same.
TokensApart ==
    /\ \A w \in Workers : isLeader[w] => token[w] # {}
    /\ \A v, w \in Workers : v # w => (token[v] \cup upserts[v]) \cap (token[w] \cup upserts[w]) = {}

LeaderInv == LeaderTypeOK /\ TokensApart

\* The invariant of the leadership holds at first.
LEMMA LeaderInvInitially == LeaderInit => LeaderInv
  BY LeaderTypeInitially DEF LeaderInv, LeaderInit, TokensApart

\* A step that hands out no token but those a process has keeps them apart.
LEMMA NoNewToken ==
  ASSUME TokensApart,
         \A w \in Workers : /\ token'[w] \cup upserts'[w] \subseteq token[w] \cup upserts[w]
                            /\ isLeader'[w] => isLeader[w] /\ token'[w] = token[w]
  PROVE  TokensApart'
  BY DEF TokensApart

\* What a process has when it ends, or tries again.
LEMMA RetryHandsOutNothing ==
  ASSUME LeaderTypeOK, NEW w \in Workers, NEW left, RetryOrExit(w, left),
         NEW t, upserts' = [upserts EXCEPT ![w] = IF process'[w] = "down" THEN {} ELSE @ \ t]
  PROVE  \A v \in Workers : /\ token'[v] \cup upserts'[v] \subseteq token[v] \cup upserts[v]
                            /\ isLeader'[v] => isLeader[v] /\ token'[v] = token[v]
  <1>1. \A v \in Workers : upserts'[v] \subseteq upserts[v] BY DEF LeaderTypeOK
  <1>2. \A v \in Workers : /\ token'[v] \subseteq token[v]
                           /\ isLeader'[v] => isLeader[v] /\ token'[v] = token[v]
    BY DEF RetryOrExit, ProcessEnds, LeaderTypeOK
  <1>3. QED BY <1>1, <1>2

\* Every step keeps the tokens apart: only the lock hands one out, a new one.
LEMMA LeaderInvKept == LeaderInv /\ [LeaderNext]_leaderVars => LeaderInv'
  <1> SUFFICES ASSUME LeaderTypeOK, TokensApart, [LeaderNext]_leaderVars PROVE TokensApart'
    BY LeaderTypeKept DEF LeaderInv
  <1> DEFINE Within == \A w \in Workers :
               /\ token'[w] \cup upserts'[w] \subseteq token[w] \cup upserts[w]
               /\ isLeader'[w] => isLeader[w] /\ token'[w] = token[w]
  <1>1. ASSUME NEW w \in Workers, NEW c \in Connections, TakeLock(w, c) PROVE TokensApart'
    <2>1. FreshToken \in Tokens /\ Unused(FreshToken)
      BY <1>1, FreshTokenIsUnused DEF TakeLock
    <2>2. \A v \in Workers : FreshToken \notin token[v] \cup upserts[v]
      BY <2>1 DEF Unused
    <2>3. /\ token'[w] = {FreshToken} /\ upserts'[w] = upserts[w] \cup {FreshToken}
          /\ \A v \in Workers : v # w => /\ token'[v] = token[v] /\ upserts'[v] = upserts[v]
                                         /\ isLeader'[v] = isLeader[v]
      BY <1>1 DEF TakeLock, LeaderTypeOK
    <2>4. \A v \in Workers : isLeader'[v] => token'[v] # {}
      BY <2>3 DEF TokensApart
    <2>5. \A v \in Workers : v # w =>
             (token'[v] \cup upserts'[v]) \cap (token'[w] \cup upserts'[w]) = {}
      BY <2>2, <2>3 DEF TokensApart
    <2>6. QED BY <2>3, <2>4, <2>5 DEF TokensApart
  <1>2. CASE LoseConnection
    <2>1. Within BY <1>2 DEF LoseConnection
    <2>2. QED BY <2>1, NoNewToken
  <1>3. ASSUME NEW w \in Workers, StartWorker(w) PROVE TokensApart'
    <2>1. Within BY <1>3 DEF StartWorker
    <2>2. QED BY <2>1, NoNewToken
  <1>4. ASSUME NEW w \in Workers, StopWorker(w) PROVE TokensApart'
    <2>1. Within BY <1>4 DEF StopWorker, ProcessEnds, LeaderTypeOK
    <2>2. QED BY <2>1, NoNewToken
  <1>5. ASSUME NEW w \in Workers, LockFails(w) \/ \E c \in Connections : LockRefused(w, c)
        PROVE  TokensApart'
    <2>1. \E left : RetryOrExit(w, left) BY <1>5 DEF LockFails, LockRefused
    <2>2. upserts' = [upserts EXCEPT ![w] = IF process'[w] = "down" THEN {} ELSE upserts[w] \ {}]
      BY <1>5 DEF LockFails, LockRefused
    <2>3. Within BY <2>1, <2>2, RetryHandsOutNothing
    <2>4. QED BY <2>3, NoNewToken
  <1>6. ASSUME NEW w \in Workers, UpsertLeader(w) PROVE TokensApart'
    <2>1. Within BY <1>6 DEF UpsertLeader, LeaderTypeOK
    <2>2. QED BY <2>1, NoNewToken
  <1>7. ASSUME NEW w \in Workers, UpsertLeaderFails(w) PROVE TokensApart'
    <2>1. PICK t \in upserts[w] :
             /\ RetryOrExit(w, scheduled[w])
             /\ upserts' = [upserts EXCEPT ![w] = IF process'[w] = "down" THEN {} ELSE upserts[w] \ {t}]
      BY <1>7 DEF UpsertLeaderFails
    <2>2. Within BY <2>1, RetryHandsOutNothing
    <2>3. QED BY <2>2, NoNewToken
  <1>8. ASSUME NEW w \in Workers, ReadLeader(w) \/ CompareToken(w) PROVE TokensApart'
    <2>1. Within BY <1>8 DEF ReadLeader, CompareToken, LeaderTypeOK
    <2>2. QED BY <2>1, NoNewToken
  <1>9. CASE UNCHANGED leaderVars
    <2>1. Within BY <1>9 DEF leaderVars
    <2>2. QED BY <2>1, NoNewToken
  <1>10. QED
    BY <1>1, <1>2, <1>3, <1>4, <1>5, <1>6, <1>7, <1>8, <1>9 DEF LeaderNext, TryLock

\* The row changes to a token whose upsert was on its way, and to nothing else.
LEMMA RowIsWritten ==
  ASSUME [LeaderNext]_leaderVars
  PROVE  leaderRow' = leaderRow \/ \E w \in Workers : \E t \in upserts[w] : leaderRow' = {t}
  BY DEF LeaderNext, LoseConnection, StartWorker, StopWorker, ProcessEnds, TryLock, TakeLock,
         LockRefused, LockFails, RetryOrExit, UpsertLeader, UpsertLeaderFails, ReadLeader,
         CompareToken, leaderVars

\* An upsert is on its way for a token that was there before, or is taken in this step.
LEMMA UpsertIsOfToken ==
  ASSUME LeaderTypeOK, [LeaderNext]_leaderVars, NEW w \in Workers, token'[w] = token[w],
         token[w] # {}, upserts[w] = {}
  PROVE  upserts'[w] = {}
  <1>1. ASSUME NEW v \in Workers, NEW c \in Connections, TakeLock(v, c) PROVE v # w
    <2>1. FreshToken \in Tokens /\ Unused(FreshToken)
      BY <1>1, FreshTokenIsUnused DEF TakeLock
    <2>2. FreshToken \notin token[w] BY <2>1 DEF Unused
    <2>3. token'[v] = {FreshToken} BY <1>1 DEF TakeLock, LeaderTypeOK
    <2>4. QED BY <2>2, <2>3
  <1>2. ASSUME NEW v \in Workers, NEW c \in Connections, TakeLock(v, c) PROVE upserts'[w] = {}
    BY <1>1, <1>2 DEF TakeLock, LeaderTypeOK
  <1>3. CASE \A v \in Workers, c \in Connections : ~TakeLock(v, c)
    BY <1>3 DEF LeaderNext, LoseConnection, StartWorker, StopWorker, ProcessEnds, TryLock,
                LockRefused, LockFails, RetryOrExit, UpsertLeader, UpsertLeaderFails, ReadLeader,
                CompareToken, leaderVars, LeaderTypeOK
  <1>4. QED BY <1>2, <1>3

\* One process at a time passes the check of its ticks, for any number of workers, of
\* connections, of lost locks and of upserts that come late.
THEOREM OneWorkerLeads == LeaderSpec => []OneLeads
  <1>1. LeaderInit => LeaderInv BY LeaderInvInitially
  <1>2. LeaderInv /\ [LeaderNext]_leaderVars => LeaderInv' BY LeaderInvKept
  <1>3. LeaderInv => OneLeads BY DEF LeaderInv, TokensApart, OneLeads
  <1>4. QED BY <1>1, <1>2, <1>3, PTL DEF LeaderSpec

\* A process that another has fenced off does not pass again by any late upsert, its own
\* included: it has to take the lock again.
THEOREM FencingHolds == LeaderSpec => FencedStaysOut
  <1> DEFINE StaysOut == \A w \in Workers : Fenced(w) => Fenced(w)' \/ token'[w] # token[w]
  <1>1. LeaderInit => LeaderInv BY LeaderInvInitially
  <1>2. LeaderInv /\ [LeaderNext]_leaderVars => LeaderInv' BY LeaderInvKept
  <1>3. LeaderInv /\ [LeaderNext]_leaderVars => StaysOut
    <2> SUFFICES ASSUME LeaderTypeOK, TokensApart, [LeaderNext]_leaderVars, NEW w \in Workers,
                        Fenced(w), token'[w] = token[w]
                 PROVE  Fenced(w)'
      BY DEF LeaderInv
    <2>1. upserts'[w] = {} BY UpsertIsOfToken DEF Fenced
    <2>2. token[w] # leaderRow'
      <3>1. CASE leaderRow' = leaderRow BY <3>1 DEF Fenced
      <3>2. ASSUME NEW v \in Workers, NEW t \in upserts[v], leaderRow' = {t}
            PROVE  token[w] # leaderRow'
        BY <3>2 DEF Fenced, TokensApart
      <3>3. QED BY <3>1, <3>2, RowIsWritten
    <2>3. QED BY <2>1, <2>2 DEF Fenced
  <1>4. LeaderInv /\ [LeaderNext]_leaderVars => [StaysOut]_leaderVars BY <1>3
  <1>5. QED BY <1>1, <1>2, <1>4, PTL DEF LeaderSpec, FencedStaysOut

-----------------------------------------------------------------------------
(* The composition.                                                        *)

FleetTypeInv == focus \in FleetParts /\ LeaderTypeOK /\ TickTypeOK /\ IncidentTypeOK
                /\ VolumeInv /\ LeaseTypeOK /\ ShareInv

\* Every variable of the fleet stays well typed: no count of retries or of scheduled
\* attempts leaves its limits, a tick is at a job of its list or over, a pass of the
\* incidents never looks at a duty that is not there, a lease always has distinct ports.
THEOREM FleetTypeCorrect == FleetSpec => []FleetTypeOK
  <1>1. FleetInit => FleetTypeInv
    BY FleetStarts, LeaderTypeInitially, TickTypeInitially, IncidentTypeInitially,
       VolumeInvInitially, LeaseTypeInitially, ShareInvInitially DEF FleetInit, FleetTypeInv
  <1>2. FleetTypeInv /\ [FleetNext]_fleetVars => FleetTypeInv'
    <2>1. focus \in FleetParts /\ [FleetNext]_fleetVars => (focus \in FleetParts)'
      BY DEF FleetNext, fleetVars
    <2>2. QED
      BY <2>1, FleetStepsLeadership, FleetStepsTicks, FleetStepsIncidents, FleetStepsVolumes,
         FleetStepsLeases, FleetStepsShares, LeaderTypeKept, TickTypeKept, IncidentTypeKept,
         VolumeInvKept, LeaseTypeKept, ShareInvKept DEF FleetTypeInv
  <1>3. FleetTypeInv => FleetTypeOK BY DEF FleetTypeInv, FleetTypeOK, VolumeInv, ShareInv
  <1>4. QED BY <1>1, <1>2, <1>3, PTL DEF FleetSpec
=============================================================================
