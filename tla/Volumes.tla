-------------------------------- MODULE Volumes --------------------------------
(***************************************************************************)
(* Persistent volumes: the user's requests (apps/api/src/routes/volumes.ts)*)
(* and the volume manager of the worker (worker/src/jobs/volume-manager.ts)*)
(* on one table.  Every request reads the volume, decides, and writes it   *)
(* without a condition; the manager works off a list.  A volume attached   *)
(* to a workspace is unique for it, by the schema.  Provisioning attaches  *)
(* a volume in the same way (warm-pool.ts:364, :600).                      *)
(***************************************************************************)
EXTENDS Naturals, FiniteSets

CONSTANTS
    VolumeIds,      \* volumes one user may have (their limit is 10)
    Rooms,          \* the user's workspaces a volume can be attached to
    Requests,       \* bound: requests under way at a time
    Batch,          \* volumes a tick takes of each list (5)
    MaxDiskFaults   \* bound: volumes whose disk cannot be made, and deaths of the worker

ASSUME VolumeAssumption == MaxDiskFaults \in Nat /\ Batch \in Nat \ {0}

VARIABLES
    volume,     \* volume -> its status, or none
    attached,   \* volume -> attachedToWorkspaceId, {} or one
    rooms,      \* workspaces that are RUNNING_ASSIGNED
    request,    \* request -> what it has decided to write, {} or one
    stage,      \* what the manager lists next
    listed,     \* what it has listed and not yet worked off
    lacking,    \* volumes larger than what the emptiest active node has free
    diskFaults

volumeVars == <<volume, attached, rooms, request, stage, listed, lacking, diskFaults>>

VolumeStates == {"none", "CREATING", "AVAILABLE", "IN_USE", "DELETING", "DELETED", "FAILED"}

Decisions ==
    [do : {"attach"}, vol : VolumeIds, room : Rooms] \cup [do : {"detach", "delete"}, vol : VolumeIds]

VolumeTypeOK ==
    /\ volume \in [VolumeIds -> VolumeStates]
    /\ attached \in [VolumeIds -> SUBSET Rooms]
    /\ rooms \subseteq Rooms
    /\ request \in [Requests -> SUBSET Decisions]
    /\ stage \in {"CREATING", "DELETING"}
    /\ listed \subseteq [todo : {"CREATING", "DELETING"}, vol : VolumeIds]
    /\ lacking \subseteq VolumeIds
    /\ diskFaults \in 0 .. MaxDiskFaults

VolumeInit ==
    /\ volume = [v \in VolumeIds |-> "none"]
    /\ attached = [v \in VolumeIds |-> {}]
    /\ rooms = Rooms
    /\ request = [r \in Requests |-> {}]
    /\ stage = "CREATING"
    /\ listed = {} /\ lacking = {}
    /\ diskFaults = 0

-----------------------------------------------------------------------------
(* The user.                                                               *)

\* POST /volumes (the count before it lets two requests through at the limit).
CreateVolume(v) ==
    /\ volume[v] = "none"
    /\ volume' = [volume EXCEPT ![v] = "CREATING"]
    /\ UNCHANGED <<attached, rooms, request, stage, listed, lacking, diskFaults>>

Decide(r, decision) ==
    /\ request[r] = {}
    /\ request' = [request EXCEPT ![r] = {decision}]
    /\ UNCHANGED <<volume, attached, rooms, stage, listed, lacking, diskFaults>>

\* The volume is available, the workspace runs and has no volume.
DecideAttach(r, v, room) ==
    /\ volume[v] = "AVAILABLE" /\ room \in rooms
    /\ \A u \in VolumeIds : room \notin attached[u]
    /\ Decide(r, [do |-> "attach", vol |-> v, room |-> room])

DecideDetach(r, v) ==
    /\ volume[v] = "IN_USE" /\ attached[v] # {}
    /\ Decide(r, [do |-> "detach", vol |-> v])

DecideDelete(r, v) ==
    /\ volume[v] \in {"AVAILABLE", "FAILED", "CREATING"}
    /\ Decide(r, [do |-> "delete", vol |-> v])

Decided(r, do) == \E d \in request[r] : d.do = do
Vol(r) == (CHOOSE d \in request[r] : TRUE).vol
Room(r) == (CHOOSE d \in request[r] : TRUE).room

Answered(r) ==
    request' = [request EXCEPT ![r] = {}] /\ UNCHANGED <<rooms, stage, listed, lacking, diskFaults>>

\* Fault: nothing keeps a workspace from having two volumes.
WriteAttachAnyway(r) ==
    /\ Decided(r, "attach") /\ Answered(r)
    /\ volume' = [volume EXCEPT ![Vol(r)] = "IN_USE"]
    /\ attached' = [attached EXCEPT ![Vol(r)] = {Room(r)}]

\* The update fails on the unique workspace when another volume has come in between.
WriteAttach(r) ==
    /\ Decided(r, "attach") /\ Answered(r)
    /\ IF \E u \in VolumeIds \ {Vol(r)} : Room(r) \in attached[u]
         THEN UNCHANGED <<volume, attached>>
         ELSE /\ volume' = [volume EXCEPT ![Vol(r)] = "IN_USE"]
              /\ attached' = [attached EXCEPT ![Vol(r)] = {Room(r)}]

WriteDetach(r) ==
    /\ Decided(r, "detach") /\ Answered(r)
    /\ volume' = [volume EXCEPT ![Vol(r)] = "AVAILABLE"]
    /\ attached' = [attached EXCEPT ![Vol(r)] = {}]

WriteDelete(r) ==
    /\ Decided(r, "delete") /\ Answered(r)
    /\ volume' = [volume EXCEPT ![Vol(r)] = "DELETING"]
    /\ UNCHANGED attached

\* A workspace ends; its volume stays as it is.
RoomEnds(room) ==
    /\ room \in rooms
    /\ rooms' = rooms \ {room}
    /\ UNCHANGED <<volume, attached, request, stage, listed, lacking, diskFaults>>

-----------------------------------------------------------------------------
(* The nodes.                                                              *)

\* Space is taken and given back by whatever else lives on the nodes.
SpaceChanges(v) ==
    /\ lacking' = IF v \in lacking THEN lacking \ {v} ELSE lacking \cup {v}
    /\ UNCHANGED <<volume, attached, rooms, request, stage, listed, diskFaults>>

-----------------------------------------------------------------------------
(* The manager.                                                            *)

WithStatus(status) == {v \in VolumeIds : volume[v] = status}

\* A batch of them, in no order.
Listing(status) ==
    \E batch \in SUBSET WithStatus(status) :
        /\ batch = WithStatus(status) \/ Cardinality(batch) = Batch
        /\ Cardinality(batch) =< Batch
        /\ listed' = {[todo |-> status, vol |-> v] : v \in batch}

\* Fault: the deletions are forgotten.
ListCreatingOnly ==
    /\ listed = {} /\ Listing("CREATING")
    /\ UNCHANGED <<volume, attached, rooms, request, stage, lacking, diskFaults>>

\* A tick lists what is to be created and, when that is worked off, what is to be
\* deleted.
ListVolumes ==
    /\ listed = {} /\ Listing(stage)
    /\ stage' = IF stage = "CREATING" THEN "DELETING" ELSE "CREATING"
    /\ UNCHANGED <<volume, attached, rooms, request, lacking, diskFaults>>

WorkedOff(v, todo) ==
    /\ [todo |-> todo, vol |-> v] \in listed
    /\ listed' = listed \ {[todo |-> todo, vol |-> v]}
    /\ UNCHANGED <<rooms, request, stage, lacking>>

\* Whatever has become of the volume since it was listed.
MakeDisk(v) ==
    /\ WorkedOff(v, "CREATING") /\ v \notin lacking
    /\ volume' = [volume EXCEPT ![v] = "AVAILABLE"]
    /\ UNCHANGED <<attached, diskFaults>>

\* No node has the space: the volume waits for another pass, however often that is so.
AwaitSpace(v) ==
    /\ WorkedOff(v, "CREATING") /\ v \in lacking
    /\ UNCHANGED <<volume, attached, diskFaults>>

\* No node is active, or the call fails.
NoDisk(v) ==
    /\ WorkedOff(v, "CREATING")
    /\ diskFaults < MaxDiskFaults /\ diskFaults' = diskFaults + 1
    /\ volume' = [volume EXCEPT ![v] = "FAILED"]
    /\ UNCHANGED attached

DropDisk(v) ==
    /\ WorkedOff(v, "DELETING")
    /\ volume' = [volume EXCEPT ![v] = "DELETED"]
    /\ attached' = [attached EXCEPT ![v] = {}]
    /\ UNCHANGED diskFaults

\* The worker dies over the list.
ManagerStops ==
    /\ listed # {} /\ listed' = {} /\ stage' = "CREATING"
    /\ diskFaults < MaxDiskFaults /\ diskFaults' = diskFaults + 1
    /\ UNCHANGED <<volume, attached, rooms, request, lacking>>

-----------------------------------------------------------------------------
ManagerStep == ListVolumes \/ \E v \in VolumeIds : MakeDisk(v) \/ AwaitSpace(v) \/ DropDisk(v)

WriteRequest(r) == WriteAttach(r) \/ WriteDetach(r) \/ WriteDelete(r)

VolumeNext ==
    \/ \E v \in VolumeIds : CreateVolume(v) \/ SpaceChanges(v) \/ NoDisk(v)
    \/ \E r \in Requests, v \in VolumeIds :
         DecideDetach(r, v) \/ DecideDelete(r, v) \/ \E room \in Rooms : DecideAttach(r, v, room)
    \/ \E r \in Requests : WriteRequest(r)
    \/ \E room \in Rooms : RoomEnds(room)
    \/ ManagerStep \/ ManagerStops

VolumeSpec == VolumeInit /\ [][VolumeNext]_volumeVars /\ WF_volumeVars(ManagerStep)

-----------------------------------------------------------------------------
(* Properties.                                                             *)

\* A volume the manager leaves in CREATING or DELETING is one it is about to work off or
\* one that no node has the space for, again and again: whatever requests and lists
\* overtake each other, nothing else keeps it there.  So it is while all the volumes fit
\* into one batch: see README for more of them.
VolumeSettles ==
    \A v \in VolumeIds :
        []<>(volume[v] \notin {"CREATING", "DELETING"} \/ (volume[v] = "CREATING" /\ v \in lacking))

\* What the table says is in use is attached, and to one volume per workspace, under
\* any race of the requests and the manager.  (That an attached volume is in use, the
\* code does not provide: see README.)
InUseIsAttached ==
    /\ \A v \in VolumeIds : volume[v] = "IN_USE" => attached[v] # {}
    /\ \A u, v \in VolumeIds : u # v => attached[u] \cap attached[v] = {}
=============================================================================
