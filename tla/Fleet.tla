---------------------------------- MODULE Fleet ----------------------------------
(***************************************************************************)
(* The worker's leadership, its tick, the incidents, the volumes, the port *)
(* leases and the exposed ports, side by side.  They share no variable:    *)
(* what one does is seen by another only as a choice of its environment.   *)
(* A behaviour is one of the component `focus' names, the others standing  *)
(* still, which checks each of them as its own specification would and     *)
(* lets one run check them all.                                            *)
(***************************************************************************)
EXTENDS WorkerLeadership, LeaderTick, Incidents, Volumes, GatewayLeases, ExposedPorts

VARIABLE focus

fleetVars == <<focus, leaderVars, tickVars, incidentVars, volumeVars, leaseVars, shareVars>>

FleetParts == {"leadership", "tick", "incidents", "volumes", "leases", "ports"}

FleetTypeOK ==
    /\ focus \in FleetParts
    /\ LeaderTypeOK /\ TickTypeOK /\ IncidentTypeOK /\ VolumeTypeOK /\ LeaseTypeOK /\ ShareTypeOK

FleetInit ==
    /\ focus \in FleetParts
    /\ LeaderInit /\ TickInit /\ IncidentInit /\ VolumeInit /\ LeaseInit /\ ShareInit

FleetNext ==
    \/ /\ focus = "leadership" /\ LeaderNext
       /\ UNCHANGED <<focus, tickVars, incidentVars, volumeVars, leaseVars, shareVars>>
    \/ /\ focus = "tick" /\ TickNext
       /\ UNCHANGED <<focus, leaderVars, incidentVars, volumeVars, leaseVars, shareVars>>
    \/ /\ focus = "incidents" /\ IncidentNext
       /\ UNCHANGED <<focus, leaderVars, tickVars, volumeVars, leaseVars, shareVars>>
    \/ /\ focus = "volumes" /\ VolumeNext
       /\ UNCHANGED <<focus, leaderVars, tickVars, incidentVars, leaseVars, shareVars>>
    \/ /\ focus = "leases" /\ LeaseNext
       /\ UNCHANGED <<focus, leaderVars, tickVars, incidentVars, volumeVars, shareVars>>
    \/ /\ focus = "ports" /\ ShareNext
       /\ UNCHANGED <<focus, leaderVars, tickVars, incidentVars, volumeVars, leaseVars>>

\* The fairness of each component's specification, for the behaviours that are its own.
FleetFairness ==
    /\ \A w \in Workers :
          /\ WF_leaderVars(focus = "leadership" /\ StartWorker(w))
          /\ WF_leaderVars(focus = "leadership" /\ TryLock(w))
          /\ WF_leaderVars(focus = "leadership" /\ UpsertLeader(w))
          /\ WF_leaderVars(focus = "leadership" /\ ReadLeader(w))
          /\ WF_leaderVars(focus = "leadership" /\ CompareToken(w))
    /\ \A k \in TickSlots : WF_tickVars(focus = "tick" /\ WithinTick(k))
    /\ \A p \in Passes : WF_incidentVars(focus = "incidents" /\ WithinPass(p))
    /\ WF_volumeVars(focus = "volumes" /\ ManagerStep)
    /\ \A w \in Workspaces : WF_leaseVars(focus = "leases" /\ ReleaseLeak(w))

FleetSpec == FleetInit /\ [][FleetNext]_fleetVars /\ FleetFairness
=============================================================================
