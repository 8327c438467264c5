--------------------------- MODULE MCGatewayLeases ---------------------------
(* Instances of GatewayLeases for TLC.  Workspaces are alike, and so are   *)
(* the calls and the ports.                                                *)
EXTENDS GatewayLeases, TLC

LeaseSymmetry == Permutations(Workspaces) \cup Permutations(Calls) \cup Permutations(Ports)
=============================================================================
