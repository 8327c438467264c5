------------------------ MODULE MCLaunchOperations -------------------------
(* Instances of LaunchOperations for TLC.  With one user, keys and payloads *)
(* are alike: fixing those of one request loses none but renamed runs.      *)
EXTENDS LaunchOperations

Anything == Request \X Operation \X Payload

UpToRenaming ==
  LET first == CHOOSE a \in Anything : TRUE
  IN  {first} \cup {a \in Anything : a[1] # first[1]}
=============================================================================
