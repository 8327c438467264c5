SPECIFICATION FairSpec
CONSTANTS
  User = {u1}
  Key = {k1, k2}
  Payload = {p1, p2}
  Cold = {c1, c2}
  Warm = {w1}
  Request = {r1, r2}
  Sends <- UpToRenaming
  Run = {n1}
  MaxActive = 1
  MaxFaults = 2
INVARIANTS LaunchedOnce ProcessingIsLed
PROPERTIES ImplementsContract EveryRequestAnswered
CHECK_DEADLOCK FALSE
