SPECIFICATION Spec
CONSTANTS
  User = {u1, u2}
  Key = {k1}
  Payload = {p1}
  Cold = {c1}
  Warm = {w1}
  Request = {r1, r2}
  Sends <- Anything
  Run = {}
  MaxActive = 1
  MaxFaults = 0
PROPERTY AssignedToOneUser
CHECK_DEADLOCK FALSE
