INIT LeaseInit
NEXT LeaseNext
CONSTANTS
  Workspaces = {w1}
  Calls = {k1, k2}
  Ports = {p1, p2}
  Columns = {ssh}
SYMMETRY LeaseSymmetry
INVARIANTS
  LeaseNeverReplaced
CHECK_DEADLOCK FALSE
