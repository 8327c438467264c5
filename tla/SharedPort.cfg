INIT LeaseInit
NEXT LeaseNext
CONSTANTS
  Workspaces = {w1, w2, w3}
  Calls = {k1, k2, k3}
  Ports = {p1, p2, p3}
  Columns = {ssh, jupyter, vscode}
SYMMETRY LeaseSymmetry
INVARIANTS
  PortToldOnce
CHECK_DEADLOCK FALSE
