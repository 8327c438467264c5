SPECIFICATION Spec
CONSTANTS
  Cold = {c1}
  Warm = {m1}
  Gpu = {g1, g2}
  Provisioner = {p1, p2}
  MaxClones = 1
  MaxFaults = 0
INVARIANTS
  NoOrphanVm
CHECK_DEADLOCK FALSE
