SPECIFICATION Spec
CONSTANTS
  Cold = {c1}
  Warm = {m1}
  Gpu = {g1, g2}
  Provisioner = {p1, p2}
  MaxClones = 2
  MaxFaults = 0
INVARIANTS
  VmidsDistinct
CHECK_DEADLOCK FALSE
