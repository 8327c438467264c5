SPECIFICATION Spec
CONSTANTS
  Cold = {c1}
  Warm = {}
  Gpu = {g1}
  Provisioner = {p1}
  MaxClones = 1
  MaxFaults = 0
INVARIANTS
  TerminatedHasNoVm
CHECK_DEADLOCK FALSE
