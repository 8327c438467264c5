SPECIFICATION FairSpec
CONSTANTS
  Cold = {c1}
  Warm = {m1}
  Gpu = {g1, g2}
  Provisioner = {p1}
  MaxClones = 1
  MaxFaults = 1
INVARIANTS
  AllocatedHasRow
PROPERTIES
  LaunchSettles
  SlotsComeBack
  StuckGpuIsFreed
CHECK_DEADLOCK FALSE
