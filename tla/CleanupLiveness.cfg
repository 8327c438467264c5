SPECIFICATION FairSpec
CONSTANTS
  Workspace = {w1}
  Cleaner = {c1}
  Waiter = {t1}
  Launch = {l1}
  MaxAttempts = 2
  MaxFaults = 2
  VerifyOutcome = {"pass"}
PROPERTIES
  NeverStuckTerminating
  QueuedCleanupSettles
  GhostIsTakenDown
  ImplementsTeardown
