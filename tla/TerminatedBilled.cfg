SPECIFICATION Spec
CONSTANTS
  Workspace = {w1}
  Cleaner = {c1}
  Waiter = {t1}
  Launch = {}
  MaxAttempts = 2
  MaxFaults = 0
  VerifyOutcome = {}
INVARIANTS
  TerminatedNotBilled
