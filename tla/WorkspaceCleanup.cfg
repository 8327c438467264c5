SPECIFICATION Spec
CONSTANTS
  Workspace = {w1}
  Cleaner = {c1, c2}
  Waiter = {t1}
  Launch = {l1}
  MaxAttempts = 2
  MaxFaults = 1
  VerifyOutcome = {"fail"}
SYMMETRY Symmetry
VIEW ButBilled
INVARIANTS
  AllocationReleasedAfterVm
  NothingLeftBehind
