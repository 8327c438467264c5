SPECIFICATION FairSpec
CONSTANTS
  Workspace = {w1}
  Cleaner = {c1}
  Waiter = {t1}
  Launch = {}
  MaxAttempts = 2
  MaxFaults = 0
  VerifyOutcome = {"fail"}
PROPERTIES
  FailedIsCleaned
