SPECIFICATION FairSpec
CONSTANTS
  Workspace = {w1}
  MaxSessions = 1
  Opener = {o1}
  Closer = {c1, c2}
  Meter = {m1, m2}
  MaxAttempts = 2
  MaxTime = 1
  MaxAborts = 1
INVARIANTS
  ChargedOnceForStoredTotal
PROPERTIES
  ImplementsLedger
  EventuallySettled
CHECK_DEADLOCK FALSE
