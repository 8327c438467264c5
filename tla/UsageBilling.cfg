SPECIFICATION Spec
CONSTANTS
  Workspace = {w1}
  MaxSessions = 2
  Opener = {o1, o2}
  Closer = {c1, c2}
  Meter = {m1}
  MaxAttempts = 2
  MaxTime = 2
  MaxAborts = 1
SYMMETRY Symmetry
INVARIANTS
  OneRunningSession
  EndedIffEnqueued
CHECK_DEADLOCK FALSE
