\* One run, a workspace that is warm or yet to be created, one pass at a time beside the agent and the cancel route, one fault.
SPECIFICATION FairSpec
CONSTANTS
    r1 = r1
    w1 = w1
    p1 = p1
    Runs = {r1}
    Spaces = {w1}
    Warm = {w1}
    Passes = {p1}
    MaxConcurrent = 1
    MaxFaults = 1
INVARIANTS
    ReportedWasCharged
PROPERTIES
    RunSettles
    FinishedIsCharged
CHECK_DEADLOCK FALSE
