\* A run whose workspace is verified before the warm-pool job has found its address.
SPECIFICATION FairSpec
CONSTANTS
    r1 = r1
    w1 = w1
    p1 = p1
    Runs = {r1}
    Spaces = {w1}
    Warm = {w1}
    Passes = {p1}
    MaxConcurrent = 1
    MaxFaults = 0
PROPERTIES
    InitializationEnds
CHECK_DEADLOCK FALSE
