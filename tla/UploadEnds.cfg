\* A run whose agent is lost while it uploads.
SPECIFICATION FairSpec
CONSTANTS
    r1 = r1
    w1 = w1
    p1 = p1
    Runs = {r1}
    Spaces = {w1}
    Warm = {w1}
    Passes = {p1}
    MaxConcurrent = 1
    MaxFaults = 0
PROPERTIES
    UploadEnds
CHECK_DEADLOCK FALSE
