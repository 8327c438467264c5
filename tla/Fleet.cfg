SPECIFICATION FleetSpec
CONSTANTS
    Workers = {w1, w2}
    Connections = {c1, c2}
    Tokens = {1, 2, 3, 4, 5, 6, 7, 8}
    MaxRetries = 2
    MaxAttempts = 2
    MaxFaults = 2
    Jobs = 2
    MaxTicks = 2
    MaxHangs = 1
    Passes = {p1, p2}
    MaxThrows = 1
    VolumeIds = {v1, v2}
    Rooms = {x1}
    Requests = {r1, r2}
    Batch = 2
    MaxDiskFaults = 1
    Workspaces = {s1, s2}
    Calls = {k1, k2}
    Ports = {1, 2}
    Columns = {ssh}
    Services = {i1}
    ShareRequests = {q1, q2}
    Modes = {public, private}
INVARIANTS
    FleetTypeOK
    InUseIsAttached
    LeaseSurvives
PROPERTIES
    EventuallyLed
    DueJobStarts
    IncidentsClear
    VolumeSettles
    TerminalLeaseReleased
CHECK_DEADLOCK FALSE
