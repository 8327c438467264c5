SPECIFICATION VolumeSpec
CONSTANTS
    VolumeIds = {v1, v2}
    Rooms = {x1}
    Requests = {r1}
    Batch = 1
    MaxDiskFaults = 1
PROPERTIES VolumeSettles
CHECK_DEADLOCK FALSE
