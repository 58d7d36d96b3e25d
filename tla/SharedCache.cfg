SPECIFICATION Spec
CONSTANTS
    r1 = r1  r2 = r2  r3 = r3
    east = east  west = west
    k1 = k1  k2 = k2
    Tasks = {r1, r2, r3}
    Instances = {east, west}
    At <- Placed
    Keys = {k1, k2}
    Streaming = {k2}
    Pages <- TwoPages
    Faults = {"upstream", "stream", "redis", "cancel"}
    MaxFlushes = 1
    MaxCrashes = 1
    NoTask = NoTask
    NoResponse = NoResponse
    NoInstance = NoInstance
INVARIANTS
    TypeOK
    OneCallPerKey
    WaitersShareFate
    StaleOnlyIfRaced
PROPERTIES
    IsAnswerService
SYMMETRY SameRequests
CHECK_DEADLOCK FALSE
