SPECIFICATION Spec
CONSTANTS
    k1 = k1  k2 = k2  k3 = k3  k4 = k4
    Tasks = {r1, r2}
    Keys = {k1, k2}
    Streaming = {}
    Settings <- Mixed
    Close <- Paraphrases
    EnableExact = TRUE
    EnableSemantic = FALSE
    Faults = {}
    Saving <- OneEach
    MaxFlushes = 1
    Enabled = TRUE
    Threshold = 2
    Cooldown = 1
    NoTask = NoTask
    NoResponse = NoResponse
INVARIANTS
    FlushDropsStale
CHECK_DEADLOCK FALSE
