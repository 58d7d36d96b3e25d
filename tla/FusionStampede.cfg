SPECIFICATION Spec
CONSTANTS
    k1 = k1  k2 = k2  k3 = k3  k4 = k4
    Tasks = {r1, r2}
    Keys = {k4}
    Streaming = {k4}
    Settings <- Mixed
    Close <- Paraphrases
    EnableExact = TRUE
    EnableSemantic = TRUE
    Faults = {}
    Saving <- OneEach
    MaxFlushes = 0
    Enabled = TRUE
    Threshold = 2
    Cooldown = 1
    NoTask = NoTask
    NoResponse = NoResponse
PROPERTIES
    NoCallForCachedKey
CHECK_DEADLOCK FALSE
