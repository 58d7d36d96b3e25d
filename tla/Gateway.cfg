SPECIFICATION GatewayFairSpec
CONSTANTS
    k1 = k1  k2 = k2
    r1 = r1  r2 = r2  r3 = r3
    alice = alice  bob = bob
    Tasks = {r1, r2, r3}
    Keys = {k1, k2}
    Streaming = {k2}
    Settings <- Uniform
    Close <- Paraphrases
    EnableExact = TRUE
    EnableSemantic = TRUE
    Faults = {"upstream", "embed"}
    Saving <- OneEach
    MaxFlushes = 0
    Enabled = TRUE
    Threshold = 2
    Cooldown = 1
    NoTask = NoTask
    NoResponse = NoResponse
    Clients = {alice, bob}
    Limit = 1
    Window = 2
    Client <- Posting
    Retries = 1
INVARIANTS
    GatewayTypeOK
    QuotaExact
    OneFailurePerRequest
    WaitersHaveOwners
    OpensAfterFailures
PROPERTIES
    IsFusionCache
    EveryRequestEnds
CHECK_DEADLOCK FALSE
