SPECIFICATION MeteredSpec
CONSTANTS
    Null = Null
    Bodies <- FourRequests
    Digest <- MCDigest
    Replies <- MCReplies
    MaxEmbedErrors = 1
    MissPrice = 3
    HitPrice = 1
    OutPrice = 2
    Tasks = {r1, r2, r3}
    Keys <- MCKeys
    Streaming <- MCStreaming
    Settings <- MCSettings
    Close <- MCClose
    EnableExact = TRUE
    EnableSemantic = TRUE
    Faults = {"upstream", "stream", "embed", "cancel"}
    Saving <- MCSaving
    MaxFlushes = 1
    Enabled = TRUE
    Threshold = 2
    Cooldown = 1
    NoTask = NoTask
    NoResponse = NoResponse
INVARIANTS
    TypeOK
    OneCallPerKey
    AnswersFit
    HitsCounted
    StaleOnlyIfRaced
    RegistryAgrees
    SavingsAreRebates
    AnswersMatchBodies
PROPERTIES
    InvalidateReaches
    IsAnswerService
SYMMETRY SameRequests
CHECK_DEADLOCK FALSE
