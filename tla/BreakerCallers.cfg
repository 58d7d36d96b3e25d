SPECIFICATION FairSpec
CONSTANTS
    Callers = {c1, c2, c3}
    Enabled = TRUE
    Threshold = 2
    Cooldown = 2
    Timeout = 5
    MaxFailures = 4
INVARIANTS
    TypeOK
    BreakerSound
    ProbesApart
PROPERTIES
    FailureReopens
    KeepsAdmitting
