SPECIFICATION Spec
CONSTANTS
    Keys = {k1, k2, k3}
    Values = {v1, v2}
    NoValue = NoValue
    Never = Never
    MaxEntries = 2
    TTLs = {0, 1}
    Scanned = TRUE
    MaxClock = 6
INVARIANTS
    Bounded
