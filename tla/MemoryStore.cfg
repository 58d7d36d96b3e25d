SPECIFICATION SearchSpec
CONSTANTS
    Keys = {k1, k2, k3}
    Values = {v1, v2, v3}
    v1 = v1
    v2 = v2
    v3 = v3
    NoValue = NoValue
    Never = Never
    MaxEntries = 2
    TTLs = {0, 1}
    Scanned = TRUE
    MaxClock = 6
    Queries = {q1, q2}
    q1 = q1
    q2 = q2
    Score <- MCScore
    Guard <- MCGuard
    Similar = 2
INVARIANTS
    TypeOK
    StampsOrder
PROPERTIES
    LastUsedSurvives
    IsEvictingMap
    SearchFindsBest
SYMMETRY SameKeys
