SPECIFICATION SearchSpec
CONSTANTS
    Queries = {q1, q2}
    LastPage = 1
    Requests = {r1, r2}
    NoRequest = NoRequest
    NoQuery = NoQuery
    CACHE_TTL = 1
    CACHE_MAX_ENTRIES = 2
    MaxTime = 1
SYMMETRY Symmetry
INVARIANTS
    ShowsThePageAskedFor
PROPERTIES
    QuotaIsSpentOncePerDay
    EvictionTakesTheOldest
CHECK_DEADLOCK FALSE
