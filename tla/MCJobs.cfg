CONSTANTS
    Requests = {q1}
    Periodic = {retention}
    PoolSize = 2
    MaxRows = 2
    MaxRetries = 1
    MaxOutages = 1
    Replicas = {r1, r2}
    MaxMishaps = 1
SPECIFICATION ProcessSpec
CHECK_DEADLOCK FALSE
INVARIANTS WorkFinished PoolNotWedged EmptyIsExplained
PROPERTIES CatalogueKept ShutdownEnds ReadinessFollows
