\* Three requests of two callers, an LRU of one, two clients built; two requests on their
\* way, one cold cache at a time, one fact that ceases to hold. The server may stop.
SPECIFICATION CloudSpec
CONSTANTS
    Request = {r1, r2, r3}
    Lifespan = lifespan
    Principal <- Callers
    TokenId <- SameId
    Token <- OwnToken
    MaxClient = 2
    Cap = 1
    None = none
    Requests = {q1, q2}
    Nobody = Nobody
    Never = Never
    KeyTtl = 2
    KeyCooldown = 1
    VoucherTtl = 2
    RouteTtl = 2
    RequestTimeout = 1
    MaxNow = 3
    MaxArrivals = 3
    MaxGone = 1
INVARIANTS
    TypesOK
    NothingLeaks
    LeasesAreCounted
    OwnCredential
PROPERTIES
    LeasesAreKept
    TrustIsRecent
    NobodyWaitsForever
CHECK_DEADLOCK FALSE
