\* The hooks follow a behaviour to its first excuse; both halves may stop.
SPECIFICATION Spec
CONSTANTS
    Users = {"me", "other"}
    Owner = "me"
    MaxMessages = 4
    MaxSessions = 5
    Threshold = 3
    ReadLimit = 2
    MaxFailures = 1
    FollowExcused = FALSE
    Calls = {h1, h2}
    Nobody = Nobody
    MaxChildren = 4
    MaxKeys = 2
    MaxTimers = 2
    MaxEvents = 2
INVARIANTS
    TypesOK
    KeptUnlessExcused
    NothingRunsTwice
    RunsWithCurrentKey
PROPERTIES
    NobodyWaits
CHECK_DEADLOCK FALSE
