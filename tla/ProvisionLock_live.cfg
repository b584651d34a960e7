\* Three launchers, parents or detached children, and the canonical lock alone, with fairness.
SPECIFICATION FairSpec
CONSTANTS
    Proc = {p1, p2, p3}
    Desktop = {}
    Compat = {}
    Canonical = canonical
    None = none
    MaxCrash = 1
    MaxAge = 0
INVARIANTS
    OneUnrobbedProvisioner
PROPERTIES
    RobbedNeverMutatesAgain
    DeadOwnerIsSwept
CHECK_DEADLOCK FALSE
