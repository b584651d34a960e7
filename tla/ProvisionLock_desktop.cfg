\* Two launchers, an older Desktop and two legacy locks.
SPECIFICATION Spec
CONSTANTS
    Proc = {p1, p2}
    Desktop = {d1}
    Compat = {k1, k2}
    Canonical = canonical
    None = none
    MaxCrash = 1
    MaxAge = 1
SYMMETRY Symmetry
INVARIANTS
    TypeOK
    LocksKeepDesktopApart
    LocksAreHonoured
    HandoffIsComplete
CHECK_DEADLOCK FALSE
