\* A Claude server whose probes are slow, its child, two wizards, a Desktop; two events.
SPECIFICATION FairSpec
CONSTANTS
    Host = {"claude", "codex"}
    Actor <- OneServer
    Text = {"base", "newer", "oauth", "cli"}
    TextOf <- OneServerTexts
    Version = {1, 2}
    Accepts <- AcceptsOf
    Extras <- ExtrasOf
    SlowStart = {TRUE}
    Orphans = FALSE
    NoOne = NoOne
    Dead = Dead
    MaxEvents = 2
INVARIANTS
    TypeOK
    RecordsAreTrue
PROPERTIES
    ServesWithoutThrash
CHECK_DEADLOCK FALSE
