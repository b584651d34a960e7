\* A provisioner is killed while its pip runs; POSIX.
SPECIFICATION Spec
CONSTANTS
    Host = {"claude", "codex"}
    Actor <- OneServer
    Text = {"base", "newer", "oauth", "cli"}
    TextOf <- OneServerTexts
    Version = {1, 2}
    Accepts <- AcceptsOf
    Extras <- ExtrasOf
    SlowStart = {TRUE}
    Orphans = TRUE
    NoOne = NoOne
    Dead = Dead
    MaxEvents = 1
INVARIANTS
    PipNeverTwice
CHECK_DEADLOCK FALSE
