\* A migrator is killed between its two renames.
SPECIFICATION Spec
CONSTANTS
    Host = {"claude", "codex"}
    Actor <- OneServer
    Text = {"base", "newer", "oauth", "cli"}
    TextOf <- OneServerTexts
    Version = {1, 2}
    Accepts <- AcceptsOf
    Extras <- ExtrasOf
    SlowStart = {TRUE}
    Orphans = FALSE
    NoOne = NoOne
    Dead = Dead
    MaxEvents = 1
INVARIANTS
    HookPathPresent
CHECK_DEADLOCK FALSE
