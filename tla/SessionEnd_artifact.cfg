\* Two prompts, of which one is off the record, and what the harness writes between.
SPECIFICATION EndSpec
CONSTANTS
    MaxRecords = 4
    MaxWindows = 1
    TailLength = 2
    Branching = FALSE
    Enough = 4
    MaxEnds = 1
    NoLock = NoLock
INVARIANTS
    ArtifactIsClean
CHECK_DEADLOCK FALSE
