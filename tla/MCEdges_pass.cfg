\* One ingest worker and a draining agent, three commits, a queue of two, one kill;
\* transcripts of four records; two ends of a session; two mined sessions, two stagings
\* and one stop of the runner; one client more than the gateway's book holds; two
\* activations of the trigger; two items; two ComfyUI processes, two saves
\* and one fault.  Each part may stop.
SPECIFICATION EdgeSpec
CONSTANTS
    Worker = {w1}
    Agent = {a1}
    MaxCommit = 3
    Cap = 2
    Newest = 2
    MaxKill = 1
    Failures = TRUE
    Modes = {"mine", "head"}
    MaxRecords = 4
    MaxWindows = 1
    TailLength = 2
    Branching = FALSE
    Enough = 4
    MaxEnds = 2
    Unlocked = Unlocked
    Sessions = {1, 2}
    Typed = {t1, t2}
    Digest = digest
    Secret = {t2}
    Scopes = {s1, s2}
    NoScope = NoScope
    MaxStages = 2
    MaxStops = 1
    Clients = {c1, c2, c3}
    NoClient = NoClient
    ClientCap = 2
    RefreshCap = 1
    FailLimit = 1
    MaxPins = 2
    MaxGrants = 3
    MaxCrashes = 1
    MaxEvents = 3
    MaxBreaks = 2
    MaxStarts = 2
    MaxAttempts = 3
    MaxWrites = 2
    Comfy = {p1, p2}
    Workflows <- Flows
    Linked = Linked
    MaxBatch = 1
    MaxSaves = 2
    MaxFaults = 1
INVARIANTS
    TypesOK
    QueueIsSound
    OffRecordStaysOut
    LedgerIsTrue
    ConsentIsExact
    GrantUsedOnce
    StreamIsExact
    WriteIsOnce
    AssetsAreTrue
CHECK_DEADLOCK FALSE
