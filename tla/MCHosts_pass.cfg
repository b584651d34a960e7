\* One onboarding of Codex at a time; three runs of the wizard of Claude, one change
\* around them, cuts before every step and one write that is refused;
\* three prompts with one worker; four turns; two files; two lines of calls; a
\* launch that is told three things. Each part may stop.
SPECIFICATION HostSpec
CONSTANTS
    Onboards = {o1}
    Default = Default
    Other = {e1, e2}
    Cloud = Cloud
    Missing = Missing
    Broken = Broken
    Unasked = Unasked
    AnyCe = AnyCe
    MaxRuns = 3
    MaxChanges = 3
    Home = Home
    Near = {n1, n2}
    Far = Far
    Nowhere = Nowhere
    Absent = Absent
    CutAt = {"auth", "local", "global", "os", "desktop", "dotenv", "clearOs", "clearDesktop",
             "clearLocal", "clearGlobal"}
    MaxRefused = 1
    MaxEdits = 1
    Prompts = {a, b, x}
    Private = {x}
    NoWrite = {b}
    NoPrompt = NoPrompt
    Fetchers = {f1}
    Texts = {t1}
    Budget = 2
    Floor = 1
    Cooldown = 2
    MaxTurns = 3
    MaxCuts = 1
    Every = 2
    Keep = 2
    MaxIds = 4
    MaxLost = 1
    Files = {p1, p2}
    Room = 1
    MaxVersion = 1
    MaxTurn = 2
    MaxCut = 1
    Threads = {h1, h2}
    NoThread = NoThread
    Bad = Bad
    Historical = Historical
    Tasks = {k1, k2}
    MaxLines = 2
    MaxCaptures = 1
    MaxHeard = 3
SYMMETRY Symmetry
INVARIANTS
    TypesOK
    ExplicitIsServed
    SelectionIsServed
    InsightsAreRight
    PrivateStaysOut
    TurnsAreCounted
    EditsAreInformed
    CallsAreOwn
    LaunchIsSafe
CHECK_DEADLOCK FALSE
