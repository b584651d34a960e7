\* Runs of the wizard for one edition after the other.
SPECIFICATION Spec
CONSTANTS
    Home = Home
    Near = {n1, n2}
    Far = Far
    Cloud = Cloud
    Nowhere = Nowhere
    Absent = Absent
    Broken = Broken
    CutAt = {}
    MaxRefused = 0
    MaxRuns = 2
    MaxEdits = 0
INVARIANTS
    SwitchIsComplete
CHECK_DEADLOCK FALSE
