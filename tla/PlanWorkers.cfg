SPECIFICATION FairSpec
CONSTANTS
    Requests = {p1}
    Workers = {w1, w2}
    GenSizes = {1, 2}
    MaxTasks = 3
    MaxPreviews = 0
    RetryCount = 1
    Patient = FALSE
    FaultKinds = {"ai", "crash"}
    MaxFaults = 3
    None = None
INVARIANTS GeneratedOnce
PROPERTIES GeneratingEnds
CHECK_DEADLOCK FALSE
