SPECIFICATION Spec
CONSTANTS
    Requests = {p1}
    Workers = {w1}
    GenSizes = {0, 2}
    MaxTasks = 4
    MaxPreviews = 2
    RetryCount = 0
    Patient = TRUE
    FaultKinds = {"ai", "db"}
    MaxFaults = 2
    None = None
INVARIANTS TypeOK CountersMatch CompletedIsDone
CHECK_DEADLOCK FALSE
