SPECIFICATION Spec
CONSTANTS
    Requests = {p1, p2}
    Workers = {w1}
    GenSizes = {1}
    MaxTasks = 3
    MaxPreviews = 1
    RetryCount = 1
    Patient = FALSE
    FaultKinds = {"crash", "conn"}
    MaxFaults = 1
    None = None
SYMMETRY Symmetry
INVARIANTS PreviewAppliedOnce
PROPERTIES OnlyPendingDeleted
CHECK_DEADLOCK FALSE
