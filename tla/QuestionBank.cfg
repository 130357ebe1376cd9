SPECIFICATION FairSpec
CONSTANTS
    Titles = 2
    Calls = {"a"}
    Attempts = 2
    Kinds = {"import", "pipeline"}
    FaultKinds = {"publish", "db", "rpc", "rag", "crash"}
    MaxRows = 3
    MaxChanges = 1
    MaxRetries = 1
    MaxFaults = 2
CHECK_DEADLOCK FALSE
INVARIANTS TypeOK IndexFollows NoDuplicateTitle CompletedIsImported
PROPERTIES TaskEnds IndexCatchesUp
