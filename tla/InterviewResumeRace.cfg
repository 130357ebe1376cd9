SPECIFICATION Spec
CONSTANTS
    Requests = {p1, p2}
    Workers = {w1}
    Pregenerated = FALSE
    Realtime = FALSE
    HasResume = TRUE
    QuestionCount = 1
    ClientIndex = {0}
    Scores = {1}
    RetryCount = 1
    PublishOutcomes <- AnyOutcome
    FaultKinds = {"ai", "db", "crash"}
    MaxFaults = 2
    MaxFinishes = 1
    MaxIndex = 0
    MessageLimit = 1
    MaxCodes = 0
    None = None
SYMMETRY Symmetry
INVARIANTS TypeOK CompletedHasReport
CHECK_DEADLOCK FALSE
