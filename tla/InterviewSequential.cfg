SPECIFICATION Spec
CONSTANTS
    Requests = {p1}
    Workers = {w1}
    Pregenerated = TRUE
    Realtime = FALSE
    HasResume = FALSE
    QuestionCount = 3
    ClientIndex = {0, 1}
    Scores = {1, 2}
    RetryCount = 1
    PublishOutcomes <- OkOnly
    FaultKinds = {"ai", "db", "crash"}
    MaxFaults = 3
    MaxFinishes = 2
    MaxIndex = 2
    MessageLimit = 3
    MaxCodes = 2
    None = None
INVARIANTS FinishedHasReport IndexCountsAnswers NoDuplicateQuestion
PROPERTIES ImplementsPromise
CHECK_DEADLOCK FALSE
