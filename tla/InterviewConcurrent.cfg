SPECIFICATION FairSpec
CONSTANTS
    Requests = {p1, p2}
    Workers = {w1, w2}
    Pregenerated = TRUE
    Realtime = TRUE
    HasResume = FALSE
    QuestionCount = 0
    ClientIndex = {0}
    Scores = {1, 2}
    RetryCount = 1
    PublishOutcomes <- OkOrRefused
    FaultKinds = {"ai"}
    MaxFaults = 1
    MaxFinishes = 2
    MaxIndex = 0
    MessageLimit = 1
    MaxCodes = 0
    None = None
INVARIANTS CompletedScore
PROPERTIES GeneratingEnds
CHECK_DEADLOCK FALSE
