SPECIFICATION FairSpec
CONSTANTS
    Questions = 2
    MaxAnswers = 2
    FaultKinds = {"lost", "late", "barge", "rpc", "publish", "expire", "engine"}
    MaxFaults = 2
INVARIANTS TypeOK NotCutShort 
PROPERTIES  ReadyAgain SessionIsReported
CHECK_DEADLOCK FALSE
