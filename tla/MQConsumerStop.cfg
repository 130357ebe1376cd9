SPECIFICATION FairSpec
CONSTANTS
    None = None
    Consumers = {c1}
    Msgs = {m1, m2}
    Malformed = {}
    RetryCount = 1
    HasFailureHandler = TRUE
    MaxFaults = 0
    MaxStops = 1
PROPERTY StopReturns
CHECK_DEADLOCK FALSE
