SPECIFICATION FairSpec
CONSTANTS
    None = None
    Consumers = {c1, c2}
    Msgs = {m1, m2, bad}
    Malformed = {bad}
    RetryCount = 1
    HasFailureHandler = TRUE
    MaxFaults = 1
    MaxStops = 1
INVARIANTS TypeOK HeldOnce
PROPERTIES DroppedOnlyWhenExhausted ImplementsQueue EventuallySettled
CHECK_DEADLOCK FALSE
