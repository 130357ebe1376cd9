SPECIFICATION FairSpec
CONSTANTS
    Interviews = {i1}
    Feedbacks = {f1, f2}
    t1 = t1
    t2 = t2
    Topics = {t1, t2}
    Payloads <- Reports
    Messages = {m1, m2}
    Workers = {w1, w2}
    RetryCount = 1
    FaultKinds = {"db", "publish", "crash", "conn"}
    MaxFaults = 2
    None = None
INVARIANTS TypeOK AllOrNothing AnnouncementsSound DiagnosedIsArchived
PROPERTIES EventuallyArchived
CHECK_DEADLOCK FALSE
