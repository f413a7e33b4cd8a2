SPECIFICATION FairSpec
CONSTANTS
    phone = phone
    a1 = a1
    a2 = a2
    t1 = t1
    t2 = t2
    NoTask = NoTask
    NoClient = NoClient
    Client = {phone}
    Manual = {phone}
    Caller = {a1, a2}
    Task = {t1, t2}
    RepeatableRead = TRUE
    MaxRetries = 1
    MaxGen = 2
    Limit <- UnreliableLock
CHECK_DEADLOCK FALSE
PROPERTIES AppliedMovesForward EveryRequestSettles TrafficClears
