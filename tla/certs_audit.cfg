SPECIFICATION Spec
CONSTANTS
    p = p
    NoPath = NoPath
    a1 = a1
    a2 = a2
    Timer = Timer
    Path = {p}
    Api = {a1, a2}
    Cli = {}
    Ttl = 4
    Interval = 1
    MaxTime = 1
    MaxLeaf = 2
    Limit <- Mishaps
CHECK_DEADLOCK FALSE
INVARIANT OneAuditRowPerRevoke
