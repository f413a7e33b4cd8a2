SPECIFICATION Spec
CONSTANTS
    a = a
    b = b
    c = c
    t1 = t1
    t2 = t2
    NoTask = NoTask
    Name = {a, b, c}
    Task = {t1, t2}
    Ttl = 4
    RenewBefore = 2
    Interval = 1
    MaxAge = 1
    MaxTime = 4
    Limit <- CalmRenames
CHECK_DEADLOCK FALSE
SYMMETRY Symmetry
INVARIANT RenamedIsReachable
