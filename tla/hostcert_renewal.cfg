SPECIFICATION Spec
CONSTANTS
    a = a
    t1 = t1
    t2 = t2
    NoTask = NoTask
    Name = {a}
    Task = {t1, t2}
    Ttl = 6
    RenewBefore = 5
    Interval = 1
    MaxAge = 1
    MaxTime = 7
    Limit <- MishapsAndBootstrap
CHECK_DEADLOCK FALSE
SYMMETRY Symmetry
INVARIANTS TypeOK RecordNotAhead NeverLapses
