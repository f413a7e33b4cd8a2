SPECIFICATION Spec
CONSTANTS
    spoke = spoke
    a1 = a1
    t1 = t1
    t2 = t2
    NoTask = NoTask
    NoClient = NoClient
    Client = {spoke}
    Manual = {}
    Caller = {a1}
    Task = {t1, t2}
    RepeatableRead = FALSE
    MaxRetries = 0
    MaxGen = 2
    Limit <- FaultyHub
CHECK_DEADLOCK FALSE
SYMMETRY Symmetry
INVARIANTS TypeOK AppliedIsOnHub NoSilentLoss NoMessageIsStuck
PROPERTY KeepsLedger
