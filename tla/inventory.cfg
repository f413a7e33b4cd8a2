SPECIFICATION BackupSpec
CONSTANTS
    r1 = r1
    r2 = r2
    h1 = h1
    s1 = s1
    k1 = k1
    k2 = k2
    w1 = w1
    w2 = w2
    Role = {r1, r2}
    Hub = {h1}
    Spoke = {s1}
    PublicKey = {k1, k2}
    KeyOf <- SpokeKey
    Worker = {w1, w2}
    RepeatableRead = TRUE
    Limit <- EachLimit
    OldFile <- Version1
SYMMETRY Symmetry
CHECK_DEADLOCK FALSE
INVARIANTS PassesConverge DumpCanBeRestored
PROPERTIES PruneOnlyTheGone AllOrNothing
