SPECIFICATION Spec
CONSTANTS
    p = p
    NoPath = NoPath
    a1 = a1
    a2 = a2
    cli = cli
    Timer = Timer
    Path = {p}
    Api = {a1, a2}
    Cli = {cli}
    Ttl = 4
    Interval = 1
    MaxTime = 4
    MaxLeaf = 5
    Limit <- Mishaps
CHECK_DEADLOCK FALSE
INVARIANTS TypeOK RegistryFollowsCA RevokedStaysRefused DiskNeverLapses BrokenFilesAreDue NoRenewalChurn
PROPERTY AuditTrailIsFinal
SYMMETRY ApiSymmetry
