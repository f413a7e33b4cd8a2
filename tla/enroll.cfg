SPECIFICATION FairSpec
CONSTANTS
    k1 = k1
    h1 = h1
    h2 = h2
    r1 = r1
    r2 = r2
    o1 = o1
    o2 = o2
    NoToken = NoToken
    NoHost = NoHost
    NoOne = NoOne
    Token = {k1}
    Host = {h1, h2}
    Redeemer = {r1, r2}
    Operator = {o1, o2}
    MaxUses <- TwoEach
    PoolSize = 1
    Ttl = 1
    Retention = 0
    MaxTime = 2
    BrokerMayFail = TRUE
CHECK_DEADLOCK FALSE
INVARIANTS TypeOK TokenNotOverused NoRedemptionIsStuck
PROPERTIES NoAdmissionAfterRevoke OnlyOverlapCollides LockIsReleased
