SPECIFICATION Spec
CONSTANTS
    k1 = k1
    h1 = h1
    h2 = h2
    r1 = r1
    r2 = r2
    NoToken = NoToken
    NoHost = NoHost
    NoOne = NoOne
    Token = {k1}
    Host = {h1, h2}
    Redeemer = {r1, r2}
    Operator = {}
    MaxUses <- TwoEach
    PoolSize = 2
    Ttl = 2
    Retention = 1
    MaxTime = 0
    BrokerMayFail = FALSE
CHECK_DEADLOCK FALSE
INVARIANT AddressUnique
