SPECIFICATION Spec
CONSTANTS
    boot = boot
    alice = alice
    dflt = dflt
    acme = acme
    NoTenant = NoTenant
    s1 = s1
    s2 = s2
    r1 = r1
    r2 = r2
    sh = sh
    Operator = {boot, alice}
    Bootstrap = boot
    Tenant = {dflt, acme}
    Default = dflt
    Server = {s1, s2}
    Cidr <- Blocks
    DefaultPool <- TenOverEight
    Request = {r1, r2}
    Shell = {sh}
    Limit <- AllOnce
CHECK_DEADLOCK FALSE
SYMMETRY Symmetry
INVARIANTS BootstrapIsKnown PoolsDisjoint AddressesDisjoint
PROPERTY ScopedWrites
