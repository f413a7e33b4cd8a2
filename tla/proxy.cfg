SPECIFICATION ConnSpec
CONSTANTS
    c1 = c1
    Conn = {c1}
    Caller = {"a", "b"}
    Balancer = "lb"
    Sends <- AllHeaders
    V1Max = 6
    V2MaxBody = 2
CHECK_DEADLOCK FALSE
INVARIANTS ConnTypeOK HeaderReadOnce
