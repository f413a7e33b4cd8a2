SPECIFICATION EdgeSpec
CONSTANTS
    cl1 = cl1
    cl2 = cl2
    c1 = c1
    c2 = c2
    Conn = {c1, c2}
    Slot = {c1, c2}
    Caller = {cl1, cl2}
    Balancer = "lb"
    Key = {cl1, cl2, "lb"}
    Sends <- NamedHeaders
    V1Max = 6
    V2MaxBody = 2
    RequestLimit = 2
    FailureLimit = 1
    RequestWindow = 2
    FailureWindow = 2
    MaxTime = 2
    MaxRequests = 5
SYMMETRY Symmetry
CHECK_DEADLOCK FALSE
INVARIANTS TwiceTheLimit LockoutIsSharp OneLinePerTrip BlamedForOwn
PROPERTY WindowIsFixed
