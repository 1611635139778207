SPECIFICATION Spec
CONSTANTS
    c1 = c1
    c2 = c2
    Caller = {c1, c2}
    LocalPort = {81, 82}
    Plan <- PlanHTTP
    MaxCalls = 2
    MaxReqs = 0
    NoCaller = NoCaller

INVARIANTS RequestsReachTheirPort
CHECK_DEADLOCK FALSE
