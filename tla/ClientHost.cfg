SPECIFICATION HostSpec
CONSTANTS
    Plan <- MCPlan
    Release = {"v12", "v110", "v1x"}
    Parts <- MCParts
    First = "v12"
    Conn = {c1, c2}
    NoConn = NoConn
    MaxQueue = 1
INVARIANTS RunningMeansRouted GoodBinaryRemains
PROPERTY Recovers
CHECK_DEADLOCK FALSE
