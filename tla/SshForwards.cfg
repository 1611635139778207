CONSTANTS
    PortStart = 7
    PortEnd = 8
    c1 = c1
    c2 = c2
    NoConn = NoConn
    Conn = {c1, c2}
    Requested = {0, 7, 8, 65543}
    MaxReqs = 3
SPECIFICATION SshFairSpec
INVARIANTS SshTypeOK ForwardsMatchListeners GoneHasNothing
PROPERTIES SshImplementsLeases HangupFreesPorts
CHECK_DEADLOCK FALSE
