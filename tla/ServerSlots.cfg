CONSTANTS
    PortStart = 7
    PortEnd = 7
    h1 = h1
    h2 = h2
    s1 = s1
    NoTunnel = NoTunnel
    Handler = {h1, h2}
    Sub = {s1}
    Features = {"http", "tcp"}
    MaxTunnels = 1
    MaxConns = 1
    HostTooLong = TRUE
    MaxIds = 1
    MaxLate = 1
SPECIFICATION FairSpec
INVARIANT UsedPortsHaveHolders
PROPERTIES IdleConnectionsDropped CleanupFreesSlot
CHECK_DEADLOCK FALSE
