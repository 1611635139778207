CONSTANTS
    PortStart = 7
    PortEnd = 7
    h1 = h1
    h2 = h2
    s1 = s1
    NoTunnel = NoTunnel
    Handler = {h1, h2}
    Sub = {s1}
    Features = {"http", "tcp", "tls"}
    MaxTunnels = 2
    MaxConns = 2
    HostTooLong = FALSE
    MaxIds = 3
    MaxLate = 1
SPECIFICATION Spec
SYMMETRY Symmetry
INVARIANTS TypeOK RegistryBacked CountExact RoutesKept CleanupReleasesAll PortsExclusive
PROPERTY ImplementsLeases
CHECK_DEADLOCK FALSE
