SPECIFICATION Spec
CONSTANTS
    Base = 8
    MaxHeaders = 2
    MaxValuesPerHeader = 2
    MaxBodySize = 3
    MaxFrameSize = 7
    MaxSubdomainLen = 2
    MaxVersionLen = 7
    Handshake = 22
    HelloType = 1
    FixedLen = 3
    MaxPeek = 40
    MaxChunk = 9
    Message <- MCMessage
    Hello <- MCHello
    Visitor <- MCVisitor
INVARIANTS CodecExact PublicVisitorsIdentified
CHECK_DEADLOCK FALSE
