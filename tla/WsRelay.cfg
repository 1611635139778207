SPECIFICATION FairSpec
CONSTANTS
    NumUp = 2
    NumDown = 3
    RelayBuf = 1
INVARIANTS TypeOK CloseLosesNothing BothArePrefixes
PROPERTIES ServeEnds
CHECK_DEADLOCK FALSE
