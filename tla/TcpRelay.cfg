SPECIFICATION FairSpec
CONSTANTS
    Peeked = 1
    NumUp = 2
    NumDown = 3
    RelayBuf = 1
INVARIANTS TypeOK BothArePrefixes CloseLosesNothing
PROPERTIES RelayTornDown PublicSideEnds
CHECK_DEADLOCK FALSE
