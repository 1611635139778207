SPECIFICATION FairSpec
CONSTANTS
    NumUp = 3
    NumDown = 3
    RelayBuf = 1
INVARIANTS TypeOK BodiesHaveNoGap DownloadComplete
PROPERTIES RequestEnded
CHECK_DEADLOCK FALSE
