SPECIFICATION Spec
CONSTANTS
    NumUp = 2
    NumDown = 1
    RelayBuf = 1
INVARIANTS UploadNotDropped
CHECK_DEADLOCK FALSE
