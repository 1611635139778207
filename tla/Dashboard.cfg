SPECIFICATION Spec
CONSTANTS
    Recorder = {r1, r2}
    Page = {p1}
    MaxEntries = 2
    ChanCap = 1
    WireCap = 1
    MaxRecords = 3
INVARIANT QuietPageIsExact
PROPERTY RecordersNeverBlock
CHECK_DEADLOCK FALSE
