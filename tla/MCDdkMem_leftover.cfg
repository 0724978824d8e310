SPECIFICATION Spec
CONSTANTS
    Files = {f1}
    Size = 4
    InBuf = 2
    OutBuf = 2
    ReadCounts = {1, 2}
    WriteCounts = {0, 1, 3}
    SeekOffsets <- NoSeeks
    IoctlOffsets = {}
    Faults = FALSE
    Serial = TRUE
INVARIANT LeftOverAtPosition
CHECK_DEADLOCK FALSE
