SPECIFICATION Spec
CONSTANTS
    Files = {f1, f2}
    Size = 3
    InBuf = 3
    OutBuf = 1
    ReadCounts = {1}
    WriteCounts = {0, 2}
    SeekOffsets <- SeekBack
    IoctlOffsets = {3}
    Faults = TRUE
    Serial = TRUE
SYMMETRY FileSymmetry
INVARIANTS TransferAtPosition SuccessReported
PROPERTIES  LeftOverInOrder
CHECK_DEADLOCK FALSE
