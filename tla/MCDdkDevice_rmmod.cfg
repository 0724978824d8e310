SPECIFICATION DeviceSpec
CONSTANTS
    Writers = {w1, w2}
    Lens = {0}
    LongVals <- OneLong
    DefBlinks = 1
    IntHalf = 2
    ULongMod = 1
    Drained = FALSE
    Unplug = FALSE
    Faults = TRUE
INVARIANTS FilesClosedFirst CleanupQuiescent
PROPERTY ImplementsDrainedExt
CHECK_DEADLOCK FALSE
