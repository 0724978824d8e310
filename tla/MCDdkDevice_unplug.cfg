SPECIFICATION DeviceFairSpec
CONSTANTS
    Writers = {w1, w2}
    Lens = {0}
    LongVals <- OneLong
    DefBlinks = 1
    IntHalf = 2
    ULongMod = 1
    Drained = FALSE
    Unplug = TRUE
    Faults = TRUE
INVARIANTS DeviceTypeOK OpenerSafe NoUseBeforeInit
PROPERTIES DisconnectEnds PendingCleared DisabledTimerStops KeepsBlinking CleanupTerminates
CHECK_DEADLOCK FALSE
