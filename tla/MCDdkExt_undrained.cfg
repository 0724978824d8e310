SPECIFICATION Spec
CONSTANTS
    Writers = {w1}
    Lens = {0}
    LongVals <- SmallLongs
    DefBlinks = 1
    IntHalf = 3
    ULongMod = 4
    Drained = FALSE
INVARIANT StoppedTimer
CHECK_DEADLOCK FALSE
