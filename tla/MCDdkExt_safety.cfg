SPECIFICATION Spec
CONSTANTS
    Writers = {w1, w2}
    Lens = {0}
    LongVals <- SmallLongs
    DefBlinks = 1
    IntHalf = 3
    ULongMod = 4
    Drained = FALSE
SYMMETRY WriterSymmetry
INVARIANTS TypeOK PendingFlagExact BlinkAccounting
PROPERTY NoLostBlink
CHECK_DEADLOCK FALSE
