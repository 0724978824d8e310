SPECIFICATION FairSpec
CONSTANTS
    ReadFiles = {r1, r2}
    WriteFiles = {w1, w2}
    NonBlock = {}
    Pollers = {r1}
    Data = {a}
    BufSizes = {3}
    Counts = {1, 2}
    LateOpens = FALSE
    Faults = FALSE
INVARIANTS ReadersAwake WritersAwake
PROPERTY ReaderServed
CHECK_DEADLOCK FALSE
