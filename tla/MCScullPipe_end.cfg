SPECIFICATION Spec
CONSTANTS
    ReadFiles = {r1}
    WriteFiles = {w1}
    NonBlock = {}
    Pollers = {}
    Data = {a}
    BufSizes = {2, 3}
    Counts = {1}
    LateOpens = TRUE
    Faults = FALSE
INVARIANT EndOfBuffer
CHECK_DEADLOCK FALSE
