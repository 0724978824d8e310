SPECIFICATION Spec
CONSTANTS
    ReadFiles = {r1, rw}
    WriteFiles = {w1, rw}
    NonBlock = {rw}
    Pollers = {}
    Data = {a, b}
    BufSizes = {2, 3}
    Counts = {0, 2}
    LateOpens = TRUE
    Faults = TRUE
INVARIANT OpensCounted
 
CHECK_DEADLOCK FALSE
