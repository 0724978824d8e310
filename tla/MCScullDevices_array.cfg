SPECIFICATION AreaSpec
CONSTANTS
    AreaRdwr = {f1}
    AreaWronly = {f2}
    AreaMappers = {f1}
    AreaData = {a}
    Unwritten = none
    MaxPos = 3
    Page = 1
    Quanta = {1}
    Orders = {0}
    Qsets = {2}
    DefUnit <- Units
    DefQset = 2
    AreaCounts = {2}
    AreaFaults = TRUE
    Overlap = FALSE
INVARIANTS  PagesStay
PROPERTY IsSparseArray
CHECK_DEADLOCK FALSE
