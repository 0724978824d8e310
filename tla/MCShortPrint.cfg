SPECIFICATION SpSpec
CONSTANTS
    SpWriters = {w1}
    SpReaders = {r1}
    SpData = {"a", "b"}
    SpSize = 3
    SpRecords = 2
    SpCounts = {3}
PROPERTIES
    PrintedInOrder
    
CHECK_DEADLOCK FALSE
