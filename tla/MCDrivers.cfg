SPECIFICATION McSpec
CONSTANTS
    AcProcs = {"p1", "p2", "p3", "p4"}
    AcTtys = {"t", "u"}
    AcUsers = {"a", "b"}
    AcUserZero = "a"
    AcUid <- McUid
    AcEuid <- McEuid
    AcTty <- McTtyOf
    AcRoot = {"p4"}
    AcWronly = {"p1"}
    AcNonblock = {"p4"}
    SnDevs = {"sn0", "sn1"}
    SnTwin <- McTwin
    SnFirst = "sn0"
    a1 = a1
    a2 = a2
    b1 = b1
    SnPackets = {a1, a2, b1}
    SnHome <- McHome
    SnQuota = 1
    SnLockups = {"sn1"}
    SbProcs = {"p1", "p2"}
    SbSectors = 2
    SbSegments <- McSegments
    SkFiles = {"f1", "f2"}
    SkDevs = {"d1", "d2"}
    NoSkel = "none"
    TyFiles = {"f1", "f2", "f3"}
    TyChars = 2
    ShReaders = {"r1"}
    ShPage = 6
    ShTv = 3
    ShMaxCount = 2
    JqReaders = {"r1", "r2"}
    JqFiles = {"delay", "tasklet", "timer"}
    JqLimit = 2
    SlReaders = {"r1", "r2", "r3"}
    SlWriters = {"w1", "w2"}
SYMMETRY McSymmetry
INVARIANTS
    OneAtATime
    OwnersOnly
    BlockedOpenServed
    PacketsConserved
    QueueRestarts
    SkelRefs
    
    InterruptsReachReaders
    JiqReaderServed
    SleepersWoken
PROPERTY
    MediaKept
CHECK_DEADLOCK FALSE
