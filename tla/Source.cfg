SPECIFICATION Spec
CONSTANTS
    Volumes  <- MCVolumes
    Offsets  <- MCOffsets
    Threads  = {t1, t2}
    NoThread = NoThread
    BLOCK    = 2
    SECTOR   = 2
    U64      = 16
    MAX_ALLOC = 8
    MaxLen   = 3
    MaxCalls = 2
INVARIANTS
    TypeOK
    ReadsAreSlices
    GuardIsAlive
PROPERTIES
    PanicStaysLocal
    ReadsReturn
CHECK_DEADLOCK FALSE
