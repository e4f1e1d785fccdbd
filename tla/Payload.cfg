SPECIFICATION Spec
CONSTANTS
    Volumes <- MCVolumes
    Offsets <- MCOffsets
    Jumps   <- MCJumps
    BLOCK   = 2
    SECTOR  = 2
    U64     = 16
    MAX_ALLOC = 8
    MaxLen  = 5
INVARIANTS
    TypeOK
    ReadStaysInPayload
PROPERTIES
    IsPlaintext
    ReadAdvances
    CallsReturn
CHECK_DEADLOCK FALSE
