SPECIFICATION Spec
CONSTANTS
    Cells = {0, 1}
    Zero = 0
    Xor <- MCXor
    Hash <- MCHash
    DIGEST_SIZE = 2
    BLOCK_SIZE = 3
    SECTOR = 4
    MAX_STRIPES = 3
    StripeCounts = {0, 1, 3, 4}
    Fillers <- MCFillers
    HashSpecs = {"sha256", "md5"}
INVARIANTS
    TypeOK
    RoundTrip
    ErasureDestroys
PROPERTY
    MergeReturns
CHECK_DEADLOCK FALSE
