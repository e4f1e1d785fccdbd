SPECIFICATION Spec
CONSTANTS
    DERIVATION_BUDGET = 3
    CALIBRATION_ITERS = 2
    MAX_KEY_BYTES = 64
    MAX_ARGON2_MEMORY_KIB = 4
    MaxPass = 2
    MAX_STRIPES = 8
    MAX_ALLOC = 65536
    MaxIo = 0
    p1 = p1
    p2 = p2
    k1 = k1
    k2 = k2
    ZeroKey = ZeroKey
    Junk = Junk
    NoKey = NoKey
    Names <- MCNames
    Passphrases <- MCPassphrases
    MasterKeys <- MCMasterKeys
    Containers <- MixedContainers
    Budgets <- AmpleBudget
INVARIANT
    TriesEachSlot
CHECK_DEADLOCK FALSE
