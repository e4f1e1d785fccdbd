SPECIFICATION Spec

CONSTANTS
    U32 = 8
    IdOrder <- MCIdOrder
    Images <- MCImages

INVARIANTS
    ParsedAsWritten
    RefusedForCause
    AuditIsTrue
    JsonIsFaithful
    SegmentIsFirst

\* A header is parsed and audited once.
CHECK_DEADLOCK FALSE
