SPECIFICATION Spec
CONSTANTS
    a = a
    b = b
    NL = NL
    Units <- MCUnits
    U32_MAX = 65535
    Inserts <- MCInserts
    Base <- MCBase
    MultiLine = TRUE
    MaxBatch = 2
INVARIANT
    CoalescedSameResult
CHECK_DEADLOCK FALSE
