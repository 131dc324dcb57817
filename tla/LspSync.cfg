SPECIFICATION FairSpec
CONSTANTS
    MaxVersion = 2
    MaxResets = 1
    MaxPending = 1
    MaxCmds = 1
    Faults = {"fail", "lost", "drop", "notready", "slow"}
    MaxFaults = 1
    a = a
    b = b
    NL = NL
    Units <- MCUnits
    U32_MAX = 65535
    Inserts <- MCInserts
    MultiLine = FALSE
    Base <- MCBase
    MaxBatch = 3
INVARIANTS
    NoGarbledText
    OneSendAtATime
    
PROPERTIES
    InFlightEnds
    SyncConverges
CHECK_DEADLOCK FALSE
