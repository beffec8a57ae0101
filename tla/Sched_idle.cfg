CONSTANTS
    Bytes <- OneByte
    Cap = 2
    NPROC = 2
    NSpawn = 2
    Spinners = {}
    RxCap = 2
SPECIFICATION FairSpec
INVARIANTS
    TypeOK
    NoLostWakeup
    RunningConsistent
PROPERTIES
    OthersUntouched
    ReadyRuns
    UartWakes
CHECK_DEADLOCK FALSE
