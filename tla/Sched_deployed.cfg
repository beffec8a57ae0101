CONSTANTS
    Bytes <- OneByte
    Cap = 2
    NPROC = 4
    NSpawn = 3
    Spinners <- ProgB
    RxCap = 1
SPECIFICATION FairSpec
INVARIANTS
    IdleFrameNeverSaved
    BlockedRereads
PROPERTIES
    RoundRobin
    ReadyRuns
