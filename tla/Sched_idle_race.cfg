CONSTANTS
    Bytes <- OneByte
    Cap = 1
    NPROC = 2
    NSpawn = 1
    Spinners = {}
    RxCap = 1
SPECIFICATION Spec
INVARIANT IdleFrameNeverSaved
CHECK_DEADLOCK FALSE
