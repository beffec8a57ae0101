CONSTANTS
    a = a
    b = b
    p1 = p1
    p2 = p2
    NoName = NoName
    Blank = Blank
    Names <- TwoNames
    NulNames <- NoNames
    AlsoFound <- BHidesInA
    MaxFiles = 2
    PerSector = 1
    NExtents = 2
    MaxNext = 3
    Cap = 1
    Bytes = {1}
    Seeds <- OneSeed
    SeedBytes <- OneByte
    Procs <- OneProc
    Spawned <- OneProc
    NFD = 2
    Faults <- PowerAndDrive
SPECIFICATION Spec
INVARIANTS
    CountedIsWritten
    HandlesAreNamed
    WriterLeavesNoGap
PROPERTY FilesStay
CHECK_DEADLOCK FALSE
