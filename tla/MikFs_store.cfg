CONSTANTS
    a = a
    b = b
    p1 = p1
    p2 = p2
    NoName = NoName
    Blank = Blank
    Names <- TwoNames
    NulNames <- NoNames
    AlsoFound <- NoNames
    MaxFiles = 2
    PerSector = 1
    NExtents = 2
    MaxNext = 2
    Cap = 2
    Bytes = {1, 2}
    Seeds <- OneSeed
    SeedBytes <- OneByte
    Procs <- TwoProcs
    Spawned <- TwoProcs
    NFD = 1
    Faults <- NoFaults
SYMMETRY ProcSymmetry
SPECIFICATION Spec
INVARIANTS
    FsTypeOK
    ExtentsDisjoint
PROPERTY ImplementsFileStore
CHECK_DEADLOCK FALSE
