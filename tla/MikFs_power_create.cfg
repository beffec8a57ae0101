CONSTANTS
    a = a
    b = b
    p1 = p1
    p2 = p2
    NoName = NoName
    Blank = Blank
    Names <- TwoNames
    NulNames <- NoNames
    AlsoFound <- NoNames
    MaxFiles = 2
    PerSector = 1
    NExtents = 2
    MaxNext = 2
    Cap = 2
    Bytes = {1}
    Seeds <- OneSeed
    SeedBytes <- OneByte
    Procs <- OneProc
    Spawned <- OneProc
    NFD = 1
    Faults <- PowerCuts
SPECIFICATION Spec
INVARIANT ExtentsDisjoint
CHECK_DEADLOCK FALSE
