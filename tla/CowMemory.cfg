CONSTANTS
    Slots = {0, 1}
    NImage = 1
    NPages = 2
    Values <- PageValues
    ImageValue = 1
    Stale = 1
    AddressPages = 4
    Maps <- FirmwareMaps
    PageBytes = 2
    LowLimit = 2
    KernelStart = 6
    BssEnd = 7
    RamEnd = 14
    Mapped = 14
SPECIFICATION Spec
INVARIANTS
    MemTypeOK
    SharedIsReadOnly
    TlbCoherent
    FramesAreUsable
PROPERTIES
    FaultIsRepaired
    ImplementsPrivateMemory
CHECK_DEADLOCK FALSE
