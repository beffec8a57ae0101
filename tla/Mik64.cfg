CONSTANTS
    Vals <- Bits
    Interval = 3
    TlbSize = 2
    MaxPage = 6
    Cost <- ShortCost
    Computed <- Written
    LoopCosts <- ShortAndLong
    Calls <- AllCalls
    Touched <- EveryPage
    Targets <- CodeAndData
    ForkWhenFull = FALSE
SPECIFICATION FairSpec
INVARIANTS
    MikTypeOK
    ContextKept
    TlbIsACache
    RunsInItsOwnPages
PROPERTIES
    OtherUntouched
    Preemption
CHECK_DEADLOCK FALSE
