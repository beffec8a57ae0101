CONSTANTS
    Vals <- Bits
    Interval = 3
    TlbSize = 2
    MaxPage = 4
    Cost <- ShortCost
    Computed <- Written
    LoopCosts <- ShortAndLong
    Calls <- AllCalls
    Touched <- EveryPage
    Targets <- Code
    ForkWhenFull = FALSE
SPECIFICATION FairSpec
INVARIANT ClobbersAreDocumented
CHECK_DEADLOCK FALSE
