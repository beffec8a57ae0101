CONSTANTS
    Vals <- Bits
    Interval = 100
    TlbSize = 2
    MaxPage = 4
    Cost <- RealCost
    Computed <- Constants
    LoopCosts <- AnyCost
    Calls <- ForkAndYield
    Touched <- Nowhere
    Targets <- Code
    ForkWhenFull = FALSE
SPECIFICATION FairSpec
PROPERTY AlwaysProgress
CHECK_DEADLOCK FALSE
