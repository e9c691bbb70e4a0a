\* One to three blocks of two branches, pools of one to three workers.
SPECIFICATION FairSpec
CONSTANTS
    NoBlock = NoBlock
    Block <- ForkBlock
    Number <- ForkNumber
    Parent <- ForkParent
    MaxUint64 = 15
    Ranges <- MCRanges
    Concurrencies = {0, 2, 4}
INVARIANTS
    RootCauseReported
    NoSharedPosition
PROPERTIES
    FillsRange
    AlwaysReturns
CHECK_DEADLOCK FALSE
