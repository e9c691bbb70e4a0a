\* Two writers.
SPECIFICATION FairSpec
CONSTANTS
    NoBlock = NoBlock
    Block <- TwigBlock
    Number <- TwigNumber
    Parent <- TwigParent
    MaxUint64 = 15
    MaxInt64 = 7
    Writer = {w1, w2}
    NoWriter = NoWriter
    Updates <- MCUpdates
INVARIANTS
    TxConsistent
    NoKeyConflict
PROPERTIES
    Atomic
    EveryCallReturns
