\* One indexer: the store refuses an update.
SPECIFICATION Spec
CONSTANTS
    NoBlock = NoBlock
    Block <- ForkBlock
    Number <- ForkNumber
    Parent <- ForkParent
    MaxUint64 = 15
    MaxInt64 = 7
    Indexer = {i1}
    ChainID = 1
    Windows = {2}
    HeadMode = "latest"
INVARIANT UpdatesPreValidated
