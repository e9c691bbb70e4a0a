\* One indexer restarted with a larger window.
SPECIFICATION Spec
CONSTANTS
    NoBlock = NoBlock
    Block <- ForkBlock
    Number <- ForkNumber
    Parent <- ForkParent
    MaxUint64 = 15
    MaxInt64 = 7
    Indexer = {i1}
    ChainID = 1
    Windows = {1, 2}
    HeadMode = "latest"
PROPERTY FromBlockIsLowest
