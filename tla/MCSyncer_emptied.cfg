\* Two indexers: a stale plan empties the store.
SPECIFICATION Spec
CONSTANTS
    NoBlock = NoBlock
    Block <- TwigBlock
    Number <- TwigNumber
    Parent <- TwigParent
    MaxUint64 = 15
    MaxInt64 = 7
    Indexer = {i1, i2}
    ChainID = 1
    Windows = {1}
    HeadMode = "latest"
PROPERTY NeverEmptied
