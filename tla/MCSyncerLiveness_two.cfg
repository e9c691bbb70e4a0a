\* Two indexers converge on the head.
SPECIFICATION LiveSpec
CONSTANTS
    NoBlock = NoBlock
    Block <- TwigBlock
    Number <- TwigNumber
    Parent <- TwigParent
    MaxUint64 = 15
    MaxInt64 = 7
    Indexer = {i1, i2}
    ChainID = 1
    Windows = {1}
    HeadMode = "latest"
PROPERTY TipConverges
