\* One indexer, failures and reorganisations, then calm.
SPECIFICATION LiveSpec
CONSTANTS
    NoBlock = NoBlock
    Block <- DeepBlock
    Number <- DeepNumber
    Parent <- DeepParent
    MaxUint64 = 15
    MaxInt64 = 7
    Indexer = {i1}
    ChainID = 1
    Windows = {3}
    HeadMode = "latest"
PROPERTIES
    SyncedWindow
    ReorgCountExact
    NeverEmptied
    WindowConverges
