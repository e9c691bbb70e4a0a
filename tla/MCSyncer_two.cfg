\* Two indexers sharing the store; the selected head may be any block of the
\* chain in view.
SPECIFICATION Spec
CONSTANTS
    NoBlock = NoBlock
    Block <- ForkBlock
    Number <- ForkNumber
    Parent <- ForkParent
    MaxUint64 = 15
    MaxInt64 = 7
    Indexer = {i1, i2}
    ChainID = 1
    Windows = {2}
    HeadMode = "safe"
INVARIANTS
    TypeOK
    StoredOneChain
    SyncStateNamesTip
    RetentionBounded
    FetchedFromHead
PROPERTIES
    SyncedTip
SYMMETRY Indexers
