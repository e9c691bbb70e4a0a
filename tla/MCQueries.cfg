\* One client, pages of one or two events.
SPECIFICATION MemorySpec
CONSTANTS
    NoBlock = NoBlock
    Block <- ForkBlock
    Number <- ForkNumber
    Parent <- ForkParent
    MaxUint64 = 15
    MaxInt64 = 7
    Event <- MCEvent
    Transaction = {"tg", "t", "ta2", "ta3", "tb1"}
    TransactionsOf <- MCTransactionsOf
    Address = {"x", "y"}
    Updates <- MCUpdates
    Limits = {0, 1, 2, 3}
    MaxEventPageSize = 2
    Byte = 4
INVARIANTS
    MemoryAgrees
    OneBranch
    NoneSkipped
    NoneRepeated
    StaleMeansGone
    TransactionWhole
