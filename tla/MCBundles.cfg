SPECIFICATION Spec
CONSTANTS
    Nil = Nil
    ChainID = 1
    MaxUint64 = 15
    MaxInt64 = 7
    MaxUint32 = 7
    MaxInt32 = 3
    MaxUint256 = 20
    Base = 3
    MaxDigits = 3
    RequestedNumber = 5
    BlockAnswers <- MCBlockAnswers
    LogAnswers <- MCLogAnswers
    Scales <- MCScales
INVARIANTS
    FetchedIsConsistent
    AcceptedIsWritable
    AnswersAreTheBlock
CHECK_DEADLOCK FALSE
