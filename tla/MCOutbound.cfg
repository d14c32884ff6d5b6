CONSTANTS
    NumTasks = 2
    Txn <- Mixed
    Shape <- MixedShape
    MaxFaults = 2
SPECIFICATION FairSpec
INVARIANTS
    DuplicatesExcused
    InOrderUnlessRetried
    AnsweredMeansSent
PROPERTIES
    EveryTxnAnswered
CHECK_DEADLOCK FALSE
