CONSTANTS
    r1 = r1
    r2 = r2
    r3 = r3
    c1 = c1
    c2 = c2
    NONE = NONE
    Requests <- MCRequests
    Channels <- MCChannels
SPECIFICATION FairSpec
INVARIANTS
    TypeOK
    SenderHeldIffPending
    OnlyNewestCanBeAnswered
    NoStaleEntry
    CancelledOnlyByRival
PROPERTIES
    EveryRequestReturns
    ImplementsPermission
CHECK_DEADLOCK FALSE
