CONSTANTS
    u1 = u1
    bot = bot
    Users <- OneUser
    Bot = bot
    NumEvents = 2
    Type <- TypeOf
    By <- CausedBy
    Unmarked <- NotAlways
    AppToken = TRUE
    InitialRetry = 2
    MaxRetry = 4
    MaxSends = 2
    MaxInbox = 1
SPECIFICATION FairSpec
INVARIANTS
    TypeOK
    NoEcho
    StoppedMeansQuiet
    LossExcused
    PermissionHasGrounds
PROPERTIES
    EveryEventHandled
    ShutdownEnds
CHECK_DEADLOCK FALSE
