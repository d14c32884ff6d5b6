CONSTANTS
    u1 = u1
    u2 = u2
    c1 = c1
    c2 = c2
    r1 = r1
    r2 = r2
    k1 = k1
    k2 = k2
    k3 = k3
    m1 = m1
    m2 = m2
    a = a
    b = b
    short = short
    long = long
    pic = pic
    People <- TwoUsers
    BotUser = "nobody"
    DisablePresence = FALSE
    MaxPresences = 3
    Channels <- TwoChannels
    NumTasks = 3
    EmojiNames <- ThreeNames
    LongNames <- OneLongName
    MaxEmojiEvents = 4
    RoomTexts <- TwoTexts
    MaxRenames = 4
    ProfileNames <- TwoTexts
    Avatars <- OneAvatar
    MaxProfiles = 3
    Checks <- TwoChecks
    UserLimit = 1
    MaxUsers = 2
    MaxOrders = 2
    Calls <- ThreeCalls
    Messages <- TwoMessages
    PoolSize = 2
    Rooms <- TwoRooms
    Notify = TRUE
    MaxEvents = 3
    MaxMoves = 2
    TextsA <- StoredA
    TextsB <- StoredB
    TextsV <- StoredV
    Folded <- LowerCase
    Long <- LongTexts
    MaxCalls = 5
    MaxFaults = 1
SPECIFICATION MCSpec
INVARIANTS
    TypeOK
    PresenceLossExcused
    TurnsInOrder
    EmojiFollowsSlack
    NamesFollowSlack
    ProfileFollowsSlack
    PauseHolds
    UpsertHeld
    StoresAgree
    MembershipExplained
CHECK_DEADLOCK FALSE
