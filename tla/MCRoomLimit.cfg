CONSTANTS
    t1 = t1
    t2 = t2
    slack = slack
    m1 = m1
    m2 = m2
    m3 = m3
    n1 = n1
    c1 = c1
    c2 = c2
    c3 = c3
    NONE = NONE
    Tasks <- TwoTasks
    SlackLoop = slack
    Rooms <- ThreeRooms
    NewRooms <- NoRooms
    Channels <- ThreeChannels
    RoomLimit = 1
    UnsetAlias = TRUE
    Served <- LimitedRequests
    MaxId = 3
SPECIFICATION Spec
SYMMETRY Symmetry
INVARIANT LimitOvershootBounded
PROPERTY ImplementsRegistry
CHECK_DEADLOCK FALSE
