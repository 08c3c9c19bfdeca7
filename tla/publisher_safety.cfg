SPECIFICATION Spec
CONSTANTS
    Clients = {p1, p2}
    Topics <- NestedTopics
    Keys = {k1, k2}
    MaxMessages = 4
    MaxFound = 3
    MaxExpiries = 2
    Env <- AllEvents
INVARIANTS
    TypeOK
    ChannelsDistinct
    SearchersReach
    StatesAnnounced
CHECK_DEADLOCK FALSE
