SPECIFICATION Spec
CONSTANTS
    c1 = c1
    c2 = c2
    t1 = t1
    Clients <- TwoClients
    Topics <- OneTopic
    Filters <- SomeFilters
    Keys = {k1}
    MaxSubscriptions <- TwoAndOne
    MaxIncoming = 2
    Env <- AllEvents
INVARIANTS
    TypeOK
    OwnersAlive
    NothingLeftBehind
    RequestOutstanding
    AckIsLast
    InOrder
    MonitorsStopped
PROPERTIES
    AnnouncementEnds
CHECK_DEADLOCK FALSE
