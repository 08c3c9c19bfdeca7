SPECIFICATION Spec
CONSTANTS
    Clients = {p1, p2}
    Topics <- NestedTopics
    Keys = {k1, k2}
    MaxMessages = 2
    MaxFound = 1
    MaxExpiries = 1
    Env <- AllEvents
INVARIANT BroadcastsItsTopic
CHECK_DEADLOCK FALSE
