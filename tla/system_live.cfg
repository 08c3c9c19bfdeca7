SPECIFICATION FairSpec
CONSTANTS
    t1 = t1
    MaxRequests = 2
    MaxConnections = 2
    MaxIncoming = 0
    Topics <- OneTopic
    Filters <- EachFilter
    LibraryEnv <- OnlyLost
    ServiceEnv <- ServiceEvents
PROPERTIES
    SubscriptionEnds
    UnsubscribeCompletes
CHECK_DEADLOCK FALSE
