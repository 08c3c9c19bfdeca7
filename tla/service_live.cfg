SPECIFICATION FairSpec
CONSTANTS
    c1 = c1
    c2 = c2
    t1 = t1
    Clients <- TwoClients
    Topics <- OneTopic
    Filters <- SomeFilters
    Keys = {k1}
    MaxSubscriptions <- TwoAndOne
    MaxIncoming = 1
    Env <- Orderly
INVARIANT ServiceSurvives
PROPERTIES
    AckDelivered
    QueueDrains
CHECK_DEADLOCK FALSE
