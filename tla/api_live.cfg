SPECIFICATION FairSpec
CONSTANTS
    MaxRequests = 2
    MaxIncoming = 1
    Env <- BreakingLink
PROPERTIES
    Reconnects
    QueueDrains
    SubscriptionAnswered
    UnsubscribeCompletes
CHECK_DEADLOCK FALSE
