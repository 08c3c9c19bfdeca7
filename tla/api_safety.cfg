SPECIFICATION Spec
CONSTANTS
    MaxRequests = 3
    MaxIncoming = 2
    Env <- AllEvents
INVARIANTS
    TypeOK
    ReconnectExclusive
    NoLostWakeup
    ReceiveArmed
    QueueOwned
    TimerOwned
    ToldOnce
    NoUnmatched
    NeverOvertaken
PROPERTIES
    StaysTakenBack
    KeepsItsPromise
CHECK_DEADLOCK FALSE
