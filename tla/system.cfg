SPECIFICATION Spec
CONSTANTS
    t1 = t1
    MaxRequests = 2
    MaxConnections = 2
    MaxIncoming = 1
    Topics <- OneTopic
    Filters <- EachFilter
    LibraryEnv <- LibraryEvents
    ServiceEnv <- ServiceEvents
INVARIANTS
    InSync
    ServiceSurvives
PROPERTIES
    LibraryView
CHECK_DEADLOCK FALSE
