SPECIFICATION Spec
CONSTANTS
    MaxRequests = 1
    MaxIncoming = 1
    Env <- UnreachableService
INVARIANT ReconnectScheduled
CHECK_DEADLOCK FALSE
