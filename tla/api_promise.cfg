SPECIFICATION Spec
CONSTANTS
    MaxRequests = 1
    MaxIncoming = 1
    Env = {}
PROPERTY AnswersAsDocumented
CHECK_DEADLOCK FALSE
