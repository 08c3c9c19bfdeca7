SPECIFICATION Spec
CONSTANTS
    Alphanumeric = {"a"}
    Filters <- FewFilters
    Topics <- ShortTopics
    Payloads <- OnePayload
    TopicLenLimit = 7
    None = None
INVARIANT SearchFindsSubscribers
CHECK_DEADLOCK FALSE
