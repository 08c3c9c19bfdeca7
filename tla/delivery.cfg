SPECIFICATION Spec
CONSTANTS
    Alphanumeric = {"a"}
    Filters <- ShortFilters
    Topics <- ShortTopics
    Payloads <- SomePayloads
    TopicLenLimit = 7
    None = None
INVARIANTS
    TypeOK
    MemorySafe
    HeardIfCovered
    HeardOnlyIfCovered
    HeardAsPublished
CHECK_DEADLOCK FALSE
