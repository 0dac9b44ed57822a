SPECIFICATION SumSpec
CONSTANTS
    v1 = v1
    v2 = v2
    v3 = v3
    None = None
    Torn = Torn
    Values <- MCValues
    Stamp <- MCStamp
    SkipsEqual = FALSE
    Capacity = 2
    Reserve = 1
    FeedbackCapacity = 1
INVARIANTS
    NothingLeftOn
PROPERTIES
    ImplementsAtomicStore
    AcceptedUnharmed
CHECK_DEADLOCK FALSE
