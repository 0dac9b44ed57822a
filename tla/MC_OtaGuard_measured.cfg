SPECIFICATION GuardSpec
CONSTANTS
    Capacity = 2
    Reserve = 1
    FeedbackCapacity = 1
INVARIANTS
    UploadsMeasured
CHECK_DEADLOCK FALSE
