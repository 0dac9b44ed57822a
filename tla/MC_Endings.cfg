SPECIFICATION SumFairSpec
CONSTANTS
    QueueCapacity = 2
    MaxBatch = 1
    SpoolLimit = 2
    DeadLimit = 1
    Anchors = {1}
    BootIds = {1}
    Tries = {1}
    MaxSamples = 1
    MaxRevision = 1
    MaxRestores = 1
    Factory = Factory
    Development = Development
    Torn = Torn
    NoRelease = NoRelease
    r1 = r1
    s1 = s1
    s2 = s2
PROPERTIES
    SpoolDrains
    ConfigConverges
    CommandLeavesQueue
    SelectionEnds
CHECK_DEADLOCK FALSE
