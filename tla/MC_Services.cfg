SPECIFICATION SumSpec
CONSTANTS
    Values = {v1, v2}
    None = None
    Fields = 3
    BootIds = {1, 2}
    MaxSeq = 2
    MaxAccepted = 2
    QueueCapacity = 1
    MaxFiles = 1
    MaxDead = 1
    MaxFaults = 2
    MaxRestores = 1
    MaxBoots = 4
    MaxGlitches = 3
    DumpLimit = 1
    Count = 2
INVARIANTS
    FeedbackTypeOK
    NeverMixed
    NoDanglingLabel
    CorrectionKept
    AttributedUnlessExcused
    ContractKept
PROPERTIES
    OnceMarkedAtomic
    DumpKept
CHECK_DEADLOCK FALSE
