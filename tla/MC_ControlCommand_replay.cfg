SPECIFICATION FairSpec
CONSTANTS
    MaxCommands = 1
    MaxLeases = 1
    MaxReboots = 1
    StorageFaults = FALSE
    ActionOf <- MCLocal
PROPERTIES
    ReplayEnds
CHECK_DEADLOCK FALSE
