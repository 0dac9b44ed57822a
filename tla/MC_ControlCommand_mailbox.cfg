SPECIFICATION FairSpec
CONSTANTS
    MaxCommands = 1
    MaxLeases = 1
    MaxReboots = 0
    StorageFaults = FALSE
    ActionOf <- MCOpen
PROPERTIES
    MailboxFreed
CHECK_DEADLOCK FALSE
