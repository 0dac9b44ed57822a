SPECIFICATION DumpSpec
CONSTANTS
    MaxBoots = 5
    MaxGlitches = 0
    DumpLimit = 1
INVARIANT StalePinSuperseded
CHECK_DEADLOCK FALSE
