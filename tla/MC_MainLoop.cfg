SPECIFICATION SumSpec
CONSTANTS
    Configs <- MCConfigs
    Longest <- MCLongest
    Calibration = 2
    MaxStep = 2
    MaxCommands = 2
    MaxLeases = 2
    MaxReboots = 1
    StorageFaults = TRUE
    ActionOf <- MCRebootThenOpen
INVARIANTS
    ScreenJustified
    EffectOnlyOnceReleased
    DurableBeforeEffect
    SucceededMeansDone
    SingleFlight
    AtMostOnce
CHECK_DEADLOCK FALSE
