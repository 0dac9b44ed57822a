SPECIFICATION Spec
CONSTANTS
    r1 = r1
    r2 = r2
    ota_0 = ota_0
    ota_1 = ota_1
    Releases <- MCOne
    CounterOf <- MCCounter1
    Slots <- MCSlots
    NoRelease = NoRelease
    Factory = Factory
    Development = Development
    Torn = Torn
    MaxPowerLosses = 0
    MaxFaults = 0
    MaxSelections = 2
    MaxDevelopment = 0
    Manifests <- MCManifestsFaulty
INVARIANT TerminalReportCompletes
CHECK_DEADLOCK FALSE
