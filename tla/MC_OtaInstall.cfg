SPECIFICATION Spec
CONSTANTS
    r1 = r1
    r2 = r2
    ota_0 = ota_0
    ota_1 = ota_1
    Releases <- MCReleases
    CounterOf <- MCCounter
    Slots <- MCSlots
    NoRelease = NoRelease
    Factory = Factory
    Development = Development
    Torn = Torn
    MaxPowerLosses = 1
    MaxFaults = 1
    MaxSelections = 1
    MaxDevelopment = 1
    Manifests <- MCManifestsFaulty
INVARIANTS
    Bootable
    NeverHalts
    OnlyPassedConfirmed
    JournalNamesRunning
    FloorIsConfirmed
PROPERTIES
    CounterNeverFalls
    ImplementsInstallation
CHECK_DEADLOCK FALSE
