\* Resets, updates, failing calls and joins: what is wiped, what is kept, what the
\* BLE lifecycle knows of Thread, and whether a stored network is used.
CONSTANTS
    Firmware <- Builds
    ClearNewVersion = TRUE
    ClearNewBuild = FALSE
    Handler <- HandlerPath
    LokiKeys <- ShortName
    UserValues <- Thor
    Faults = TRUE
    AutoStart = TRUE
SPECIFICATION CFairSpec
INVARIANTS
    StaleUnused
    TornUnused
    LifecycleInformed
    NetworkTakenUp
PROPERTIES
    KeptForSeries
    NetworkUsed
