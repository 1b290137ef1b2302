\* Names and address over a reset, with every call succeeding.
CONSTANTS
    Firmware <- Builds
    ClearNewVersion = TRUE
    ClearNewBuild = FALSE
    Handler <- HandlerPath
    LokiKeys <- ShortName
    UserValues <- Thor
    Faults = FALSE
    AutoStart = TRUE
SPECIFICATION CSpec
INVARIANT NamesSurvive
