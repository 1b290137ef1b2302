\* Renaming while the lifecycle runs.
CONSTANTS
    Loki = Loki
    Thor = Thor
    OffAfterAttach = TRUE
    StopDelay = 1
    Names <- TwoNames
    FirstName = Loki
    HasDisplay = FALSE
    Preemptive <- OnlyMain
SPECIFICATION Spec
VIEW WithoutHistory
INVARIANTS
    NameOnAir
