\* The lifecycle with a display: every interleaving, and where it ends when nothing
\* calls it any more.
CONSTANTS
    Loki = Loki
    Thor = Thor
    OffAfterAttach = TRUE
    StopDelay = 2
    Names <- OneName
    FirstName = Loki
    HasDisplay = TRUE
    Preemptive <- OnlyMain
SPECIFICATION FairSpec
INVARIANTS
    OffMeansOff
    OnMeansOn
    LastWordCounts
PROPERTIES
    ImplementsVisibility
    DetachCancelsStop
    GoesDark
    StaysVisible
    FullWindow
