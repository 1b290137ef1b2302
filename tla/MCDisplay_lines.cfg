\* A boot whose updates interleave with those of Bluetooth and Thread.
CONSTANTS
    Callers <- BootThreads
    Preemptive <- MainAndAnim
    Calls <- ThreadCalls
SPECIFICATION FairSpec
INVARIANTS
    LvglExclusive
    StatusCurrent
    SomebodyRuns
PROPERTIES
    OwnAddressShown
    UpdatesReturn
    FramesComeBack
