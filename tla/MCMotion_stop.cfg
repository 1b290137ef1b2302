\* /stop as the documents describe it.
CONSTANTS
    SpeedSteps = 3
    FullDuty = 2
    BrakeDivisor = 3
    Orders <- FewOrders
    Patterns <- FewPatterns
    PwmBases <- BootPwmOnly
    NanoPerSecond = 1000000000
    U16 = 65536
    HasDisplay = FALSE
    Preemptive <- NoThread
SPECIFICATION Spec
INVARIANTS
    StopIsFinal
