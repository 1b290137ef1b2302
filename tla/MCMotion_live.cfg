\* No display; what becomes of the last order when the clients fall silent.
CONSTANTS
    SpeedSteps = 3
    FullDuty = 2
    BrakeDivisor = 3
    Orders <- FewOrders
    Patterns <- CoapPatterns
    PwmBases <- BootPwmOnly
    NanoPerSecond = 1000000000
    U16 = 65536
    HasDisplay = FALSE
    Preemptive <- NoThread
SPECIFICATION FairSpec
PROPERTIES
    RampCompletes
    TimerRetires
    ImplementsTraction
    OrdersReachBridge
