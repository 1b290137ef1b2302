\* Cooperative threads and a display: handlers interleave where they wait for
\* the display mutex or for a notification buffer.
CONSTANTS
    SpeedSteps = 3
    FullDuty = 2
    BrakeDivisor = 3
    Orders <- FewOrders
    Patterns <- FewPatterns
    PwmBases <- BootPwmOnly
    NanoPerSecond = 1000000000
    U16 = 65536
    HasDisplay = TRUE
    Preemptive <- NoThread
SPECIFICATION Spec
INVARIANTS
    PinsExclusive
    MotorFollowsSpeed
    RampArmed
    RampAnnounced
PROPERTIES
    ReversesAtStandstill
    RampAdvances
