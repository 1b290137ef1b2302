\* The CoAP server with the motion underneath it: answers are built and orders
\* carried out while GATT writes and the ramp go on.
CONSTANTS
    SpeedSteps = 2
    FullDuty = 2
    BrakeDivisor = 2
    Orders <- FewOrders
    Patterns <- Reverse
    PwmBases <- NoPwm
    NanoPerSecond = 1000000000
    U16 = 65536
    HasDisplay = FALSE
    Preemptive <- NoThread
    PoolSize = 1
    Texts <- TopSpeed
    Bytes <- Reverse
    Lengths <- LongName
    MAX_LEN_FULL_NAME = 63
    NoPayload = NoPayload
    None = None
SPECIFICATION RSpec
INVARIANTS
    ClientObeyed
PROPERTIES
    AnswerIsTrue
