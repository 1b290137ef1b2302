\* Every request, every failure, and the motion changing meanwhile.
CONSTANTS
    PoolSize = 2
    Speeds <- TwoSpeeds
    Orders <- TwoOrders
    MaxSpeed = 255
    Texts <- EdgeTexts
    Bytes <- EdgeBytes
    Lengths <- EdgeLengths
    MAX_LEN_FULL_NAME = 63
    NoPayload = NoPayload
    None = None
SPECIFICATION Spec
INVARIANTS
    PoolRestored
PROPERTIES
    AnswerIsCurrent
    SpeedAsWritten
