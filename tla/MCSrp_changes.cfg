\* Changes of the names and of the DCC address as the documents expect them.
SYMMETRY SlotsAlike
CONSTANTS
    s1 = s1
    s2 = s2
    s3 = s3
    s4 = s4
    Slots <- FourSlots
    ShortNames <- ThreeShort
    LongNames <- TwoLong
    Addresses <- SomeAddresses
    Prefixes <- LoBeginsLoki
    NoAddress = "0"
    NoSlot = NoSlot
    Unset = Unset
SPECIFICATION Spec
INVARIANTS
    ChangesRegistered
