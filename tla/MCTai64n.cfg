SPECIFICATION Spec
CONSTANTS
    Hz = 3
    Byte = 2
    Word = 4
    Day = 14
    Wrap = 32
    Nanos = 3
    BaseTimes = {0, 4, 8}
    MaxStamps = 3
    MaxLoads = 1
    Horizon = 25
INVARIANTS
    LeadBounded
PROPERTIES
    StampsIncrease
    KeepsUp
    AcceptedAfterLoad
CHECK_DEADLOCK FALSE
