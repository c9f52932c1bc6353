SPECIFICATION Spec
CONSTANTS
    Window = 4
    ClearLimit = 3
    Block = 8
    RejectLimit = 17
    MaxCounter = 17
INVARIANTS
    NoReplay
