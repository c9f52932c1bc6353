SPECIFICATION Spec
CONSTANTS
    Lanes = {l1, l2}
    NoLane = NoLane
INVARIANTS
    ResetReached
    LockReturned
PROPERTIES
    ImplementsHandover
CHECK_DEADLOCK FALSE
