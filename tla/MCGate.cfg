SPECIFICATION Spec
CONSTANTS
    TESTS = {p1, p2, p3}
    SERIAL_TESTS = {s1, s2}
    MAX_PARALLEL = 2
INVARIANTS
    ExitZeroHonest
    PoolUndisturbed
PROPERTIES
    GateEnds
CHECK_DEADLOCK FALSE
