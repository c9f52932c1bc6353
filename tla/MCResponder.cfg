SPECIFICATION Spec
CONSTANTS
    Addrs = {a1, a2}
    NoAddr = NoAddr
    MaxInit = 2
    MaxKeys = 2
    MaxLines = 2
    MaxSent = 2
INVARIANTS
    OneNonceEach
    HeardInOrder
CHECK_DEADLOCK FALSE
