SPECIFICATION Spec
CONSTANTS
    Byte = 2
    Word = 16
    Day = 24
    Keepalive = 1
    HsTimeout = 2
    Rekey = 9
    Expire = 10
    MaxPass = 2
    MaxPrompt = 28
    Horizon = 24
INVARIANTS
    KeepaliveInTime
PROPERTIES
    HandshakeEnds
    SessionEnds
    DropsInTime
