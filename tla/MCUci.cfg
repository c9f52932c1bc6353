SPECIFICATION Spec
CONSTANTS
    MaxLen = 3
    Block = 2
    Pool = {1, 2}
    SettleReads = 8
INVARIANTS
    DeliveredWhole
    NeverDropsWhole
    CommandsIntact
    SocketHeld
PROPERTIES
    CallReturns
    ImplementsUdp
