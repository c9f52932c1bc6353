SPECIFICATION Spec
CONSTANTS
    p1 = p1
    p2 = p2
    e1 = e1
    e2 = e2
    Nobody = Nobody
    NoEndpoint = NoEndpoint
    Closed = Closed
    Listening = Listening
    Peers = {p1, p2}
    Endpoints = {e1, e2}
    Home <- TwoHomes
    RejectAt = 2
    MaxInits <- Inits
    MaxLoads <- Loads
    MaxData = 1
    MaxRoams = 1
CONSTRAINT Bounds
CHECK_DEADLOCK FALSE
INVARIANTS
    NonceFresh
    SessionAgreement
    PinnedToPeer
    TranscriptFresh
    CookieForPeer
    CookieAnsweredOnce
PROPERTIES
    ReceiveKeepsSession
    SendReopens
    ImplementsSession
