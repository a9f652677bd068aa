SPECIFICATION Spec
CONSTANTS
    Clients = {c1, c2}
    NoClient = NoClient
    MaxRequests = 2
    MaxQueue = 2
    MaxCookie = 3
    MaxCalls = 4
    MaxConns = 2
    MaxFaults = 1
CHECK_DEADLOCK FALSE
INVARIANTS
    IdleTypeOK
    HeldIsShown
    SettledIsExact
    NoLostCall
    StaleNeverLive
    FramesAccepted
PROPERTIES
    Answered
