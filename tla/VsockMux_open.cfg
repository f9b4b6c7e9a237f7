CONSTANTS
    GuestPorts = {7}
    HostPorts = {1}
    FirstPort = 1
    PortTries = 2
    CounterMod = 3
    BufAlloc = 2
    MaxChunk = 1
    MaxPayload = 2
    MaxConns = 2
    MaxPrefetch = 1
    CreditThresh = 1
    Byte = b
    GuestBufs = {1}
    ConnectResults = {"done", "fail"}
    MaxRead = 1
    MaxRoom = 2
    MaxCtrl = 3
    MaxData = 2
SPECIFICATION Spec
INVARIANTS
    OnlyRstOutlivesConn
    WindowExact
    WaitingHasDeadline
    CtrlBounded
PROPERTIES
    DataOnlyWhileOpen
    CreditRespected
