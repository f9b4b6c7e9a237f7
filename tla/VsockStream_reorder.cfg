CONSTANTS
    GuestPorts = {7}
    HostPorts = {1}
    FirstPort = 1
    PortTries = 1
    CounterMod = 4
    BufAlloc = 2
    MaxChunk = 2
    MaxPayload = 2
    MaxConns = 2
    MaxPrefetch = 2
    CreditThresh = 1
    Flow <- TheFlow
    HostConnects = TRUE
    HostBytes = 3
    GuestBytes = 0
    GuestBuf = 1
    HostCap = 4
    RxBufs = 2
    RxSpace = 1
    TxSlots = 2
    HostMayShut = FALSE
SPECIFICATION Spec
PROPERTIES
    ToGuestIsStream
CHECK_DEADLOCK FALSE
