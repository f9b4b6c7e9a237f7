CONSTANTS
    GuestPorts = {7}
    HostPorts = {1}
    FirstPort = 1
    PortTries = 1
    CounterMod = 4
    BufAlloc = 2
    MaxChunk = 2
    MaxPayload = 2
    MaxConns = 2
    MaxPrefetch = 3
    CreditThresh = 1
    Flow <- TheFlow
    HostConnects = TRUE
    HostBytes = 3
    GuestBytes = 3
    GuestBuf = 3
    HostCap = 2
    RxBufs = 2
    RxSpace = 1
    TxSlots = 2
    HostMayShut = TRUE
SPECIFICATION Spec
INVARIANTS
    HostEofAfterData
PROPERTIES
    ToGuestIsStream
    ToHostIsStream
CHECK_DEADLOCK FALSE
