CONSTANTS
    GuestPorts = {7}
    HostPorts = {1}
    FirstPort = 1
    PortTries = 1
    CounterMod = 4
    BufAlloc = 2
    MaxChunk = 2
    MaxPayload = 2
    MaxConns = 2
    MaxPrefetch = 3
    CreditThresh = 1
    Flow <- TheFlow
    HostConnects = FALSE
    HostBytes = 3
    GuestBytes = 3
    GuestBuf = 1
    HostCap = 4
    RxBufs = 1
    RxSpace = 1
    TxSlots = 1
    HostMayShut = FALSE
SPECIFICATION FairSpec
PROPERTIES
    ToGuestProgress
    ToHostProgress
CHECK_DEADLOCK FALSE
