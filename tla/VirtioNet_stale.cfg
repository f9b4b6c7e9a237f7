CONSTANTS
    TX = tx
    RX = rx
    Queues = {tx, rx}
    LowFeatures = {}
    HighFeatures = {v1}
    DeviceFeatures = {v1}
    Version1 = v1
    MaxTx = 1
    MaxRx = 0
    MaxFrames = 0
    MaxResets = 1
    TapCap = 1
SPECIFICATION Spec
INVARIANT NoHeadLeaks
CHECK_DEADLOCK FALSE
