CONSTANTS
    TX = tx
    RX = rx
    Queues = {tx, rx}
    LowFeatures = {legacy}
    HighFeatures = {v1}
    DeviceFeatures = {v1}
    Version1 = v1
    MaxTx = 2
    MaxRx = 2
    MaxFrames = 2
    MaxResets = 1
    TapCap = 1
SPECIFICATION Spec
INVARIANTS TxBuffersConserved TxInOrder RxInOrder TxUsedIsSignalled
CHECK_DEADLOCK FALSE
