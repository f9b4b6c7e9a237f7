CONSTANTS
    TX = tx
    RX = rx
    Queues = {tx, rx}
    LowFeatures = {}
    HighFeatures = {v1}
    DeviceFeatures = {v1}
    Version1 = v1
    MaxTx = 2
    MaxRx = 1
    MaxFrames = 1
    MaxResets = 1
    TapCap = 1
SPECIFICATION FairSpec
PROPERTIES TxMovesOn HeldRxMovesOn
CHECK_DEADLOCK FALSE
