CONSTANTS
    FifoSize = 3
    ReplyLen = 2
    StdinBytes = 3
    Queries = 2
    AutoReply = TRUE
SPECIFICATION FairSpec
INVARIANTS InputInOrder ReplyInOnePiece
PROPERTY StopEndsWorker
CHECK_DEADLOCK FALSE
