CONSTANTS
    FifoSize = 2
    ReplyLen = 2
    StdinBytes = 3
    Queries = 0
    AutoReply = FALSE
SPECIFICATION Spec
INVARIANT SpaceWakesWorker
CHECK_DEADLOCK FALSE
