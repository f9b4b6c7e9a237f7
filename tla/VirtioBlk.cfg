CONSTANTS
    Capacity = 2
    MaxLen = 2
    DirectAlign = 2
    Zero = 0
    Old = 8
    Junk = 9
    RQ = rq
    FLUSH = flush
    RO = ro
    V1 = v1
    Spans <- TheSpans
    MaxOffset = 4
    MaxReqs = 2
    MaxResets = 1
SPECIFICATION FairSpec
CHECK_DEADLOCK FALSE
INVARIANTS RequestsConserved AtMostOneStale UsedIsSignalled AnswerTellsTruth FlushIsDurable
PROPERTIES OnlyWritesChangeDisk RequestsComplete
