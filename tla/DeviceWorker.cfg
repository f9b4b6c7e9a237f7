CONSTANTS
    Callers = {a, b, c}
    HasDisk = TRUE
    MaxWorkers = 3
    MayFail = TRUE
SPECIFICATION FairSpec
INVARIANTS SlotIsOwned OneWorkerPerDisk DiskComesBack NoWorkerIsForgotten
PROPERTY StopReturnsUnlessRestarted
