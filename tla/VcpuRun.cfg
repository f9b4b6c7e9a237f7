CONSTANTS
    NumVcpus = 3
    NumDevices = 2
    ExitOnHlt = TRUE
SPECIFICATION FairSpec
CHECK_DEADLOCK FALSE
INVARIANTS TypeOK RegistryIsLive OkMeansStop KickHasHandler CleanReturn FirstErrorReported
PROPERTIES KickedVcpuLeaves OnlyMissedKickBlocks
