\* Up to two requests in progress, zero, one or three retries.
SPECIFICATION FairSpec
CONSTANTS
    MaxInt64 = 127
    MaxBlockWindow = 50
    Files <- MCFiles
    Environments <- MCEnvironments
    LogLevels = {"info", "warn"}
    MaxRequests = 2
INVARIANTS
    NoSilentStop
    ErrorIsTheCause
    ClientsOutliveIndexer
    RequestsDrainFirst
    LoadedConfigRuns
PROPERTIES
    ServicesStopTogether
CHECK_DEADLOCK FALSE
