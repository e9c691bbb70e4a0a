\* Up to three retries; every pair of backoffs of a 4-bit duration.
SPECIFICATION MCSpec
CONSTANTS
    MaxInt64 = 7
    MaxBlockWindow = 50
INVARIANTS
    BackoffSchedule
    RetriesExact
    StopsOnlyWhenCanceled
PROPERTIES
    KeepsPolling
    StartupResolves
    CancelStops
CHECK_DEADLOCK FALSE
