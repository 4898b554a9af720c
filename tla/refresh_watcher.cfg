\* The watcher thread may end with an exception, after which nothing moves.
CHECK_DEADLOCK FALSE
SPECIFICATION FairRefreshSpec
CONSTANTS
    Policy <- MCPolicy
    NoPolicy = NoPolicy
    Absent = Absent
    Corrupt = Corrupt
    Jersey2 = FALSE
    CacheConfigured = TRUE
    SaveAsConfigured = FALSE
    SaveFaults = FALSE
    MaxRestarts = 1
    MaxTroubles = 2
INVARIANTS
    RefreshTypeOK
    EpochMatchesContainer
    NoWatcherNoPolicy
    CacheIntact
PROPERTIES
    NoRollback
    AcceptedIsSavedAndEnforced
    PublishedIsEnforcedOrCached
