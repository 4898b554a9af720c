\* The watcher thread may end with an exception, after which nothing moves.
CHECK_DEADLOCK FALSE
SPECIFICATION FairRefreshSpec
CONSTANTS
    Policy <- MCPolicy
    NoPolicy = NoPolicy
    Absent = Absent
    Corrupt = Corrupt
    Jersey2 = TRUE
    CacheConfigured = TRUE
    SaveAsConfigured = TRUE
    SaveFaults = TRUE
    MaxRestarts = 1
    MaxTroubles = 1
INVARIANTS
    RefresherFollowsWatcher
    CachedPolicyIsUsed
PROPERTIES
    PublishedIsEnforced
