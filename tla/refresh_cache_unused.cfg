\* The watcher thread may end with an exception, after which nothing moves.
CHECK_DEADLOCK FALSE
SPECIFICATION RefreshSpec
CONSTANTS
    Policy <- MCPolicy
    NoPolicy = NoPolicy
    Absent = Absent
    Corrupt = Corrupt
    Jersey2 = FALSE
    CacheConfigured = TRUE
    SaveAsConfigured = FALSE
    SaveFaults = FALSE
    MaxRestarts = 1
    MaxTroubles = 1
INVARIANTS
    CachedPolicyIsUsed
