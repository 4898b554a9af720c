SPECIFICATION DistSpec
\* Requests end when the ids and the clock are used up.
CHECK_DEADLOCK FALSE
CONSTANTS
    Policy <- MCPolicy
    NoPolicy = NoPolicy
    Absent = Absent
    Corrupt = Corrupt
    Jersey2 = FALSE
    CacheConfigured = FALSE
    SaveAsConfigured = FALSE
    SaveFaults = FALSE
    Name = {n1}
    Perm = {p1}
    Request = {r1}
    NoRow = NoRow
    Idle = Idle
    MaxId = 1
    MaxTime = 3
    LongCacheMax = 127
    GrantsSupported = TRUE
INVARIANTS
    NotModifiedIsTrue
