SPECIFICATION DistSpec
\* Requests end when the ids and the clock are used up.
CHECK_DEADLOCK FALSE
CONSTANTS
    Policy <- MCPolicy
    NoPolicy = NoPolicy
    Absent = Absent
    Corrupt = Corrupt
    Jersey2 = FALSE
    CacheConfigured = FALSE
    SaveAsConfigured = FALSE
    SaveFaults = FALSE
    Name = {n1, n2}
    Perm = {p1}
    Request = {r1, r2}
    NoRow = NoRow
    Idle = Idle
    MaxId = 2
    MaxTime = 2
    LongCacheMax = 127
    GrantsSupported = TRUE
CONSTRAINT Timely
ACTION_CONSTRAINT AgentFirst
VIEW Polling
SYMMETRY Symmetry
INVARIANTS
    AdminTypeOK
    NoDuplicateNames
    KeptPolicyIsCurrent
PROPERTIES
    LastUpdatedAdvances
