SPECIFICATION SyncSpec
\* The thread sleeps for ever once the files change no more.
CHECK_DEADLOCK FALSE
CONSTANTS
    u1 = u1
    s1 = s1
    g1 = g1
    g2 = g2
    User = {u1, s1}
    Group = {g1, g2}
    System = {s1}
    GroupContent <- MCGroupContent
    PasswdContent <- MCPasswdContent
    NoLine = NoLine
    Unknown = Unknown
    NoGroup = NoGroup
    MaxChanges = 2
    MaxFailures = 0
    MaxRestarts = 1
INVARIANTS
    GroupsAreSynced
