SPECIFICATION NameNodeSpec
CONSTANTS
    Handler = {h1, h2}
    u1 = u1
    u2 = u2
    g1 = g1
    User = {u1, u2}
    Public = public
    GroupsOf <- MCGroupsOf
    NoContainer = NoContainer
    Path <- MCPath
    Container <- MCContainer
    NoFlag = NoFlag
    MaxEntries = 0
    Action = {"READ_WRITE"}
    AccessTypes <- MCAccessTypes
    InodePath <- MCInodePath
    ExcludedUser = {u2}
    NoEvent = NoEvent
    MaxChecks = 2
    MaxRequests = 2
SYMMETRY Symmetry
CHECK_DEADLOCK FALSE
INVARIANTS
    NameNodeTypeOK
    FreshUnlessRaced
    CacheBounded
    GrantedByThePolicy
    AuditTellsWhatHappened
    MatchersAgree
