SPECIFICATION EditorSpec
CONSTANTS
    Group = {g1, g2}
    User = {u1}
    Perm = {read, write}
    AdminPerm = NoPerm
    Admin = {a1}
    Request = {q1}
    MaxRows = 2
    MaxEdits = 2
    MaxAsked = 1
    MaxCopies = 2
    New = New
    Stored = Stored
    Closed = Closed
    Idle = Idle
SYMMETRY Symmetry
CONSTRAINT Bounded
INVARIANTS
    EditorTypeOK
    NoDuplicateMaps
    NothingHalfFilledIsSaved
    SavedPolicyDoesSomething
PROPERTIES
    RevokeTakesAway
    ImplementsPermissions
