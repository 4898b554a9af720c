SPECIFICATION EditorSpec
CONSTANTS
    Group = {g1, g2}
    User = {}
    Perm = {read, write}
    AdminPerm = NoPerm
    Admin = {a1}
    Request = {q1}
    MaxRows = 2
    MaxEdits = 0
    MaxAsked = 1
    MaxCopies = 2
    New = New
    Stored = Stored
    Closed = Closed
    Idle = Idle
SYMMETRY Symmetry
CONSTRAINT Bounded
PROPERTIES
    SavedAsShown
