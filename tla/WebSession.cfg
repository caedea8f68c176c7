SPECIFICATION Spec
CONSTANTS
    Users = {u1, u2}
    NoUser = NoUser
    Visited <- MCVisited
    Slots = {s1}
    MaxWrites = 1
    MaxLogouts = 2
    Mixed = FALSE
SYMMETRY Symmetry
INVARIANTS
    TypeOK
    LogoutForgets
    OwnData
    FreshIsRecent
    NobodyWaitsInVain
CHECK_DEADLOCK FALSE
