SPECIFICATION Spec
CONSTANTS
    Accounts = {a1}
    OrderIds = {o1, o2}
    Clients = {c1, c2}
    None = None
    Deletable = {}
    Modifiable = FALSE
    MaxTies = 1
    MaxFaults = 0
SYMMETRY ClientSymmetry
INVARIANTS
    OneCardPerOrder
    ManufacturedOnce
PROPERTY
    FollowsLifecycle
CHECK_DEADLOCK FALSE
