SPECIFICATION Spec
CONSTANTS
    Accounts = {a1}
    OrderIds = {o1}
    Clients = {c1, c2}
    None = None
    Deletable = {a1}
    Modifiable = FALSE
    MaxTies = 0
    MaxFaults = 0
INVARIANT
    DeletedWhole
CHECK_DEADLOCK FALSE
