SPECIFICATION Spec
CONSTANTS
    Accounts = {a1}
    OrderIds = {o1}
    Clients = {c1, c2}
    None = None
    Deletable = {}
    Modifiable = TRUE
    MaxTies = 0
    MaxFaults = 0
INVARIANT
    StatusesAscend
CHECK_DEADLOCK FALSE
