SPECIFICATION Spec
CONSTANTS
    Accounts = {a1}
    OrderIds = {o1, o2}
    Clients = {c1, c2}
    None = None
    Deletable = {}
    Modifiable = FALSE
    MaxTies = 0
    MaxFaults = 0
INVARIANT
    OneOrderPerAccount
CHECK_DEADLOCK FALSE
