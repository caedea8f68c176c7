SPECIFICATION FairSpec
CONSTANTS
    Accounts = {a1}
    OrderIds = {o1, o2}
    Clients = {c1, c2}
    None = None
    Deletable = {}
    Modifiable = TRUE
    MaxTies = 0
    MaxFaults = 0
PROPERTIES
    OrderDelivered
    ListsDrain
INVARIANT OnlyLateOrderedDescends
CHECK_DEADLOCK FALSE
