SPECIFICATION Spec
CONSTANTS
    Accounts = {a1, a2}
    OrderIds = {o1}
    Clients = {c1}
    None = None
    Deletable = {a2}
    Modifiable = FALSE
    MaxTies = 0
    MaxFaults = 1
INVARIANTS
    TypeOK
    ShippedHasShippingId
    CreatedHasCard
    HistoryStartsWithCreation
CHECK_DEADLOCK FALSE
