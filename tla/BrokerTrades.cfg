SPECIFICATION Spec
CONSTANTS
    owner = owner
    ann = ann
    bob = bob
    c1 = c1
    c2 = c2
    None = None
    Accounts <- MCAccounts
    Owner = owner
    Instruments = {tea}
    Clients = {c1, c2}
    Serves <- MCServes
    Opening <- MCOpening
    Stock <- MCStock
    Newcomers = {ann}
    Amounts <- MCAmounts
    Prices = {1, 2}
    Sums <- MCSums
    Ppt = 2
    MaxRequests = 3
CHECK_DEADLOCK FALSE
INVARIANTS TypeOK NoShortSelling NobodyOverdrawn LossIsVisible NothingInvented OneRowEach
PROPERTY ImplementsExchange
