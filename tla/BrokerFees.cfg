SPECIFICATION Spec
CONSTANTS
    owner = owner
    ann = ann
    bob = bob
    c1 = c1
    c2 = c2
    None = None
    Accounts <- MCAccounts
    Owner = owner
    Instruments = {tea}
    Clients = {c1, c2}
    Serves <- MCDisjoint
    Opening <- MCOpening
    Stock <- MCStock
    Newcomers = {}
    Amounts <- MCAmounts
    Prices = {1, 2}
    Sums <- MCSums
    Ppt = 2
    MaxRequests = 2
CHECK_DEADLOCK FALSE
INVARIANT EveryFeeCollected
