SPECIFICATION Spec
CONSTANTS
    Workers = {w1}
    Visits = {"deposit_and_buy_success", "deposit_and_long_buy_success", "deposit_and_long_buy_timeout", "deposit_and_long_buy_error", "sell_and_withdraw_success", "long_sell_success", "long_sell_timeout", "long_sell_error", "order_credit_card"}
    Deposits = {2}
    Prices = {1, 2}
    AssetSellShare = 2
    WithdrawMinValue = 1
    FirstBalance = 0
    FirstOwned = 1
    MaxBalance = 2
    MaxOwned = 2
INVARIANT TypeOK
PROPERTIES
    OrdersAreAsNamed
    RevokesActive
    VisitsEnd
    RareVisitsStart
