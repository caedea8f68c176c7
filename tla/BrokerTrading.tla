--------------------------- MODULE BrokerTrading ---------------------------
(***************************************************************************)
(* broker-service: deposits, withdrawals and quick trades.                 *)
(*                                                                         *)
(* A request reads the rows it needs one by one, decides on what it has    *)
(* read, and writes absolute values in one transaction at its end.  Reads  *)
(* take no lock that outlives them (READ COMMITTED) and no row carries a   *)
(* version, so what is written may rest on values replaced meanwhile.      *)
(* Entity Framework hands out one object per row and request: a row read   *)
(* twice shows the request its own changes.                                *)
(*                                                                         *)
(* Money and amounts are integers; rounding to DECIMAL(18,8) is left out.  *)
(***************************************************************************)
EXTENDS Integers, Sequences, FiniteSets, Functions

CONSTANTS
    Accounts,     \* accounts with a row in Balance
    Owner,        \* Constants.OwnerId: the account that collects the fees
    Instruments,
    Clients,      \* requests that may be in flight at a time
    Serves,       \* the accounts each client works for
    Opening,      \* the balance of each account at the start
    Stock,        \* what each account owns of an instrument at the start
    Newcomers,    \* accounts without rows in Ownedinstruments (signed up)
    Amounts,      \* amounts of an instrument asked for in trades
    Prices,       \* prices pricing-service may answer with
    Sums,         \* sums asked for in deposits and withdrawals
    Ppt,          \* the fee of a trade (Product.Ppt, price per transaction)
    None,         \* no account, no instrument
    MaxRequests   \* bound on the requests ever accepted

ASSUME OwnerIsAccount   == Owner \in Accounts
ASSUME ServesAccounts   == Serves \in [Clients -> SUBSET Accounts]
ASSUME OpeningsCovered  == Opening \in [Accounts -> Nat] /\ Stock \in [Accounts -> Nat]
ASSUME NumbersOK        == Amounts \subseteq Int /\ Prices \subseteq Nat /\ Sums \subseteq Int
ASSUME FeeIsNatural     == Ppt \in Nat
ASSUME RequestsAreFinite == MaxRequests \in Nat

VARIABLES
    balance,      \* table Balance: Value of each account
    entries,      \* table BalanceHistory: the rows of each account, by Id
    owned,        \* table Ownedinstruments: quantities of the rows of an account and instrument
    trades,       \* table Trades: the rows, by Id
    request,      \* the request of each client, with the objects it tracks
    accepted      \* requests accepted so far (bounded by MaxRequests)

tables == <<balance, entries, owned, trades>>
vars == <<tables, request, accepted>>

----------------------------------------------------------------------------
Transfers   == {"deposit", "withdraw"}
QuickTrades == {"buy", "sell"}

Idle == [pc |-> "idle", op |-> "deposit", account |-> Owner, instrument |-> None, amount |-> 0,
         price |-> 0, balance |-> 0, owner |-> 0, row |-> 0, quantity |-> 0]

(* Mutant: the entry is built after the balance has changed. *)
LateEntry(action, old, change) == [action |-> action, old |-> old + change, change |-> change]

(* A row of BalanceHistory: the action, the balance before it, the change *)
Entry(action, old, change) == [action |-> action, old |-> old, change |-> change]

Init ==
    /\ balance = Opening
    /\ entries = [a \in Accounts |-> << >>]
    /\ owned = [a \in Accounts |-> [i \in Instruments |->
                    IF a \in Newcomers THEN << >> ELSE <<Stock[a]>>]]
    /\ trades = << >>
    /\ request = [c \in Clients |-> Idle]
    /\ accepted = 0

(* GetBalanceOfAccount, the first read of every request *)
Accept(c, op, a, i, amount, price, pc) ==
    /\ request[c].pc = "idle"
    /\ accepted < MaxRequests
    /\ a \in Serves[c]
    /\ amount >= 0
    /\ request' = [request EXCEPT ![c] =
            [pc |-> pc, op |-> op, account |-> a, instrument |-> i, amount |-> amount,
             price |-> price, balance |-> balance[a], owner |-> 0, row |-> 0, quantity |-> 0]]
    /\ accepted' = accepted + 1
    /\ UNCHANGED tables

----------------------------------------------------------------------------
(* BalanceService.ModifyBalance *)

(* Balance.Deposit or Balance.Withdraw on the object just read *)
ModifyBalance(c, op, a, sum) ==
    /\ op = "withdraw" => sum <= balance[a]
    /\ Accept(c, op, a, None, sum, 0, "ready")

CommitTransfer(c) ==
    LET r == request[c]
        change == IF r.op = "withdraw" THEN -r.amount ELSE r.amount
    IN
    /\ r.pc = "ready"
    /\ r.op \in Transfers
    /\ balance' = [balance EXCEPT ![r.account] = r.balance + change]
    /\ entries' = [entries EXCEPT ![r.account] = Append(@, Entry(r.op, r.balance, change))]
    /\ request' = [request EXCEPT ![c] = Idle]
    /\ UNCHANGED <<owned, trades, accepted>>

----------------------------------------------------------------------------
(* TradeService.BuyAssets and SellAssets *)

(* Mutant: the fee is left out of the total cost. *)
CoversCost(cash, cost) == cost <= cash

(* totalCost > balance.Value is refused *)
Covers(cash, cost) == cost + Ppt <= cash

(* The price comes from another service, the product never changes. *)
BuyAssets(c, a, i, amount, price) ==
    /\ Covers(balance[a], amount * price)
    /\ Accept(c, "buy", a, i, amount, price, "balance")

SellAssets(c, a, i, amount, price) ==
    Accept(c, "sell", a, i, amount, price, "balance")

(* FirstOrDefault without an order: any of the rows, 0 when there is none *)
SomeRow(a, i) == IF owned[a][i] = << >> THEN {0} ELSE 1..Len(owned[a][i])
QuantityOf(a, i, row) == IF row = 0 THEN 0 ELSE owned[a][i][row]

(* Mutant: what the account owns is checked over all its rows. *)
EnoughInAll(a, i, row, amount) == row # 0 /\ SumFunction(owned[a][i]) >= amount

Enough(a, i, row, amount) == row # 0 /\ QuantityOf(a, i, row) >= amount

(* GetOwnedInstrument: before the transaction in a sale, in it in a purchase *)
FindOwnedInstrument(c) ==
    LET r == request[c] IN
    /\ r.op \in QuickTrades
    /\ r.pc = IF r.op = "sell" THEN "balance" ELSE "collecting"
    /\ \E row \in SomeRow(r.account, r.instrument) :
        request' = [request EXCEPT ![c] =
            IF r.op = "buy" \/ Enough(r.account, r.instrument, row, r.amount)
            THEN [pc |-> IF r.op = "sell" THEN "owned" ELSE "ready",
                  op |-> r.op, account |-> r.account, instrument |-> r.instrument,
                  amount |-> r.amount, price |-> r.price, balance |-> r.balance,
                  owner |-> r.owner, row |-> row,
                  quantity |-> QuantityOf(r.account, r.instrument, row)]
            ELSE Idle]
    /\ UNCHANGED <<tables, accepted>>

(* Mutant: CollectFee saves the owner's balance on its own. *)
CollectFeeAtOnce(c) ==
    LET r == request[c] IN
    /\ r.op \in QuickTrades
    /\ r.pc = IF r.op = "sell" THEN "owned" ELSE "balance"
    /\ request' = [request EXCEPT ![c].pc = IF r.op = "sell" THEN "ready" ELSE "collecting",
                                  ![c].owner = balance[Owner]]
    /\ balance' = [balance EXCEPT ![Owner] = @ + Ppt]
    /\ UNCHANGED <<entries, owned, trades, accepted>>

(* The read of CollectFee, in the transaction *)
CollectFee(c) ==
    LET r == request[c] IN
    /\ r.op \in QuickTrades
    /\ r.pc = IF r.op = "sell" THEN "owned" ELSE "balance"
    /\ request' = [request EXCEPT ![c].pc = IF r.op = "sell" THEN "ready" ELSE "collecting",
                                  ![c].owner = balance[Owner]]
    /\ UNCHANGED <<tables, accepted>>

(* Mutant: a purchase always adds a row. *)
AddRow(rows, r) ==
    IF r.op = "sell" THEN [rows EXCEPT ![r.row] = r.quantity - r.amount]
    ELSE Append(rows, r.amount)

(* Mutant: a row that a sale has emptied is deleted (DeleteOwnedInstrument). *)
StoreOrDropRow(rows, r) ==
    LET change == IF r.op = "sell" THEN -r.amount ELSE r.amount IN
    IF r.row = 0 THEN Append(rows, change)
    ELSE IF r.op = "sell" /\ r.quantity = r.amount
         THEN [n \in 1..Len(rows) - 1 |-> IF n < r.row THEN rows[n] ELSE rows[n + 1]]
         ELSE [rows EXCEPT ![r.row] = r.quantity + change]

(* UpdateOwnedInstrument: a new row, or the tracked one overwritten *)
StoreRow(rows, r) ==
    LET change == IF r.op = "sell" THEN -r.amount ELSE r.amount IN
    IF r.row = 0 THEN Append(rows, change) ELSE [rows EXCEPT ![r.row] = r.quantity + change]

(* What a sale brings and what a purchase costs, without the fee *)
Income(r) == IF r.op = "sell" THEN r.amount * r.price ELSE -(r.amount * r.price)

(* The owner's balance as CollectFee sees it: the owner's own trade is in it. *)
OwnerNow(r) == IF r.account = Owner THEN r.balance + Income(r) - Ppt ELSE r.owner

(* UpdateBalance, and SaveChangesOrRollback without an error *)
CommitTrade(c) ==
    LET r == request[c]
        settled == [balance EXCEPT ![r.account] = r.balance + Income(r) - Ppt]
        booked == [entries EXCEPT ![r.account] =
                    @ \o <<Entry(r.op, r.balance, Income(r)),
                           Entry("transactionfee", r.balance + Income(r), -Ppt)>>]
    IN
    /\ r.pc = "ready"
    /\ r.op \in QuickTrades
    /\ balance' = [settled EXCEPT ![Owner] = OwnerNow(r) + Ppt]
    /\ entries' = [booked EXCEPT ![Owner] = Append(@, Entry("collectfee", OwnerNow(r), Ppt))]
    /\ owned' = [owned EXCEPT ![r.account][r.instrument] = StoreRow(owned[r.account][r.instrument], r)]
    /\ trades' = Append(trades, [account |-> r.account, instrument |-> r.instrument,
                                 direction |-> r.op, quantity |-> r.amount, price |-> r.price])
    /\ request' = [request EXCEPT ![c] = Idle]
    /\ UNCHANGED accepted

----------------------------------------------------------------------------
(* Mutant: the balance was saved before the transaction began. *)
RollbackPartly(c) ==
    LET r == request[c] IN
    /\ r.pc # "idle"
    /\ balance' = IF r.pc = "ready" /\ r.op = "buy"
                  THEN [balance EXCEPT ![r.account] = r.balance - r.amount * r.price - Ppt]
                  ELSE balance
    /\ request' = [request EXCEPT ![c] = Idle]
    /\ UNCHANGED <<entries, owned, trades, accepted>>

(* Any exception before the commit, the rollback of SaveChangesOrRollback, *)
(* the problem pattern db_not_responding, or a restart of the service: the *)
(* transaction of the request leaves nothing behind.                       *)
Rollback(c) ==
    /\ request[c].pc # "idle"
    /\ request' = [request EXCEPT ![c] = Idle]
    /\ UNCHANGED <<tables, accepted>>

Next ==
    \E c \in Clients :
        \/ \E op \in Transfers, a \in Accounts, sum \in Sums : ModifyBalance(c, op, a, sum)
        \/ CommitTransfer(c)
        \/ \E a \in Accounts, i \in Instruments, amount \in Amounts, price \in Prices :
                BuyAssets(c, a, i, amount, price) \/ SellAssets(c, a, i, amount, price)
        \/ FindOwnedInstrument(c)
        \/ CollectFee(c)
        \/ CommitTrade(c)
        \/ Rollback(c)

Spec == Init /\ [][Next]_vars

----------------------------------------------------------------------------
Rows(a, i) == DOMAIN owned[a][i]

RequestType ==
    [pc : {"idle", "balance", "owned", "collecting", "ready"}, op : Transfers \union QuickTrades,
     account : Accounts, instrument : Instruments \union {None}, amount : Nat, price : Nat,
     balance : Int, owner : Int, row : Nat, quantity : Int]

EntryType == [action : Transfers \union QuickTrades \union {"transactionfee", "collectfee"},
              old : Int, change : Int]
TradeType == [account : Accounts, instrument : Instruments, direction : QuickTrades,
              quantity : Nat, price : Nat]

(* The tables and the tracked objects keep their types, and the row a request *)
(* tracks is still there when the request overwrites it: no row of            *)
(* Ownedinstruments is ever deleted.                                          *)
TypeOK ==
    /\ balance \in [Accounts -> Int]
    /\ entries \in [Accounts -> Seq(EntryType)]
    /\ trades \in Seq(TradeType)
    /\ owned \in [Accounts -> [Instruments -> Seq(Int)]]
    /\ request \in [Clients -> RequestType]
    /\ \A c \in Clients : request[c].op \in QuickTrades =>
            /\ request[c].instrument \in Instruments
            /\ request[c].row \in {0} \union Rows(request[c].account, request[c].instrument)
    /\ accepted \in 0..MaxRequests

(* SellAssets checks the row it will overwrite: no row of an instrument ever *)
(* holds less than nothing, whatever was bought and sold meanwhile and       *)
(* however many rows the account has.                                        *)
NoShortSelling ==
    \A a \in Accounts, i \in Instruments : \A row \in Rows(a, i) : owned[a][i][row] >= 0

SoldAtALoss(a) ==
    \E n \in DOMAIN trades : /\ trades[n].account = a
                             /\ trades[n].direction = "sell"
                             /\ trades[n].quantity * trades[n].price < Ppt

(* BuyAssets and Withdraw check the balance they will overwrite: an account  *)
(* is overdrawn only if it has sold for less than the fee (SellAssets does   *)
(* not check that), even if its requests overlap.                            *)
NobodyOverdrawn == \A a \in Accounts : SoldAtALoss(a) \/ balance[a] >= 0

LastEntry(a) == entries[a][Len(entries[a])]

Chained(a) == \A n \in DOMAIN entries[a] :
    entries[a][n].old = IF n = 1 THEN Opening[a] ELSE entries[a][n-1].old + entries[a][n-1].change

Changes(a) == SumFunction([n \in DOMAIN entries[a] |-> entries[a][n].change])

(* BalanceHistory accounts for every balance: the last entry leads to it, and *)
(* where the balance is not the sum of the changes an update was lost and the *)
(* entries show the gap.                                                      *)
LossIsVisible ==
    \A a \in Accounts :
        /\ entries[a] # << >> => balance[a] = LastEntry(a).old + LastEntry(a).change
        /\ Chained(a) => balance[a] = Opening[a] + Changes(a)

Positive(n) == IF n > 0 THEN n ELSE 0
Credits(a) == SumFunction([n \in DOMAIN entries[a] |-> Positive(entries[a][n].change)])
Debits(a)  == SumFunction([n \in DOMAIN entries[a] |-> Positive(-entries[a][n].change)])

(* Overlapping requests lose updates and make up none: no balance, the        *)
(* owner's with its fees included, leaves the range its entries allow, and a  *)
(* request that is rolled back leaves no trace in it.                         *)
NothingInvented ==
    \A a \in Accounts : balance[a] \in Opening[a] - Debits(a) .. Opening[a] + Credits(a)

(* Accounts whose requests never overlap, and that collect no fees *)
Exclusive ==
    {a \in Accounts \ {Owner} : \E c \in Clients : \A d \in Clients : a \in Serves[d] <=> d = c}

(* UpdateOwnedInstrument adds a row only where GetOwnedInstrument found none: *)
(* an account whose requests do not overlap has one row of an instrument, as  *)
(* the dictionary by instrument of InstrumentService needs.                   *)
OneRowEach == \A a \in Exclusive, i \in Instruments : Cardinality(Rows(a, i)) <= 1

(* For an account that has one request at a time every deposit, withdrawal    *)
(* and trade is atomic and covered, whatever other accounts do, whatever is   *)
(* rolled back: the detailed model implements AtomicExchange.                 *)
Exchange == INSTANCE AtomicExchange WITH
    Accounts <- Exclusive,
    Amounts  <- Amounts \intersect Nat,
    Sums     <- Sums \intersect Nat,
    cash     <- [a \in Exclusive |-> balance[a]],
    holding  <- [a \in Exclusive |-> [i \in Instruments |-> SumFunction(owned[a][i])]]

ImplementsExchange == Exchange!ExchangeSpec

(* The owner account gets the fee of every trade (TradeTests.cs:70). *)
EveryFeeCollected ==
    (\A c \in Clients : Owner \notin Serves[c])
        => balance[Owner] = Opening[Owner] + Ppt * Len(trades)
=============================================================================
