------------------------ MODULE BrokerTrading_proofs ------------------------
(* Invariance proofs for BrokerTrading, for every set of accounts, clients, *)
(* amounts, prices and sums and every fee.                                  *)
EXTENDS BrokerTrading, SequenceTheorems, FiniteSetTheorems, WellFoundedInduction, TLAPS

----------------------------------------------------------------------------
(* Types *)

LEMMA InitType == Init => TypeOK
  <1>. SUFFICES ASSUME Init PROVE TypeOK
    OBVIOUS
  <1>. USE OwnerIsAccount, OpeningsCovered, RequestsAreFinite DEF Init
  <1>1. balance \in [Accounts -> Int] /\ entries \in [Accounts -> Seq(EntryType)]
        /\ trades \in Seq(TradeType) /\ accepted \in 0..MaxRequests
    OBVIOUS
  <1>2. owned \in [Accounts -> [Instruments -> Seq(Int)]]
    <2>1. \A a \in Accounts : <<Stock[a]>> \in Seq(Int) /\ << >> \in Seq(Int)
      OBVIOUS
    <2>. QED
      BY <2>1
  <1>3. request \in [Clients -> RequestType]
    BY DEF Idle, RequestType, Transfers
  <1>4. \A c \in Clients : request[c].op \notin QuickTrades
    BY DEF Idle, QuickTrades
  <1>. QED
    BY <1>1, <1>2, <1>3, <1>4 DEF TypeOK

LEMMA IdleType == Idle \in RequestType /\ Idle.op \notin QuickTrades
  BY OwnerIsAccount DEF Idle, RequestType, Transfers, QuickTrades

LEMMA AcceptType ==
    ASSUME TypeOK, NEW c \in Clients, NEW op \in Transfers \union QuickTrades, NEW a \in Accounts,
           NEW i \in Instruments \union {None}, NEW amount \in Int, NEW price \in Nat,
           NEW pc \in {"balance", "ready"}, Accept(c, op, a, i, amount, price, pc),
           op \in QuickTrades => i \in Instruments
    PROVE  TypeOK'
  <1>1. request'[c] \in RequestType /\ request'[c].row = 0
        /\ request'[c].op = op /\ request'[c].instrument = i
    BY DEF Accept, TypeOK, RequestType
  <1>2. request' \in [Clients -> RequestType] /\ \A d \in Clients \ {c} : request'[d] = request[d]
    BY <1>1 DEF Accept, TypeOK
  <1>3. accepted' \in 0..MaxRequests
    BY RequestsAreFinite DEF Accept, TypeOK
  <1>. QED
    BY <1>1, <1>2, <1>3 DEF Accept, TypeOK, tables, Rows

(* What FindOwnedInstrument makes of a request *)
LEMMA FoundRow ==
    ASSUME TypeOK, NEW c \in Clients, FindOwnedInstrument(c)
    PROVE  /\ request[c].op \in QuickTrades
           /\ \/ request' = [request EXCEPT ![c] = Idle]
              \/ \E row \in SomeRow(request[c].account, request[c].instrument) :
                    /\ request[c].op = "sell" =>
                            Enough(request[c].account, request[c].instrument, row, request[c].amount)
                    /\ request' = [request EXCEPT ![c] =
                        [pc |-> IF request[c].op = "sell" THEN "owned" ELSE "ready",
                         op |-> request[c].op, account |-> request[c].account,
                         instrument |-> request[c].instrument, amount |-> request[c].amount,
                         price |-> request[c].price, balance |-> request[c].balance,
                         owner |-> request[c].owner, row |-> row,
                         quantity |-> QuantityOf(request[c].account, request[c].instrument, row)]]
  BY DEF FindOwnedInstrument, QuickTrades

LEMMA ReadType ==
    ASSUME TypeOK, NEW c \in Clients, FindOwnedInstrument(c) \/ CollectFee(c) \/ Rollback(c)
    PROVE  TypeOK'
  <1>. USE DEF TypeOK
  <1>0. request[c] \in RequestType
    OBVIOUS
  <1>1. CASE FindOwnedInstrument(c)
    <2>1. UNCHANGED <<tables, accepted>>
      BY <1>1 DEF FindOwnedInstrument
    <2>2. CASE request' = [request EXCEPT ![c] = Idle]
      BY <2>1, <2>2, IdleType DEF tables, Rows
    <2>3. CASE request' # [request EXCEPT ![c] = Idle]
      <3>1. PICK row \in SomeRow(request[c].account, request[c].instrument) :
                request' = [request EXCEPT ![c] =
                        [pc |-> IF request[c].op = "sell" THEN "owned" ELSE "ready",
                         op |-> request[c].op, account |-> request[c].account,
                         instrument |-> request[c].instrument, amount |-> request[c].amount,
                         price |-> request[c].price, balance |-> request[c].balance,
                         owner |-> request[c].owner, row |-> row,
                         quantity |-> QuantityOf(request[c].account, request[c].instrument, row)]]
        BY <1>1, <2>3, FoundRow
      <3>2. request[c].op \in QuickTrades /\ request[c].account \in Accounts
            /\ request[c].instrument \in Instruments
        BY <1>0, <1>1 DEF FindOwnedInstrument, RequestType
      <3>3. owned[request[c].account][request[c].instrument] \in Seq(Int)
        BY <3>2
      <3>4. row \in Nat /\ row \in {0} \union Rows(request[c].account, request[c].instrument)
            /\ QuantityOf(request[c].account, request[c].instrument, row) \in Int
        BY <3>3 DEF SomeRow, QuantityOf, Rows
      <3>5. request'[c] \in RequestType /\ request'[c].row = row
            /\ request'[c].account = request[c].account
            /\ request'[c].instrument = request[c].instrument
        BY <1>0, <3>1, <3>4 DEF RequestType
      <3>6. request' \in [Clients -> RequestType] /\ \A d \in Clients \ {c} : request'[d] = request[d]
        BY <3>1, <3>5
      <3>. QED
        BY <2>1, <3>2, <3>4, <3>5, <3>6 DEF tables, Rows
    <2>. QED
      BY <2>2, <2>3
  <1>2. CASE CollectFee(c)
    <2>1. balance[Owner] \in Int
      BY OwnerIsAccount
    <2>2. request'[c] \in RequestType /\ request'[c].row = request[c].row
          /\ request'[c].account = request[c].account /\ request'[c].op = request[c].op
          /\ request'[c].instrument = request[c].instrument
      BY <1>0, <1>2, <2>1 DEF CollectFee, RequestType
    <2>3. request' \in [Clients -> RequestType] /\ \A d \in Clients \ {c} : request'[d] = request[d]
      BY <1>2, <2>2 DEF CollectFee
    <2>. QED
      BY <1>2, <2>2, <2>3 DEF CollectFee, tables, Rows
  <1>3. CASE Rollback(c)
    BY <1>3, IdleType DEF Rollback, tables, Rows
  <1>. QED
    BY <1>1, <1>2, <1>3

LEMMA CommitTransferType ==
    ASSUME TypeOK, NEW c \in Clients, CommitTransfer(c)
    PROVE  TypeOK'
  <1>. USE DEF TypeOK
  <1>. DEFINE r == request[c]
             change == IF r.op = "withdraw" THEN -r.amount ELSE r.amount
  <1>1. r \in RequestType
    OBVIOUS
  <1>2. r.account \in Accounts /\ r.balance \in Int /\ change \in Int /\ r.op \in Transfers
    BY <1>1 DEF RequestType, CommitTransfer
  <1>3. Entry(r.op, r.balance, change) \in EntryType
    BY <1>2 DEF Entry, EntryType
  <1>4. balance' = [balance EXCEPT ![r.account] = r.balance + change]
        /\ entries' = [entries EXCEPT ![r.account] = Append(@, Entry(r.op, r.balance, change))]
        /\ request' = [request EXCEPT ![c] = Idle] /\ UNCHANGED <<owned, trades, accepted>>
    BY DEF CommitTransfer
  <1>5. balance' \in [Accounts -> Int]
    BY <1>2, <1>4
  <1>6. entries' \in [Accounts -> Seq(EntryType)]
    <2>. HIDE DEF change
    <2>1. Append(entries[r.account], Entry(r.op, r.balance, change)) \in Seq(EntryType)
      BY <1>2, <1>3
    <2>. QED
      BY <1>4, <2>1
  <1>. QED
    BY <1>4, <1>5, <1>6, IdleType DEF Rows

LEMMA RequestNumbers ==
    ASSUME TypeOK, NEW c \in Clients
    PROVE  /\ request[c].amount \in Nat /\ request[c].price \in Nat
           /\ request[c].amount * request[c].price \in Nat
           /\ request[c].balance \in Int /\ request[c].owner \in Int
           /\ request[c].row \in Nat /\ request[c].quantity \in Int
           /\ request[c].account \in Accounts
           /\ Income(request[c]) \in Int /\ OwnerNow(request[c]) \in Int
  <1>1. request[c] \in RequestType
    BY DEF TypeOK
  <1>2. request[c].amount \in Nat /\ request[c].price \in Nat
    BY <1>1 DEF RequestType
  <1>3. request[c].amount * request[c].price \in Nat
    BY <1>2
  <1>. QED
    BY <1>1, <1>2, <1>3, FeeIsNatural DEF RequestType, Income, OwnerNow

(* UpdateOwnedInstrument removes no row and changes at most the tracked one. *)
LEMMA StoreRowType ==
    ASSUME NEW rows \in Seq(Int), NEW r, r.amount \in Nat, r.quantity \in Int,
           r.row \in {0} \union DOMAIN rows
    PROVE  /\ StoreRow(rows, r) \in Seq(Int)
           /\ DOMAIN rows \subseteq DOMAIN StoreRow(rows, r)
  <1>. DEFINE change == IF r.op = "sell" THEN -r.amount ELSE r.amount
  <1>1. change \in Int
    OBVIOUS
  <1>. HIDE DEF change
  <1>2. StoreRow(rows, r) = IF r.row = 0 THEN Append(rows, change)
                            ELSE [rows EXCEPT ![r.row] = r.quantity + change]
    BY DEF StoreRow, change
  <1>. QED
    BY <1>1, <1>2

LEMMA CommitTradeType ==
    ASSUME TypeOK, NEW c \in Clients, CommitTrade(c)
    PROVE  TypeOK'
  <1>. DEFINE r == request[c]
  <1>1. r.op \in QuickTrades /\ r.instrument \in Instruments /\ r.row \in {0} \union Rows(r.account, r.instrument)
    BY DEF CommitTrade, TypeOK
  <1>2. balance' \in [Accounts -> Int]
    <2>. DEFINE mine == r.balance + Income(r) - Ppt
                owners == OwnerNow(r) + Ppt
    <2>1. mine \in Int /\ owners \in Int
      BY RequestNumbers, FeeIsNatural
    <2>2. balance' = [[balance EXCEPT ![r.account] = mine] EXCEPT ![Owner] = owners]
      BY DEF CommitTrade
    <2>. HIDE DEF mine, owners
    <2>. QED
      BY <2>1, <2>2 DEF TypeOK
  <1>3. entries' \in [Accounts -> Seq(EntryType)]
    <2>. DEFINE bought == <<Entry(r.op, r.balance, Income(r)),
                            Entry("transactionfee", r.balance + Income(r), -Ppt)>>
                fee == Entry("collectfee", OwnerNow(r), Ppt)
                mid == [entries EXCEPT ![r.account] = @ \o bought]
    <2>1. fee \in EntryType /\ bought \in Seq(EntryType)
      <3>1. Entry(r.op, r.balance, Income(r)) \in EntryType
            /\ Entry("transactionfee", r.balance + Income(r), -Ppt) \in EntryType
            /\ fee \in EntryType
        BY <1>1, RequestNumbers, FeeIsNatural DEF Entry, EntryType
      <3>. QED
        BY <3>1
    <2>2. entries' = [mid EXCEPT ![Owner] = Append(@, fee)]
      BY DEF CommitTrade
    <2>. HIDE DEF fee, bought
    <2>3. mid \in [Accounts -> Seq(EntryType)]
      <3>1. r.account \in Accounts /\ entries[r.account] \in Seq(EntryType)
        BY RequestNumbers DEF TypeOK
      <3>2. entries[r.account] \o bought \in Seq(EntryType)
        BY <2>1, <3>1, ConcatProperties
      <3>. QED
        BY <3>1, <3>2 DEF TypeOK
    <2>. HIDE DEF mid
    <2>. QED
      BY <2>1, <2>2, <2>3, OwnerIsAccount
  <1>4. StoreRow(owned[r.account][r.instrument], r) \in Seq(Int)
        /\ Rows(r.account, r.instrument) \subseteq DOMAIN StoreRow(owned[r.account][r.instrument], r)
    <2>. DEFINE rows == owned[r.account][r.instrument]
    <2>1. rows \in Seq(Int)
      BY <1>1, RequestNumbers DEF TypeOK
    <2>2. r.amount \in Nat /\ r.quantity \in Int /\ r.row \in {0} \union DOMAIN rows
      BY <1>1, RequestNumbers DEF Rows
    <2>. QED
      BY <2>1, <2>2, StoreRowType, Zenon DEF Rows
  <1>5. owned' \in [Accounts -> [Instruments -> Seq(Int)]]
        /\ \A a \in Accounts, i \in Instruments : Rows(a, i) \subseteq Rows(a, i)'
    <2>. DEFINE rows == StoreRow(owned[r.account][r.instrument], r)
    <2>1. owned' = [owned EXCEPT ![r.account][r.instrument] = rows]
      BY DEF CommitTrade
    <2>2. r.account \in Accounts /\ r.instrument \in Instruments
      BY <1>1, RequestNumbers
    <2>3. rows \in Seq(Int) /\ DOMAIN owned[r.account][r.instrument] \subseteq DOMAIN rows
      BY <1>4 DEF Rows
    <2>. HIDE DEF rows
    <2>4. \A a \in Accounts, i \in Instruments :
            owned'[a][i] = IF a = r.account /\ i = r.instrument THEN rows ELSE owned[a][i]
      BY <2>1, <2>2 DEF TypeOK
    <2>5. owned' \in [Accounts -> [Instruments -> Seq(Int)]]
      BY <2>1, <2>2, <2>3 DEF TypeOK
    <2>. QED
      BY <2>3, <2>4, <2>5 DEF Rows
  <1>6. trades' \in Seq(TradeType)
    <2>. DEFINE t == [account |-> r.account, instrument |-> r.instrument,
                      direction |-> r.op, quantity |-> r.amount, price |-> r.price]
    <2>1. t \in TradeType
      BY <1>1, RequestNumbers DEF TradeType
    <2>2. trades' = Append(trades, t)
      BY DEF CommitTrade
    <2>. HIDE DEF t
    <2>. QED
      BY <2>1, <2>2 DEF TypeOK
  <1>7. request' = [request EXCEPT ![c] = Idle] /\ accepted' = accepted
    BY DEF CommitTrade
  <1>8. request' \in [Clients -> RequestType]
        /\ (\A d \in Clients : request[d].op \in QuickTrades =>
                /\ request[d].instrument \in Instruments
                /\ request[d].row \in {0} \union Rows(request[d].account, request[d].instrument))'
    <2>1. \A d \in Clients : request'[d] = request[d] \/ request'[d] = Idle
      BY <1>7 DEF TypeOK
    <2>2. \A d \in Clients : request[d].account \in Accounts
      BY RequestNumbers
    <2>. QED
      BY <1>5, <1>7, <2>1, <2>2, IdleType DEF TypeOK
  <1>. QED
    BY <1>2, <1>3, <1>5, <1>6, <1>7, <1>8 DEF TypeOK

LEMMA TypeKept == TypeOK /\ [Next]_vars => TypeOK'
  <1>. SUFFICES ASSUME TypeOK, [Next]_vars PROVE TypeOK'
    OBVIOUS
  <1>1. ASSUME NEW c \in Clients, NEW op \in Transfers, NEW a \in Accounts, NEW sum \in Sums,
               ModifyBalance(c, op, a, sum)
        PROVE  TypeOK'
    BY <1>1, AcceptType, NumbersOK DEF ModifyBalance, Transfers, QuickTrades
  <1>2. ASSUME NEW c \in Clients, NEW a \in Accounts, NEW i \in Instruments, NEW amount \in Amounts,
               NEW price \in Prices, BuyAssets(c, a, i, amount, price) \/ SellAssets(c, a, i, amount, price)
        PROVE  TypeOK'
    BY <1>2, AcceptType, NumbersOK DEF BuyAssets, SellAssets, QuickTrades
  <1>3. CASE UNCHANGED vars
    BY <1>3 DEF vars, tables, TypeOK, Rows
  <1>. QED
    BY <1>1, <1>2, <1>3, ReadType, CommitTransferType, CommitTradeType DEF Next

(* Type correctness: however requests interleave, the row of Ownedinstruments *)
(* that a request has found is still there when CommitTrade overwrites it.    *)
THEOREM TypeCorrect == Spec => []TypeOK
  BY InitType, TypeKept, PTL DEF Spec

----------------------------------------------------------------------------
(* What a request has checked stays true of what it has read, because it is *)
(* about the tracked objects and not about the tables.                      *)

(* A sale tracks a row with enough in it, and no quantity read is negative. *)
RowChecked ==
    \A c \in Clients :
        /\ request[c].quantity >= 0
        /\ request[c].op = "sell" /\ request[c].pc \in {"owned", "ready"} =>
                request[c].row # 0 /\ request[c].quantity >= request[c].amount

StockInv == TypeOK /\ RowChecked /\ NoShortSelling

LEMMA InitStock == Init => StockInv
  <1>. SUFFICES ASSUME Init PROVE StockInv
    OBVIOUS
  <1>1. RowChecked
    BY DEF Init, RowChecked, Idle
  <1>2. NoShortSelling
    BY OpeningsCovered DEF Init, NoShortSelling, Rows
  <1>. QED
    BY <1>1, <1>2, InitType DEF StockInv

LEMMA StockAccept ==
    ASSUME StockInv, NEW c \in Clients, NEW op, NEW a, NEW i, NEW amount, NEW price,
           NEW pc \in {"balance", "ready"}, op = "sell" => pc = "balance",
           Accept(c, op, a, i, amount, price, pc)
    PROVE  RowChecked' /\ NoShortSelling'
  BY DEF StockInv, TypeOK, RowChecked, NoShortSelling, Rows, Accept, tables

LEMMA StockRead ==
    ASSUME StockInv, NEW c \in Clients,
           FindOwnedInstrument(c) \/ CollectFee(c) \/ Rollback(c) \/ CommitTransfer(c)
    PROVE  RowChecked' /\ NoShortSelling'
  <1>. USE DEF StockInv, TypeOK
  <1>0. NoShortSelling'
    BY DEF FindOwnedInstrument, CollectFee, Rollback, CommitTransfer, tables, NoShortSelling, Rows
  <1>1. CASE FindOwnedInstrument(c)
    <2>1. CASE request' = [request EXCEPT ![c] = Idle]
      BY <1>0, <2>1 DEF RowChecked, Idle
    <2>2. CASE request' # [request EXCEPT ![c] = Idle]
      <3>1. PICK row \in SomeRow(request[c].account, request[c].instrument) :
                /\ request[c].op = "sell" =>
                        Enough(request[c].account, request[c].instrument, row, request[c].amount)
                /\ \A d \in Clients \ {c} : request'[d] = request[d]
                /\ request'[c].op = request[c].op /\ request'[c].amount = request[c].amount
                /\ request'[c].row = row
                /\ request'[c].quantity = QuantityOf(request[c].account, request[c].instrument, row)
        BY <1>1, <2>2, FoundRow
      <3>2. request[c].account \in Accounts /\ request[c].instrument \in Instruments
        BY <1>1, RequestNumbers DEF FindOwnedInstrument
      <3>3. request'[c].quantity >= 0
        BY <3>1, <3>2 DEF QuantityOf, SomeRow, NoShortSelling, Rows
      <3>4. request'[c].op = "sell" =>
                request'[c].row # 0 /\ request'[c].quantity >= request'[c].amount
        BY <3>1 DEF Enough
      <3>. QED
        BY <1>0, <3>1, <3>3, <3>4 DEF RowChecked
    <2>. QED
      BY <2>1, <2>2
  <1>2. CASE CollectFee(c)
    <2>1. request'[c].op = request[c].op /\ request'[c].amount = request[c].amount
          /\ request'[c].row = request[c].row /\ request'[c].quantity = request[c].quantity
          /\ (request[c].op = "sell" => request[c].pc = "owned")
      BY <1>2 DEF CollectFee
    <2>2. \A d \in Clients \ {c} : request'[d] = request[d]
      BY <1>2 DEF CollectFee
    <2>. QED
      BY <1>0, <2>1, <2>2 DEF RowChecked
  <1>3. CASE Rollback(c) \/ CommitTransfer(c)
    <2>1. request' = [request EXCEPT ![c] = Idle]
      BY <1>3 DEF Rollback, CommitTransfer
    <2>2. Idle.quantity = 0 /\ Idle.pc = "idle"
      BY DEF Idle
    <2>. QED
      BY <1>0, <2>1, <2>2 DEF RowChecked
  <1>. QED
    BY <1>1, <1>2, <1>3

LEMMA StockCommit ==
    ASSUME StockInv, NEW c \in Clients, CommitTrade(c)
    PROVE  RowChecked' /\ NoShortSelling'
  <1>. USE DEF StockInv
  <1>. DEFINE r == request[c]
             rows == owned[r.account][r.instrument]
  <1>1. r.op \in QuickTrades /\ r.pc = "ready" /\ r.instrument \in Instruments
        /\ r.row \in {0} \union DOMAIN rows
    BY DEF CommitTrade, TypeOK, Rows
  <1>2. rows \in Seq(Int) /\ \A n \in DOMAIN rows : rows[n] >= 0
    BY <1>1, RequestNumbers DEF TypeOK, NoShortSelling, Rows
  <1>3. \A n \in DOMAIN StoreRow(rows, r) : StoreRow(rows, r)[n] >= 0
    <2>. DEFINE change == IF r.op = "sell" THEN -r.amount ELSE r.amount
    <2>1. change \in Int /\ r.quantity + change >= 0 /\ (r.row = 0 => change >= 0)
      BY <1>1, RequestNumbers DEF RowChecked, QuickTrades
    <2>2. StoreRow(rows, r) = IF r.row = 0 THEN Append(rows, change)
                              ELSE [rows EXCEPT ![r.row] = r.quantity + change]
      BY DEF StoreRow
    <2>. HIDE DEF change, rows
    <2>3. CASE r.row = 0
      BY <1>2, <2>1, <2>2, <2>3
    <2>4. CASE r.row # 0
      BY <1>1, <1>2, <2>1, <2>2, <2>4
    <2>. QED
      BY <2>3, <2>4
  <1>4. NoShortSelling'
    <2>1. owned' = [owned EXCEPT ![r.account][r.instrument] = StoreRow(rows, r)]
      BY DEF CommitTrade
    <2>. HIDE DEF rows
    <2>2. \A a \in Accounts, i \in Instruments :
            owned'[a][i] = IF a = r.account /\ i = r.instrument THEN StoreRow(rows, r) ELSE owned[a][i]
      BY <1>1, <2>1, RequestNumbers DEF TypeOK
    <2>. QED
      BY <1>3, <2>2 DEF NoShortSelling, Rows
  <1>. QED
    BY <1>4 DEF CommitTrade, RowChecked, Idle, TypeOK

LEMMA StockKept == StockInv /\ [Next]_vars => StockInv'
  <1>. SUFFICES ASSUME StockInv, [Next]_vars PROVE RowChecked' /\ NoShortSelling'
    BY TypeKept DEF StockInv
  <1>1. ASSUME NEW c \in Clients, NEW op \in Transfers, NEW a \in Accounts, NEW sum \in Sums,
               ModifyBalance(c, op, a, sum)
        PROVE  RowChecked' /\ NoShortSelling'
    BY <1>1, StockAccept DEF ModifyBalance, Transfers
  <1>2. ASSUME NEW c \in Clients, NEW a \in Accounts, NEW i \in Instruments, NEW amount \in Amounts,
               NEW price \in Prices, BuyAssets(c, a, i, amount, price) \/ SellAssets(c, a, i, amount, price)
        PROVE  RowChecked' /\ NoShortSelling'
    BY <1>2, StockAccept DEF BuyAssets, SellAssets
  <1>3. CASE UNCHANGED vars
    BY <1>3 DEF vars, tables, StockInv, RowChecked, NoShortSelling, Rows
  <1>. QED
    BY <1>1, <1>2, <1>3, StockRead, StockCommit DEF Next

(* No row of Ownedinstruments falls below zero: SellAssets overwrites the   *)
(* very row whose quantity it checked, and the quantity it checked is the   *)
(* one it subtracts from, however stale it is by then.                      *)
THEOREM NeverShort == Spec => []NoShortSelling
  <1>1. StockInv => NoShortSelling
    BY DEF StockInv
  <1>. QED
    BY InitStock, StockKept, <1>1, PTL DEF Spec

----------------------------------------------------------------------------
(* A balance that was read may be out of date when the request commits, but *)
(* it was the balance once: not negative, unless the account had sold at a  *)
(* loss by then, and enough for what the request spends of it.              *)
BalanceChecked ==
    \A c \in Clients : LET r == request[c] IN
        /\ SoldAtALoss(r.account) \/ r.balance >= 0
        /\ SoldAtALoss(Owner) \/ r.owner >= 0
        /\ r.op = "withdraw" => r.amount <= r.balance
        /\ r.op = "buy" => Covers(r.balance, r.amount * r.price)

CashInv == TypeOK /\ BalanceChecked /\ NobodyOverdrawn

LEMMA IdleChecked == Idle.balance = 0 /\ Idle.owner = 0 /\ Idle.op = "deposit" /\ Idle.account = Owner
  BY DEF Idle

LEMMA InitCash == Init => CashInv
  <1>. SUFFICES ASSUME Init PROVE CashInv
    OBVIOUS
  <1>1. BalanceChecked
    BY IdleChecked DEF Init, BalanceChecked
  <1>2. NobodyOverdrawn
    BY OpeningsCovered DEF Init, NobodyOverdrawn
  <1>. QED
    BY <1>1, <1>2, InitType DEF CashInv

LEMMA CashAccept ==
    ASSUME CashInv, NEW c \in Clients, NEW op, NEW a \in Accounts, NEW i, NEW amount, NEW price,
           NEW pc, op = "withdraw" => amount <= balance[a],
           op = "buy" => Covers(balance[a], amount * price),
           Accept(c, op, a, i, amount, price, pc)
    PROVE  BalanceChecked' /\ NobodyOverdrawn'
  <1>1. trades' = trades /\ balance' = balance
    BY DEF Accept, tables
  <1>2. request'[c].account = a /\ request'[c].balance = balance[a] /\ request'[c].owner = 0
        /\ request'[c].op = op /\ request'[c].amount = amount /\ request'[c].price = price
    BY DEF Accept, CashInv, TypeOK
  <1>3. \A d \in Clients \ {c} : request'[d] = request[d]
    BY DEF Accept, CashInv, TypeOK
  <1>4. SoldAtALoss(a) \/ balance[a] >= 0
    BY DEF CashInv, NobodyOverdrawn
  <1>. QED
    BY <1>1, <1>2, <1>3, <1>4 DEF CashInv, BalanceChecked, NobodyOverdrawn, SoldAtALoss, Covers

LEMMA CashRead ==
    ASSUME CashInv, NEW c \in Clients, FindOwnedInstrument(c) \/ CollectFee(c) \/ Rollback(c)
    PROVE  BalanceChecked' /\ NobodyOverdrawn'
  <1>. USE DEF CashInv
  <1>1. trades' = trades /\ balance' = balance
    BY DEF FindOwnedInstrument, CollectFee, Rollback, tables
  <1>2. \A d \in Clients \ {c} : request'[d] = request[d]
    BY FoundRow DEF CollectFee, Rollback, TypeOK
  <1>3. \/ request'[c] = Idle
        \/ /\ request'[c].account = request[c].account /\ request'[c].balance = request[c].balance
           /\ request'[c].op = request[c].op /\ request'[c].amount = request[c].amount
           /\ request'[c].price = request[c].price
           /\ request'[c].owner \in {request[c].owner, balance[Owner]}
    <2>1. CASE FindOwnedInstrument(c)
      BY <2>1, FoundRow DEF TypeOK
    <2>2. CASE CollectFee(c)
      BY <2>2 DEF CollectFee, TypeOK
    <2>3. CASE Rollback(c)
      BY <2>3 DEF Rollback, TypeOK
    <2>. QED
      BY <2>1, <2>2, <2>3
  <1>4. SoldAtALoss(Owner) \/ balance[Owner] >= 0
    BY OwnerIsAccount DEF NobodyOverdrawn
  <1>. QED
    BY <1>1, <1>2, <1>3, <1>4, IdleChecked DEF BalanceChecked, NobodyOverdrawn, SoldAtALoss, Covers

LEMMA CashTransfer ==
    ASSUME CashInv, NEW c \in Clients, CommitTransfer(c)
    PROVE  BalanceChecked' /\ NobodyOverdrawn'
  <1>. USE DEF CashInv
  <1>. DEFINE r == request[c]
             change == IF r.op = "withdraw" THEN -r.amount ELSE r.amount
  <1>1. trades' = trades /\ request' = [request EXCEPT ![c] = Idle]
        /\ balance' = [balance EXCEPT ![r.account] = r.balance + change]
    BY DEF CommitTransfer
  <1>2. SoldAtALoss(r.account) \/ r.balance + change >= 0
    BY RequestNumbers DEF BalanceChecked
  <1>. HIDE DEF change
  <1>3. NobodyOverdrawn'
    BY <1>1, <1>2 DEF TypeOK, NobodyOverdrawn, SoldAtALoss
  <1>4. BalanceChecked'
    BY <1>1, IdleChecked DEF TypeOK, BalanceChecked, SoldAtALoss, Covers
  <1>. QED
    BY <1>3, <1>4

(* A trade at a loss is never forgotten: trades are only appended. *)
LEMMA LossRemains ==
    ASSUME TypeOK, NEW c \in Clients, CommitTrade(c)
    PROVE  /\ \A a : SoldAtALoss(a) => SoldAtALoss(a)'
           /\ \A a : a = request[c].account /\ request[c].op = "sell" /\ Income(request[c]) < Ppt
                    => SoldAtALoss(a)'
  <1>. DEFINE t == [account |-> request[c].account, instrument |-> request[c].instrument,
                    direction |-> request[c].op, quantity |-> request[c].amount,
                    price |-> request[c].price]
  <1>1. trades' = Append(trades, t)
    BY DEF CommitTrade
  <1>2. t.account = request[c].account /\ t.direction = request[c].op
        /\ t.quantity = request[c].amount /\ t.price = request[c].price
    OBVIOUS
  <1>. HIDE DEF t
  <1>3. trades \in Seq(TradeType)
    BY DEF TypeOK
  <1>4. /\ \A n \in DOMAIN trades : n \in DOMAIN trades' /\ trades'[n] = trades[n]
        /\ Len(trades) + 1 \in DOMAIN trades' /\ trades'[Len(trades) + 1] = t
    BY <1>1, <1>3
  <1>. QED
    BY <1>2, <1>4 DEF SoldAtALoss, Income

LEMMA CashCommit ==
    ASSUME CashInv, NEW c \in Clients, CommitTrade(c)
    PROVE  BalanceChecked' /\ NobodyOverdrawn'
  <1>. USE DEF CashInv
  <1>. DEFINE r == request[c]
             mine == r.balance + Income(r) - Ppt
             owners == OwnerNow(r) + Ppt
  <1>1. request' = [request EXCEPT ![c] = Idle]
        /\ balance' = [[balance EXCEPT ![r.account] = mine] EXCEPT ![Owner] = owners]
        /\ r.op \in QuickTrades
    BY DEF CommitTrade
  <1>. PICK holder : holder = r.account
    OBVIOUS
  <1>2. SoldAtALoss(holder)' \/ mine >= 0
    <2>1. CASE r.op = "buy"
      BY <2>1, RequestNumbers, FeeIsNatural DEF BalanceChecked, Covers, Income
    <2>2. CASE r.op = "sell"
      <3>1. Income(r) < Ppt \/ Income(r) >= Ppt
        BY RequestNumbers, FeeIsNatural
      <3>2. CASE Income(r) >= Ppt
        BY <3>2, RequestNumbers, FeeIsNatural, LossRemains DEF BalanceChecked
      <3>. QED
        BY <2>2, <3>1, <3>2, LossRemains
    <2>. QED
      BY <1>1, <2>1, <2>2 DEF QuickTrades
  <1>3. SoldAtALoss(Owner)' \/ owners >= 0
    <2>1. CASE holder = Owner
      BY <1>2, <2>1, RequestNumbers, FeeIsNatural DEF OwnerNow
    <2>2. CASE holder # Owner
      BY <2>2, RequestNumbers, FeeIsNatural, LossRemains DEF OwnerNow, BalanceChecked
    <2>. QED
      BY <2>1, <2>2
  <1>. HIDE DEF mine, owners
  <1>4. NobodyOverdrawn'
    <2>. SUFFICES ASSUME NEW a \in Accounts PROVE SoldAtALoss(a)' \/ balance'[a] >= 0
      BY DEF NobodyOverdrawn
    <2>1. balance'[a] = IF a = Owner THEN owners ELSE IF a = holder THEN mine ELSE balance[a]
      BY <1>1 DEF TypeOK
    <2>. QED
      BY <1>2, <1>3, <2>1, LossRemains DEF NobodyOverdrawn
  <1>5. BalanceChecked'
    <2>1. \A d \in Clients : request'[d] = request[d] \/ request'[d] = Idle
      BY <1>1 DEF TypeOK
    <2>. QED
      BY <2>1, LossRemains, IdleChecked DEF BalanceChecked, Covers
  <1>. QED
    BY <1>4, <1>5

LEMMA CashKept == CashInv /\ [Next]_vars => CashInv'
  <1>. SUFFICES ASSUME CashInv, [Next]_vars PROVE BalanceChecked' /\ NobodyOverdrawn'
    BY TypeKept DEF CashInv
  <1>1. ASSUME NEW c \in Clients, NEW op \in Transfers, NEW a \in Accounts, NEW sum \in Sums,
               ModifyBalance(c, op, a, sum)
        PROVE  BalanceChecked' /\ NobodyOverdrawn'
    BY <1>1, CashAccept DEF ModifyBalance, Transfers
  <1>2. ASSUME NEW c \in Clients, NEW a \in Accounts, NEW i \in Instruments, NEW amount \in Amounts,
               NEW price \in Prices, BuyAssets(c, a, i, amount, price) \/ SellAssets(c, a, i, amount, price)
        PROVE  BalanceChecked' /\ NobodyOverdrawn'
    BY <1>2, CashAccept DEF BuyAssets, SellAssets
  <1>3. CASE UNCHANGED vars
    BY <1>3 DEF vars, tables, CashInv, BalanceChecked, NobodyOverdrawn, SoldAtALoss, Covers
  <1>. QED
    BY <1>1, <1>2, <1>3, CashRead, CashTransfer, CashCommit DEF Next

(* Withdraw and BuyAssets never overdraw an account, however many requests   *)
(* overlap: only a sale that brings less than its fee can do it.             *)
THEOREM NeverOverdrawn == Spec => []NobodyOverdrawn
  <1>1. CashInv => NobodyOverdrawn
    BY DEF CashInv
  <1>. QED
    BY InitCash, CashKept, <1>1, PTL DEF Spec

----------------------------------------------------------------------------
(* Sums *)

(* Every set of natural numbers has a least one: induction without an        *)
(* operator for its formula.                                                 *)
LEMMA NatMin ==
    ASSUME NEW T, T \subseteq Nat, T # {}
    PROVE  \E x \in T : \A y \in T : x <= y
  <1>. DEFINE R == {ss \in Nat \X Nat : ss[1] < ss[2]}
  <1>1. OpToRel(<, Nat) = R
    BY DEF OpToRel
  <1>2. IsWellFoundedOn(R, Nat)
    BY <1>1, NatLessThanWellFounded
  <1>3. \E x \in T : \A y \in T : ~ (<<y, x>> \in R)
    BY <1>2, WFMin
  <1>4. \A x, y \in Nat : y < x => <<y, x>> \in R
    OBVIOUS
  <1>. HIDE DEF R
  <1>5. \A x, y \in T : ~(y < x) => x <= y
    OBVIOUS
  <1>. QED
    BY <1>3, <1>4, <1>5

Pick(s) == CHOOSE x \in s : TRUE

(* g sums f over every subset of S, the element Pick chooses first. *)
Totals(f, S, g) == g = [s \in SUBSET S |-> IF s = {} THEN 0 ELSE f[Pick(s)] + g[s \ {Pick(s)}]]

LEMMA Smaller ==
    ASSUME NEW S, IsFiniteSet(S), NEW s \in SUBSET S
    PROVE  /\ IsFiniteSet(s) /\ Cardinality(s) \in Nat
           /\ \A x \in s : Cardinality(s \ {x}) = Cardinality(s) - 1 /\ s \ {x} \in SUBSET S
           /\ Cardinality(s) = 0 <=> s = {}
           /\ s # {} => Pick(s) \in s
  <1>1. IsFiniteSet(s)
    BY FS_Subset
  <1>2. Cardinality(s) \in Nat /\ (Cardinality(s) = 0 <=> s = {})
    BY <1>1, FS_CardinalityType, FS_EmptySet
  <1>3. \A x \in s : Cardinality(s \ {x}) = Cardinality(s) - 1
    BY <1>1, FS_RemoveElement
  <1>. QED
    BY <1>1, <1>2, <1>3 DEF Pick

LEMMA TotalsExist ==
    ASSUME NEW S, IsFiniteSet(S), NEW f \in [S -> Int]
    PROVE  \E g \in [SUBSET S -> Int] : Totals(f, S, g)
  <1>. DEFINE Upto(g, k) == \A s \in SUBSET S : Cardinality(s) <= k =>
                                g[s] = IF s = {} THEN 0 ELSE f[Pick(s)] + g[s \ {Pick(s)}]
              Bad == {k \in Nat : ~ \E g \in [SUBSET S -> Int] : Upto(g, k)}
  <1>1. Bad = {}
    <2>. SUFFICES ASSUME Bad # {} PROVE FALSE
      OBVIOUS
    <2>. PICK k \in Bad : \A j \in Bad : k <= j
      BY NatMin
    <2>1. CASE k = 0
      <3>. DEFINE z == [s \in SUBSET S |-> 0]
      <3>1. z \in [SUBSET S -> Int]
        OBVIOUS
      <3>2. Upto(z, 0)
        <4>. SUFFICES ASSUME NEW s \in SUBSET S, Cardinality(s) <= 0
                      PROVE  s = {}
          OBVIOUS
        <4>. QED
          BY Smaller
      <3>. QED
        BY <2>1, <3>1, <3>2
    <2>2. CASE k # 0
      <3>1. k - 1 \in Nat \ Bad
        <4>. Bad \subseteq Nat
          OBVIOUS
        <4>. HIDE DEF Bad
        <4>1. k - 1 \in Nat /\ k - 1 < k /\ k \in Nat
          BY <2>2
        <4>. QED
          BY <4>1
      <3>2. PICK g \in [SUBSET S -> Int] : Upto(g, k - 1)
        BY <3>1
      <3>. DEFINE h == [s \in SUBSET S |-> IF s = {} THEN 0 ELSE f[Pick(s)] + g[s \ {Pick(s)}]]
      <3>3. h \in [SUBSET S -> Int]
        <4>. SUFFICES ASSUME NEW s \in SUBSET S, s # {} PROVE f[Pick(s)] + g[s \ {Pick(s)}] \in Int
          OBVIOUS
        <4>1. Pick(s) \in S /\ s \ {Pick(s)} \in SUBSET S
          BY Smaller
        <4>. QED
          BY <4>1
      <3>4. \A s \in SUBSET S : Cardinality(s) <= k - 1 => h[s] = g[s]
        BY <3>2
      <3>5. ASSUME NEW s \in SUBSET S, Cardinality(s) <= k, s # {}
            PROVE  h[s] = f[Pick(s)] + h[s \ {Pick(s)}]
        <4>1. Pick(s) \in s /\ s \ {Pick(s)} \in SUBSET S
          BY <3>5, Smaller
        <4>2. Cardinality(s \ {Pick(s)}) <= k - 1
          BY <3>5, <4>1, Smaller
        <4>3. h[s \ {Pick(s)}] = g[s \ {Pick(s)}]
          BY <3>4, <4>1, <4>2
        <4>4. h[s] = f[Pick(s)] + g[s \ {Pick(s)}]
          BY <3>5
        <4>. QED
          BY <4>3, <4>4
      <3>6. h[{}] = 0
        OBVIOUS
      <3>. HIDE DEF h
      <3>7. Upto(h, k)
        BY <3>5, <3>6
      <3>. QED
        BY <3>3, <3>7
    <2>. QED
      BY <2>1, <2>2
  <1>2. Cardinality(S) \in Nat
    BY FS_CardinalityType
  <1>3. PICK g \in [SUBSET S -> Int] : Upto(g, Cardinality(S))
    BY <1>1, <1>2
  <1>4. \A s \in SUBSET S : g[s] = IF s = {} THEN 0 ELSE f[Pick(s)] + g[s \ {Pick(s)}]
    BY <1>3, FS_Subset
  <1>. QED
    BY <1>4 DEF Totals

(* The totals over the subsets of T depend on f within T only. *)
LEMMA TotalsAgree ==
    ASSUME NEW S, IsFiniteSet(S), NEW f, NEW g, Totals(f, S, g),
           NEW T \in SUBSET S, NEW e, NEW h, Totals(e, T, h),
           \A x \in T : e[x] = f[x]
    PROVE  \A s \in SUBSET T : h[s] = g[s]
  <1>. DEFINE Bad == {Cardinality(s) : s \in {t \in SUBSET T : h[t] # g[t]}}
  <1>. SUFFICES ASSUME NEW u \in SUBSET T, h[u] # g[u] PROVE FALSE
    OBVIOUS
  <1>1. Bad \subseteq Nat /\ Bad # {}
    BY Smaller
  <1>2. PICK k \in Bad : \A j \in Bad : k <= j
    BY <1>1, NatMin
  <1>3. PICK s \in SUBSET T : h[s] # g[s] /\ k = Cardinality(s)
    OBVIOUS
  <1>4. s # {}
    BY <1>3 DEF Totals
  <1>. DEFINE p == Pick(s)
  <1>5. /\ p \in s /\ s \in SUBSET S /\ Cardinality(s) \in Nat
        /\ Cardinality(s \ {p}) = Cardinality(s) - 1 /\ s \ {p} \in SUBSET T
    BY <1>4, Smaller
  <1>6. h[s \ {p}] = g[s \ {p}]
    BY <1>2, <1>3, <1>5
  <1>7. h[s] = e[p] + h[s \ {p}] /\ g[s] = f[p] + g[s \ {p}]
    BY <1>4, <1>5 DEF Totals
  <1>. QED
    BY <1>3, <1>5, <1>6, <1>7

LEMMA SumIs ==
    ASSUME NEW S, IsFiniteSet(S), NEW f \in [S -> Int]
    PROVE  \E g \in [SUBSET S -> Int] : Totals(f, S, g) /\ SumFunction(f) = g[S]
  <1>1. SumFunction(f) = (CHOOSE g : Totals(f, DOMAIN f, g))[DOMAIN f]
    BY DEF SumFunction, SumFunctionOnSet, FoldFunctionOnSet, MapThenFoldSet, Totals, Pick
  <1>2. DOMAIN f = S
    OBVIOUS
  <1>3. PICK g \in [SUBSET S -> Int] : Totals(f, S, g)
    BY TotalsExist
  <1>. DEFINE h == CHOOSE h : Totals(f, S, h)
  <1>4. Totals(f, S, h)
    BY <1>3
  <1>5. SumFunction(f) = h[S]
    BY <1>1, <1>2
  <1>. HIDE DEF h
  <1>6. h[S] = g[S]
    BY <1>3, <1>4, TotalsAgree
  <1>. QED
    BY <1>3, <1>5, <1>6

(* Any element may be added first. *)
AnyOrder(f, S, g) == \A s \in SUBSET S : \A x \in s : g[s] = f[x] + g[s \ {x}]

LEMMA AnyFirst ==
    ASSUME NEW S, IsFiniteSet(S), NEW f \in [S -> Int],
           NEW g \in [SUBSET S -> Int], Totals(f, S, g)
    PROVE  AnyOrder(f, S, g)
  <1>. DEFINE Odd == {t \in SUBSET S : \E x \in t : g[t] # f[x] + g[t \ {x}]}
              Bad == {Cardinality(s) : s \in Odd}
  <1>. SUFFICES ASSUME Odd # {} PROVE FALSE
    BY DEF AnyOrder
  <1>0. Odd \subseteq SUBSET S /\ \A t \in Odd : \E x \in t : g[t] # f[x] + g[t \ {x}]
    OBVIOUS
  <1>0a. \A t \in SUBSET S : t \notin Odd => \A x \in t : g[t] = f[x] + g[t \ {x}]
    OBVIOUS
  <1>. HIDE DEF Odd
  <1>1. Bad \subseteq Nat /\ Bad # {}
    BY <1>0, Smaller
  <1>2. PICK k \in Bad : \A j \in Bad : k <= j
    BY <1>1, NatMin
  <1>3. PICK s \in Odd : k = Cardinality(s)
    OBVIOUS
  <1>4. PICK x \in s : g[s] # f[x] + g[s \ {x}]
    BY <1>0
  <1>. s \in SUBSET S
    BY <1>0
  <1>. DEFINE p == Pick(s)
  <1>5. /\ p \in s /\ Cardinality(s) \in Nat /\ s \ {p} \in SUBSET S
        /\ Cardinality(s \ {p}) = Cardinality(s) - 1 /\ Cardinality(s \ {x}) = Cardinality(s) - 1
        /\ s \ {x} \in SUBSET S
    BY <1>4, Smaller
  <1>6. g[s] = f[p] + g[s \ {p}]
    BY <1>5 DEF Totals
  <1>7. x # p
    BY <1>4, <1>6
  <1>. HIDE DEF p
  <1>8. \A t \in SUBSET S : Cardinality(t) = Cardinality(s) - 1 => \A y \in t : g[t] = f[y] + g[t \ {y}]
    <2>. SUFFICES ASSUME NEW t \in SUBSET S, Cardinality(t) = Cardinality(s) - 1 PROVE t \notin Odd
      BY <1>0a
    <2>1. t \in Odd => Cardinality(t) \in Bad
      OBVIOUS
    <2>. HIDE DEF Bad
    <2>2. ~(Cardinality(s) <= Cardinality(t))
      BY <1>5
    <2>. QED
      BY <1>2, <1>3, <2>1, <2>2
  <1>9. g[s \ {p}] = f[x] + g[(s \ {p}) \ {x}] /\ g[s \ {x}] = f[p] + g[(s \ {x}) \ {p}]
    BY <1>5, <1>7, <1>8
  <1>10. (s \ {p}) \ {x} = (s \ {x}) \ {p}
    OBVIOUS
  <1>11. f[x] \in Int /\ f[p] \in Int /\ g[(s \ {x}) \ {p}] \in Int
    BY <1>5
  <1>12. ASSUME NEW a \in Int, NEW b \in Int, NEW c \in Int PROVE a + (b + c) = b + (a + c)
    OBVIOUS
  <1>13. f[p] + (f[x] + g[(s \ {x}) \ {p}]) = f[x] + (f[p] + g[(s \ {x}) \ {p}])
    BY <1>11, <1>12
  <1>14. g[s] = f[p] + (f[x] + g[(s \ {x}) \ {p}])
    BY <1>6, <1>9, <1>10
  <1>15. g[s] = f[x] + g[s \ {x}]
    BY <1>9, <1>13, <1>14
  <1>. QED
    BY <1>4, <1>15

(* What SumFunction is of a sequence, or of numbers given by its positions. *)
LEMMA SumEmpty ==
    ASSUME NEW f \in [1..0 -> Int]
    PROVE  SumFunction(f) = 0
  <1>1. IsFiniteSet(1..0) /\ 1..0 = {}
    BY FS_Interval
  <1>2. PICK g \in [SUBSET (1..0) -> Int] : Totals(f, 1..0, g) /\ SumFunction(f) = g[1..0]
    BY <1>1, SumIs
  <1>. QED
    BY <1>1, <1>2 DEF Totals

LEMMA SumGrows ==
    ASSUME NEW n \in Nat, NEW f \in [1..n -> Int], NEW e \in [1..(n + 1) -> Int],
           \A i \in 1..n : e[i] = f[i]
    PROVE  SumFunction(f) \in Int /\ SumFunction(e) = SumFunction(f) + e[n + 1]
  <1>1. IsFiniteSet(1..n) /\ IsFiniteSet(1..(n + 1))
    BY FS_Interval
  <1>2. PICK g \in [SUBSET (1..n) -> Int] : Totals(f, 1..n, g) /\ SumFunction(f) = g[1..n]
    BY <1>1, SumIs
  <1>3. PICK h \in [SUBSET (1..(n + 1)) -> Int] : Totals(e, 1..(n + 1), h) /\ SumFunction(e) = h[1..(n + 1)]
    BY <1>1, SumIs
  <1>4. (1..(n + 1)) \ {n + 1} = 1..n /\ n + 1 \in 1..(n + 1) /\ 1..n \in SUBSET (1..(n + 1))
    OBVIOUS
  <1>5. h[1..(n + 1)] = e[n + 1] + h[1..n]
    <2>1. AnyOrder(e, 1..(n + 1), h)
      BY <1>1, <1>3, AnyFirst
    <2>2. 1..(n + 1) \in SUBSET (1..(n + 1))
      OBVIOUS
    <2>3. h[1..(n + 1)] = e[n + 1] + h[(1..(n + 1)) \ {n + 1}]
      BY <1>4, <2>1, <2>2 DEF AnyOrder
    <2>. QED
      BY <1>4, <2>3
  <1>6. g[1..n] = h[1..n]
    BY <1>1, <1>2, <1>3, <1>4, TotalsAgree
  <1>. QED
    BY <1>2, <1>3, <1>4, <1>5, <1>6

Prolongs(more, seq, n, x, S) ==
    /\ n \in Nat /\ DOMAIN seq = 1..n /\ seq \in [1..n -> S]
    /\ DOMAIN more = 1..(n + 1) /\ more \in [1..(n + 1) -> S]
    /\ \A i \in 1..n : more[i] = seq[i]
    /\ more[n + 1] = x

LEMMA OneMore ==
    ASSUME NEW S, NEW seq \in Seq(S), NEW x \in S
    PROVE  Prolongs(Append(seq, x), seq, Len(seq), x, S)
  <1>1. Len(seq) \in Nat /\ DOMAIN seq = 1..Len(seq) /\ seq \in [1..Len(seq) -> S]
    BY LenProperties
  <1>2. /\ Append(seq, x) \in Seq(S) /\ Len(Append(seq, x)) = Len(seq) + 1
        /\ \A i \in 1..Len(seq) : Append(seq, x)[i] = seq[i]
        /\ Append(seq, x)[Len(seq) + 1] = x
    BY AppendProperties
  <1>3. DOMAIN Append(seq, x) = 1..(Len(seq) + 1) /\ Append(seq, x) \in [1..(Len(seq) + 1) -> S]
    BY <1>2, LenProperties
  <1>. QED
    BY <1>1, <1>2, <1>3 DEF Prolongs

(* The sum of a sequence of numbers, one element at a time *)
LEMMA SumOfSequence ==
    ASSUME NEW seq \in Seq(Int), NEW x \in Int
    PROVE  /\ SumFunction(<< >>) = 0
           /\ SumFunction(seq) \in Int
           /\ SumFunction(Append(seq, x)) = SumFunction(seq) + x
  <1>1. << >> \in [1..0 -> Int]
    OBVIOUS
  <1>2. PICK n, more : more = Append(seq, x) /\ Prolongs(more, seq, n, x, Int)
    BY OneMore
  <1>3. SumFunction(seq) \in Int /\ SumFunction(more) = SumFunction(seq) + more[n + 1]
    <2>1. /\ n \in Nat /\ seq \in [1..n -> Int] /\ more \in [1..(n + 1) -> Int]
          /\ \A i \in 1..n : more[i] = seq[i]
      BY <1>2 DEF Prolongs
    <2>. QED
      BY <2>1, SumGrows
  <1>. QED
    BY <1>1, <1>2, <1>3, SumEmpty DEF Prolongs

----------------------------------------------------------------------------
(* The rows of BalanceHistory and what they add up to *)

Change(seq) == SumFunction([n \in DOMAIN seq |-> seq[n].change])
Gain(seq)   == SumFunction([n \in DOMAIN seq |-> Positive(seq[n].change)])
Loss(seq)   == SumFunction([n \in DOMAIN seq |-> Positive(-seq[n].change)])

LEMMA OneMoreEntry ==
    ASSUME NEW seq \in Seq(EntryType), NEW e \in EntryType
    PROVE  /\ Change(seq) \in Int /\ Gain(seq) \in Int /\ Loss(seq) \in Int
           /\ Change(Append(seq, e)) = Change(seq) + e.change
           /\ Gain(Append(seq, e)) = Gain(seq) + Positive(e.change)
           /\ Loss(Append(seq, e)) = Loss(seq) + Positive(-e.change)
           /\ Change(<< >>) = 0 /\ Gain(<< >>) = 0 /\ Loss(<< >>) = 0
  <1>9. PICK m, more : more = Append(seq, e) /\ Prolongs(more, seq, m, e, EntryType)
    BY OneMore
  <1>. PICK last : last = m + 1
    OBVIOUS
  <1>0. /\ m \in Nat /\ last \in Nat /\ DOMAIN seq = 1..m /\ seq \in [1..m -> EntryType]
        /\ DOMAIN more = 1..last /\ more \in [1..last -> EntryType]
        /\ (\A n \in 1..m : more[n] = seq[n]) /\ more[last] = e
    BY <1>9 DEF Prolongs
  <1>2. \A entry \in EntryType : entry.change \in Int
    BY DEF EntryType
  <1>1. /\ DOMAIN seq = 1..m /\ DOMAIN more = 1..last /\ more[last] = e
        /\ \A n \in 1..m : more[n] = seq[n] /\ seq[n].change \in Int
    BY <1>0, <1>2
  <1>3. \A n \in 1..last : more[n].change \in Int
    BY <1>0, <1>2
  <1>10. last \in 1..last /\ \A n \in 1..m : n \in 1..last
    BY <1>0
  <1>4. ASSUME NEW f \in [1..m -> Int], NEW g \in [1..last -> Int], \A n \in 1..m : g[n] = f[n]
        PROVE  SumFunction(f) \in Int /\ SumFunction(g) = SumFunction(f) + g[last]
    <2>1. g \in [1..(m + 1) -> Int] /\ m \in Nat
      BY <1>0
    <2>2. SumFunction(f) \in Int /\ SumFunction(g) = SumFunction(f) + g[m + 1]
      BY <1>4, <2>1, SumGrows
    <2>. QED
      BY <2>2
  <1>5. Change(seq) \in Int /\ Change(more) = Change(seq) + e.change
    <2>1. [n \in DOMAIN seq |-> seq[n].change] \in [1..m -> Int]
          /\ [n \in DOMAIN more |-> more[n].change] \in [1..last -> Int]
          /\ [n \in DOMAIN more |-> more[n].change][last] = e.change
          /\ \A k \in 1..m : [n \in DOMAIN more |-> more[n].change][k] = [n \in DOMAIN seq |-> seq[n].change][k]
      BY <1>1, <1>3, <1>10
    <2>. QED
      BY <1>4, <2>1 DEF Change
  <1>6. Gain(seq) \in Int /\ Gain(more) = Gain(seq) + Positive(e.change)
    <2>1. [n \in DOMAIN seq |-> Positive(seq[n].change)] \in [1..m -> Int]
          /\ [n \in DOMAIN more |-> Positive(more[n].change)] \in [1..last -> Int]
          /\ [n \in DOMAIN more |-> Positive(more[n].change)][last] = Positive(e.change)
          /\ \A k \in 1..m : [n \in DOMAIN more |-> Positive(more[n].change)][k]
                               = [n \in DOMAIN seq |-> Positive(seq[n].change)][k]
      BY <1>1, <1>3, <1>10 DEF Positive
    <2>. QED
      BY <1>4, <2>1 DEF Gain
  <1>7. Loss(seq) \in Int /\ Loss(more) = Loss(seq) + Positive(-e.change)
    <2>1. [n \in DOMAIN seq |-> Positive(-seq[n].change)] \in [1..m -> Int]
          /\ [n \in DOMAIN more |-> Positive(-more[n].change)] \in [1..last -> Int]
          /\ [n \in DOMAIN more |-> Positive(-more[n].change)][last] = Positive(-e.change)
          /\ \A k \in 1..m : [n \in DOMAIN more |-> Positive(-more[n].change)][k]
                               = [n \in DOMAIN seq |-> Positive(-seq[n].change)][k]
      BY <1>1, <1>3, <1>10 DEF Positive
    <2>. QED
      BY <1>4, <2>1 DEF Loss
  <1>8. Change(<< >>) = 0 /\ Gain(<< >>) = 0 /\ Loss(<< >>) = 0
    <2>1. \A f \in [1..0 -> Int] : SumFunction(f) = 0
      BY SumEmpty
    <2>2. DOMAIN << >> = 1..0 /\ 1..0 = {}
      OBVIOUS
    <2>3. /\ [n \in DOMAIN << >> |-> << >>[n].change] \in [1..0 -> Int]
          /\ [n \in DOMAIN << >> |-> Positive(<< >>[n].change)] \in [1..0 -> Int]
          /\ [n \in DOMAIN << >> |-> Positive(-<< >>[n].change)] \in [1..0 -> Int]
      BY <2>2
    <2>. QED
      BY <2>1, <2>3 DEF Change, Gain, Loss
  <1>. QED
    BY <1>5, <1>6, <1>7, <1>8, <1>9

(* The balance the entries of an account lead to: LossIsVisible of a sequence *)
Told(seq, open, v) ==
    /\ seq # << >> => v = seq[Len(seq)].old + seq[Len(seq)].change
    /\ (\A n \in DOMAIN seq : seq[n].old = IF n = 1 THEN open ELSE seq[n-1].old + seq[n-1].change)
            => v = open + Change(seq)

(* The range they allow *)
Within(seq, open, v) == open - Loss(seq) <= v /\ v <= open + Gain(seq)

LEMMA ToldGrows ==
    ASSUME NEW seq \in Seq(EntryType), NEW e \in EntryType, NEW open \in Int, NEW v \in Int,
           Told(seq, open, v)
    PROVE  Told(Append(seq, e), open, e.old + e.change)
  <1>. PICK n, more : more = Append(seq, e) /\ n = Len(seq) /\ Prolongs(more, seq, n, e, EntryType)
    BY OneMore
  <1>1. /\ n \in Nat /\ DOMAIN seq = 1..n /\ DOMAIN more = 1..(n + 1)
        /\ \A i \in 1..n : more[i] = seq[i]
        /\ more[n + 1] = e
    BY DEF Prolongs
  <1>2. Len(more) = n + 1
    BY AppendProperties
  <1>3. e.old \in Int /\ e.change \in Int /\ Change(seq) \in Int /\ Change(more) = Change(seq) + e.change
    BY OneMoreEntry DEF EntryType
  <1>4. ASSUME \A i \in DOMAIN more : more[i].old = IF i = 1 THEN open ELSE more[i-1].old + more[i-1].change
        PROVE  e.old = v /\ v = open + Change(seq)
    <2>1. \A i \in 1..n : seq[i].old = IF i = 1 THEN open ELSE seq[i-1].old + seq[i-1].change
      <3>. SUFFICES ASSUME NEW i \in 1..n
                    PROVE  seq[i].old = IF i = 1 THEN open ELSE seq[i-1].old + seq[i-1].change
        OBVIOUS
      <3>1. i \in 1..(n + 1) /\ (i # 1 => i - 1 \in 1..n)
        BY <1>1
      <3>2. more[i].old = IF i = 1 THEN open ELSE more[i-1].old + more[i-1].change
        BY <1>1, <1>4, <3>1
      <3>. QED
        BY <1>1, <3>1, <3>2
    <2>2. v = open + Change(seq)
      BY <1>1, <2>1 DEF Told
    <2>3. e.old = IF n + 1 = 1 THEN open ELSE more[n].old + more[n].change
      <3>1. n + 1 \in DOMAIN more /\ (n + 1) - 1 = n
        BY <1>1
      <3>. QED
        BY <1>1, <1>4, <3>1
    <2>4. CASE n = 0
      <3>1. seq = << >>
        BY <2>4, EmptySeq
      <3>2. Change(seq) = 0
        BY <3>1, OneMoreEntry
      <3>3. e.old = open
        BY <2>3, <2>4
      <3>. QED
        BY <2>2, <3>2, <3>3
    <2>5. CASE n # 0
      <3>1. seq # << >> /\ n \in 1..n
        BY <1>1, <2>5
      <3>2. more[n] = seq[n] /\ v = seq[n].old + seq[n].change
        BY <1>1, <3>1 DEF Told
      <3>. QED
        BY <1>1, <2>2, <2>3, <2>5, <3>2
    <2>. QED
      BY <2>4, <2>5
  <1>5. more[Len(more)] = e
    BY <1>1, <1>2
  <1>6. (\A i \in DOMAIN more : more[i].old = IF i = 1 THEN open ELSE more[i-1].old + more[i-1].change)
            => e.old + e.change = open + Change(more)
    BY <1>3, <1>4
  <1>. QED
    BY <1>5, <1>6 DEF Told

LEMMA WithinGrows ==
    ASSUME NEW seq \in Seq(EntryType), NEW e \in EntryType, NEW open \in Int, NEW v \in Int,
           Within(seq, open, v)
    PROVE  Within(Append(seq, e), open, v) /\ Within(Append(seq, e), open, v + e.change)
  <1>1. e.change \in Int /\ Loss(seq) \in Int /\ Gain(seq) \in Int
        /\ Gain(Append(seq, e)) = Gain(seq) + Positive(e.change)
        /\ Loss(Append(seq, e)) = Loss(seq) + Positive(-e.change)
    BY OneMoreEntry DEF EntryType
  <1>. QED
    BY <1>1 DEF Within, Positive

(* What a commit adds to the entries: each row starts from what the request  *)
(* read or from the row before it, and the last row leads to the balance.    *)
LEMMA TransferBooks ==
    ASSUME TypeOK, NEW c \in Clients, CommitTransfer(c)
    PROVE  \E e \in EntryType :
             /\ e.old = request[c].balance
             /\ \A a \in Accounts :
                  IF a = request[c].account
                  THEN entries'[a] = Append(entries[a], e) /\ balance'[a] = e.old + e.change
                  ELSE entries'[a] = entries[a] /\ balance'[a] = balance[a]
  <1>. DEFINE r == request[c]
             change == IF r.op = "withdraw" THEN -r.amount ELSE r.amount
             e == Entry(r.op, r.balance, change)
  <1>1. change \in Int /\ r.balance \in Int /\ r.op \in Transfers
    BY RequestNumbers DEF CommitTransfer
  <1>2. balance' = [balance EXCEPT ![r.account] = r.balance + change]
        /\ entries' = [entries EXCEPT ![r.account] = Append(@, e)]
    BY DEF CommitTransfer
  <1>. HIDE DEF change
  <1>3. e \in EntryType /\ e.old = r.balance /\ e.change = change
    BY <1>1 DEF Entry, EntryType
  <1>. HIDE DEF e
  <1>. QED
    BY <1>2, <1>3 DEF TypeOK

Books(c, e, f, g) ==
    /\ e.old = request[c].balance /\ f.old = e.old + e.change
    /\ g.old = IF request[c].account = Owner THEN f.old + f.change ELSE request[c].owner
    /\ \A a \in Accounts :
         CASE a = Owner /\ a = request[c].account ->
                /\ entries'[a] = Append(Append(Append(entries[a], e), f), g)
                /\ balance'[a] = g.old + g.change
           [] a = Owner /\ a # request[c].account ->
                entries'[a] = Append(entries[a], g) /\ balance'[a] = g.old + g.change
           [] a # Owner /\ a = request[c].account ->
                entries'[a] = Append(Append(entries[a], e), f) /\ balance'[a] = f.old + f.change
           [] OTHER -> entries'[a] = entries[a] /\ balance'[a] = balance[a]

LEMMA TradeBooks ==
    ASSUME TypeOK, NEW c \in Clients, CommitTrade(c)
    PROVE  \E e \in EntryType, f \in EntryType, g \in EntryType : Books(c, e, f, g)
  <1>. DEFINE r == request[c]
             e == Entry(r.op, r.balance, Income(r))
             f == Entry("transactionfee", r.balance + Income(r), -Ppt)
             g == Entry("collectfee", OwnerNow(r), Ppt)
  <1>1. Income(r) \in Int /\ OwnerNow(r) \in Int /\ r.balance \in Int /\ r.owner \in Int /\ Ppt \in Int
        /\ r.op \in QuickTrades /\ r.account \in Accounts
    BY RequestNumbers, FeeIsNatural DEF CommitTrade
  <1>. PICK holder : holder = r.account
    OBVIOUS
  <1>2. balance' = [[balance EXCEPT ![holder] = r.balance + Income(r) - Ppt] EXCEPT ![Owner] = OwnerNow(r) + Ppt]
        /\ entries' = [[entries EXCEPT ![holder] = @ \o <<e, f>>] EXCEPT ![Owner] = Append(@, g)]
    BY DEF CommitTrade
  <1>3. /\ e.old = r.balance /\ e.change = Income(r)
        /\ f.old = r.balance + Income(r) /\ f.change = -Ppt
        /\ g.old = OwnerNow(r) /\ g.change = Ppt
    BY DEF Entry
  <1>4. e \in EntryType /\ f \in EntryType /\ g \in EntryType
    BY <1>1 DEF Entry, EntryType
  <1>5. OwnerNow(r) = IF holder = Owner THEN f.old + f.change ELSE r.owner
    BY <1>1, <1>3 DEF OwnerNow
  <1>6. r.balance + Income(r) - Ppt = f.old + f.change
    BY <1>1, <1>3
  <1>. HIDE DEF e, f, g
  <1>7. \A a \in Accounts : entries[a] \in Seq(EntryType)
    BY DEF TypeOK
  <1>8. \A a \in Accounts : entries[a] \o <<e, f>> = Append(Append(entries[a], e), f)
    BY <1>4, <1>7
  <1>9. \A a \in Accounts :
          /\ entries'[a] = LET mid == IF a = holder THEN entries[a] \o <<e, f>> ELSE entries[a]
                           IN  IF a = Owner THEN Append(mid, g) ELSE mid
          /\ balance'[a] = IF a = Owner THEN OwnerNow(r) + Ppt
                           ELSE IF a = holder THEN r.balance + Income(r) - Ppt ELSE balance[a]
    BY <1>1, <1>2, OwnerIsAccount DEF TypeOK
  <1>10. \A a \in Accounts :
          CASE a = Owner /\ a = holder ->
                 /\ entries'[a] = Append(Append(Append(entries[a], e), f), g)
                 /\ balance'[a] = g.old + g.change
            [] a = Owner /\ a # holder ->
                 entries'[a] = Append(entries[a], g) /\ balance'[a] = g.old + g.change
            [] a # Owner /\ a = holder ->
                 entries'[a] = Append(Append(entries[a], e), f) /\ balance'[a] = f.old + f.change
            [] OTHER -> entries'[a] = entries[a] /\ balance'[a] = balance[a]
    BY <1>3, <1>6, <1>8, <1>9
  <1>11. Books(c, e, f, g)
    BY <1>3, <1>5, <1>10 DEF Books
  <1>. QED
    BY <1>4, <1>11

(* Only a commit touches the balances and their history. *)
LEMMA BooksStep ==
    ASSUME TypeOK, [Next]_vars
    PROVE  \/ balance' = balance /\ entries' = entries
           \/ \E c \in Clients : CommitTransfer(c) \/ CommitTrade(c)
  <1>1. ASSUME NEW c \in Clients, NEW op \in Transfers, NEW a \in Accounts, NEW sum \in Sums,
               ModifyBalance(c, op, a, sum)
        PROVE  balance' = balance /\ entries' = entries
    BY <1>1 DEF ModifyBalance, Accept, tables
  <1>2. ASSUME NEW c \in Clients, NEW a \in Accounts, NEW i \in Instruments, NEW amount \in Amounts,
               NEW price \in Prices, BuyAssets(c, a, i, amount, price) \/ SellAssets(c, a, i, amount, price)
        PROVE  balance' = balance /\ entries' = entries
    BY <1>2 DEF BuyAssets, SellAssets, Accept, tables
  <1>3. ASSUME NEW c \in Clients, FindOwnedInstrument(c) \/ CollectFee(c) \/ Rollback(c)
        PROVE  balance' = balance /\ entries' = entries
    BY <1>3 DEF FindOwnedInstrument, CollectFee, Rollback, tables
  <1>4. CASE UNCHANGED vars
    BY <1>4 DEF vars, tables
  <1>. QED
    BY <1>1, <1>2, <1>3, <1>4 DEF Next

----------------------------------------------------------------------------
(* BalanceHistory leads to the balance. *)

ToldInv == TypeOK /\ \A a \in Accounts : Told(entries[a], Opening[a], balance[a])

LEMMA InitTold == Init => ToldInv
  <1>. SUFFICES ASSUME Init, NEW a \in Accounts PROVE Told(entries[a], Opening[a], balance[a])
    BY InitType DEF ToldInv
  <1>1. entries[a] = << >> /\ balance[a] = Opening[a] /\ Opening[a] \in Int
    BY OpeningsCovered DEF Init
  <1>2. << >> \in Seq(EntryType) /\ \E e : e \in EntryType
    <2>1. [action |-> "collectfee", old |-> 0, change |-> 0] \in EntryType
      BY DEF EntryType
    <2>. QED
      BY <2>1
  <1>3. Change(<< >>) = 0
    BY <1>2, OneMoreEntry
  <1>. QED
    BY <1>1, <1>3 DEF Told

LEMMA ToldKept == ToldInv /\ [Next]_vars => ToldInv'
  <1>. SUFFICES ASSUME ToldInv, [Next]_vars, NEW a \in Accounts
                PROVE  Told(entries[a], Opening[a], balance[a])'
    BY TypeKept DEF ToldInv
  <1>. TypeOK
    BY DEF ToldInv
  <1>0. Told(entries[a], Opening[a], balance[a])
    BY DEF ToldInv
  <1>1. entries[a] \in Seq(EntryType) /\ balance[a] \in Int /\ Opening[a] \in Int
    BY OpeningsCovered DEF TypeOK
  <1>2. \A e \in EntryType : e.old \in Int /\ e.change \in Int
    BY DEF EntryType
  <1>. SUFFICES Told(entries'[a], Opening[a], balance'[a])
    BY DEF Told, Change
  <1>3. ASSUME NEW c \in Clients, CommitTransfer(c)
        PROVE  Told(entries'[a], Opening[a], balance'[a])
    BY <1>0, <1>1, <1>3, TransferBooks, ToldGrows
  <1>4. ASSUME NEW c \in Clients, CommitTrade(c)
        PROVE  Told(entries'[a], Opening[a], balance'[a])
    <2>. PICK e \in EntryType, f \in EntryType, g \in EntryType :
             /\ f.old = e.old + e.change
             /\ (Owner = request[c].account => g.old = f.old + f.change)
             /\ \/ entries'[a] = entries[a] /\ balance'[a] = balance[a]
                \/ /\ a = Owner /\ a = request[c].account
                   /\ entries'[a] = Append(Append(Append(entries[a], e), f), g)
                   /\ balance'[a] = g.old + g.change
                \/ entries'[a] = Append(entries[a], g) /\ balance'[a] = g.old + g.change
                \/ entries'[a] = Append(Append(entries[a], e), f) /\ balance'[a] = f.old + f.change
      BY <1>4, TradeBooks DEF Books
    <2>1. Told(Append(entries[a], e), Opening[a], e.old + e.change)
          /\ Told(Append(entries[a], g), Opening[a], g.old + g.change)
      BY <1>0, <1>1, ToldGrows
    <2>2. Append(entries[a], e) \in Seq(EntryType) /\ Append(Append(entries[a], e), f) \in Seq(EntryType)
      BY <1>1
    <2>3. Told(Append(Append(entries[a], e), f), Opening[a], f.old + f.change)
      BY <1>1, <1>2, <2>1, <2>2, ToldGrows
    <2>4. Owner = request[c].account
            => Told(Append(Append(Append(entries[a], e), f), g), Opening[a], g.old + g.change)
      BY <1>1, <1>2, <2>2, <2>3, ToldGrows
    <2>. QED
      BY <1>0, <2>1, <2>3, <2>4
  <1>. QED
    BY <1>0, <1>3, <1>4, BooksStep

(* The last entry of an account leads to its balance, and a balance that is  *)
(* not the sum of the changes shows as a gap between two entries: an update  *)
(* that overlapping requests have lost can be found in BalanceHistory.       *)
THEOREM LossesShow == Spec => []LossIsVisible
  <1>1. ToldInv => LossIsVisible
    BY DEF ToldInv, Told, Change, LossIsVisible, Chained, Changes, LastEntry
  <1>. QED
    BY InitTold, ToldKept, <1>1, PTL DEF Spec

----------------------------------------------------------------------------
(* What a request does to its tracked objects in a step: it begins with the  *)
(* balance of its account, it reads the owner's balance, or it keeps both.   *)

FeeRead(r) == r.op \in QuickTrades /\ r.pc \in {"collecting", "ready"}

LEMMA Tracked ==
    ASSUME TypeOK, [Next]_vars, NEW d \in Clients
    PROVE  \/ request'[d].pc = "idle"
           \/ /\ request[d].pc # "idle" /\ request'[d].account = request[d].account
              /\ request'[d].op = request[d].op
              /\ request'[d].balance = request[d].balance
              /\ \/ request'[d].owner = balance[Owner]
                 \/ request'[d].owner = request[d].owner /\ (FeeRead(request'[d]) => FeeRead(request[d]))
           \/ /\ request[d].pc = "idle" /\ request'[d].pc # "idle" /\ ~FeeRead(request'[d])
              /\ request'[d].account \in Serves[d]
              /\ request'[d].balance = balance[request'[d].account] /\ UNCHANGED tables
  <1>0. request \in [Clients -> RequestType]
    BY DEF TypeOK
  <1>1. CASE request'[d] = request[d]
    BY <1>1
  <1>2. ASSUME NEW c \in Clients, request' = [request EXCEPT ![c] = Idle]
        PROVE  request'[d] = request[d] \/ request'[d].pc = "idle"
    BY <1>0, <1>2 DEF Idle
  <1>3. ASSUME NEW c \in Clients, NEW op, NEW a, NEW i, NEW amount, NEW price,
               NEW pc \in {"balance", "ready"}, op \in QuickTrades => pc = "balance",
               Accept(c, op, a, i, amount, price, pc)
        PROVE  \/ request'[d] = request[d]
               \/ /\ request[d].pc = "idle" /\ request'[d].pc # "idle" /\ ~FeeRead(request'[d])
                  /\ request'[d].account \in Serves[d]
                  /\ request'[d].balance = balance[request'[d].account] /\ UNCHANGED tables
    <2>1. CASE c = d
      <3>1. request'[d].pc = pc /\ request'[d].op = op /\ request'[d].account = a
            /\ request'[d].balance = balance[a] /\ a \in Serves[d]
            /\ request[d].pc = "idle" /\ UNCHANGED tables
        BY <1>0, <1>3, <2>1 DEF Accept
      <3>. QED
        BY <1>3, <3>1 DEF FeeRead
    <2>2. CASE c # d
      BY <1>0, <1>3, <2>2 DEF Accept
    <2>. QED
      BY <2>1, <2>2
  <1>4. ASSUME NEW c \in Clients, NEW op \in Transfers, NEW a \in Accounts, NEW sum \in Sums,
               ModifyBalance(c, op, a, sum)
        PROVE  \E pc \in {"balance", "ready"} : (op \in QuickTrades => pc = "balance")
                    /\ Accept(c, op, a, None, sum, 0, pc)
    BY <1>4 DEF ModifyBalance, Transfers, QuickTrades
  <1>5. ASSUME NEW c \in Clients, NEW a \in Accounts, NEW i \in Instruments, NEW amount \in Amounts,
               NEW price \in Prices, BuyAssets(c, a, i, amount, price) \/ SellAssets(c, a, i, amount, price)
        PROVE  \E op \in QuickTrades : Accept(c, op, a, i, amount, price, "balance")
    BY <1>5 DEF BuyAssets, SellAssets, QuickTrades
  <1>6. ASSUME NEW c \in Clients, FindOwnedInstrument(c), request'[d] # request[d], request'[d].pc # "idle"
        PROVE  /\ request[d].pc # "idle" /\ request'[d].account = request[d].account
               /\ request'[d].op = request[d].op /\ request'[d].balance = request[d].balance
               /\ request'[d].owner = request[d].owner /\ (FeeRead(request'[d]) => FeeRead(request[d]))
    <2>1. c = d /\ request[d].op \in QuickTrades
          /\ request[d].pc = IF request[d].op = "sell" THEN "balance" ELSE "collecting"
      BY <1>0, <1>6, FoundRow, <1>2 DEF FindOwnedInstrument
    <2>2. /\ request'[d].account = request[d].account /\ request'[d].op = request[d].op
          /\ request'[d].balance = request[d].balance /\ request'[d].owner = request[d].owner
          /\ request'[d].pc = IF request[d].op = "sell" THEN "owned" ELSE "ready"
      BY <1>0, <1>2, <1>6, <2>1, FoundRow
    <2>. QED
      BY <2>1, <2>2 DEF FeeRead
  <1>7. ASSUME NEW c \in Clients, CollectFee(c)
        PROVE  \/ request'[d] = request[d]
               \/ /\ request[d].pc # "idle" /\ request'[d].account = request[d].account
                  /\ request'[d].op = request[d].op /\ request'[d].balance = request[d].balance
                  /\ request'[d].owner = balance[Owner]
    BY <1>0, <1>7 DEF CollectFee
  <1>8. ASSUME NEW c \in Clients, CommitTransfer(c) \/ CommitTrade(c) \/ Rollback(c)
        PROVE  request'[d] = request[d] \/ request'[d].pc = "idle"
    BY <1>2, <1>8 DEF CommitTransfer, CommitTrade, Rollback
  <1>9. CASE UNCHANGED vars
    BY <1>1, <1>9 DEF vars
  <1>. QED
    BY <1>1, <1>3, <1>4, <1>5, <1>6, <1>7, <1>8, <1>9 DEF Next

----------------------------------------------------------------------------
(* No money is made up: the balances and every value a request still holds   *)
(* are within the range that the entries written so far allow, and more      *)
(* entries only widen it.                                                    *)

Fits(a, v) == Within(entries[a], Opening[a], v)

RangeInv ==
    /\ TypeOK
    /\ \A a \in Accounts : Fits(a, balance[a])
    /\ \A c \in Clients : request[c].pc # "idle" =>
            /\ Fits(request[c].account, request[c].balance)
            /\ FeeRead(request[c]) => Fits(Owner, request[c].owner)

LEMMA InitRange == Init => RangeInv
  <1>. SUFFICES ASSUME Init PROVE RangeInv
    OBVIOUS
  <1>1. ASSUME NEW a \in Accounts PROVE Fits(a, balance[a])
    <2>1. entries[a] = << >> /\ balance[a] = Opening[a] /\ Opening[a] \in Int
      BY OpeningsCovered DEF Init
    <2>2. << >> \in Seq(EntryType) /\ [action |-> "collectfee", old |-> 0, change |-> 0] \in EntryType
      BY DEF EntryType
    <2>3. Gain(<< >>) = 0 /\ Loss(<< >>) = 0
      BY <2>2, OneMoreEntry
    <2>. QED
      BY <2>1, <2>3 DEF Fits, Within
  <1>2. \A c \in Clients : request[c].pc = "idle"
    BY DEF Init, Idle
  <1>. QED
    BY <1>1, <1>2, InitType DEF RangeInv

(* The range of an account never narrows, and the commits stay within it. *)
LEMMA RangeWidens ==
    ASSUME TypeOK, [Next]_vars, NEW a \in Accounts, NEW v \in Int, Fits(a, v)
    PROVE  Within(entries'[a], Opening[a], v)
  <1>0. entries[a] \in Seq(EntryType) /\ Opening[a] \in Int
    BY OpeningsCovered DEF TypeOK
  <1>1. ASSUME NEW e \in EntryType, NEW f \in EntryType, NEW g \in EntryType
        PROVE  /\ Within(Append(entries[a], e), Opening[a], v)
               /\ Within(Append(Append(entries[a], e), f), Opening[a], v)
               /\ Within(Append(Append(Append(entries[a], e), f), g), Opening[a], v)
    <2>1. Append(entries[a], e) \in Seq(EntryType) /\ Append(Append(entries[a], e), f) \in Seq(EntryType)
      BY <1>0
    <2>2. Within(Append(entries[a], e), Opening[a], v)
      BY <1>0, WithinGrows DEF Fits
    <2>3. Within(Append(Append(entries[a], e), f), Opening[a], v)
      BY <1>0, <2>1, <2>2, WithinGrows
    <2>. QED
      BY <1>0, <2>1, <2>2, <2>3, WithinGrows
  <1>2. ASSUME NEW c \in Clients, CommitTransfer(c) PROVE Within(entries'[a], Opening[a], v)
    BY <1>1, <1>2, TransferBooks DEF Fits
  <1>3. ASSUME NEW c \in Clients, CommitTrade(c) PROVE Within(entries'[a], Opening[a], v)
    BY <1>1, <1>3, TradeBooks DEF Fits, Books
  <1>. QED
    BY <1>2, <1>3, BooksStep DEF Fits

LEMMA CommitsFit ==
    ASSUME RangeInv, [Next]_vars, NEW a \in Accounts
    PROVE  Within(entries'[a], Opening[a], balance'[a])
  <1>. TypeOK
    BY DEF RangeInv
  <1>0. entries[a] \in Seq(EntryType) /\ Opening[a] \in Int /\ balance[a] \in Int
    BY OpeningsCovered DEF TypeOK
  <1>1. CASE balance' = balance /\ entries' = entries
    BY <1>1 DEF RangeInv, Fits
  <1>2. ASSUME NEW e \in EntryType, Fits(a, e.old)
        PROVE  Within(Append(entries[a], e), Opening[a], e.old + e.change)
    <2>1. e.old \in Int
      BY DEF EntryType
    <2>. QED
      BY <1>0, <1>2, <2>1, WithinGrows DEF Fits
  <1>3. ASSUME NEW e \in EntryType, NEW f \in EntryType, Fits(a, e.old), f.old = e.old + e.change
        PROVE  Within(Append(Append(entries[a], e), f), Opening[a], f.old + f.change)
    <2>1. Within(Append(entries[a], e), Opening[a], f.old) /\ f.old \in Int
      BY <1>2, <1>3 DEF EntryType
    <2>2. Append(entries[a], e) \in Seq(EntryType)
      BY <1>0
    <2>. QED
      BY <1>0, <2>1, <2>2, WithinGrows
  <1>4. ASSUME NEW e \in EntryType, NEW f \in EntryType, NEW g \in EntryType, Fits(a, e.old),
               f.old = e.old + e.change, g.old = f.old + f.change
        PROVE  Within(Append(Append(Append(entries[a], e), f), g), Opening[a], g.old + g.change)
    <2>1. Within(Append(Append(entries[a], e), f), Opening[a], g.old) /\ g.old \in Int
      BY <1>3, <1>4 DEF EntryType
    <2>2. Append(Append(entries[a], e), f) \in Seq(EntryType)
      BY <1>0
    <2>. QED
      BY <1>0, <2>1, <2>2, WithinGrows
  <1>5. CASE \E c \in Clients : CommitTransfer(c)
    <2>. PICK c \in Clients : CommitTransfer(c)
      BY <1>5
    <2>1. Fits(request[c].account, request[c].balance)
      BY DEF RangeInv, CommitTransfer
    <2>. QED
      BY <1>2, <2>1, TransferBooks DEF RangeInv, Fits
  <1>6. CASE \E c \in Clients : CommitTrade(c)
    <2>. PICK c \in Clients : CommitTrade(c)
      BY <1>6
    <2>1. Fits(request[c].account, request[c].balance) /\ Fits(Owner, request[c].owner)
      BY DEF RangeInv, CommitTrade, FeeRead
    <2>2. PICK e \in EntryType, f \in EntryType, g \in EntryType : Books(c, e, f, g)
      BY TradeBooks
    <2>3. e.old = request[c].balance /\ f.old = e.old + e.change
          /\ g.old = IF request[c].account = Owner THEN f.old + f.change ELSE request[c].owner
      BY <2>2 DEF Books
    <2>4. CASE a = Owner /\ a = request[c].account
      BY <1>4, <2>1, <2>2, <2>3, <2>4 DEF Books
    <2>5. CASE a = Owner /\ a # request[c].account
      BY <1>2, <2>1, <2>2, <2>3, <2>5 DEF Books
    <2>6. CASE a # Owner /\ a = request[c].account
      BY <1>3, <2>1, <2>2, <2>3, <2>6 DEF Books
    <2>7. CASE a # Owner /\ a # request[c].account
      BY <2>2, <2>7 DEF Books, RangeInv, Fits
    <2>. QED
      BY <2>4, <2>5, <2>6, <2>7
  <1>. QED
    BY <1>1, <1>5, <1>6, BooksStep

LEMMA RangeKept == RangeInv /\ [Next]_vars => RangeInv'
  <1>. SUFFICES ASSUME RangeInv, [Next]_vars PROVE RangeInv'
    OBVIOUS
  <1>. TypeOK
    BY DEF RangeInv
  <1>1. \A a \in Accounts : Within(entries'[a], Opening[a], balance'[a])
    BY CommitsFit
  <1>2. ASSUME NEW d \in Clients, request'[d].pc # "idle"
        PROVE  /\ Within(entries'[request'[d].account], Opening[request'[d].account], request'[d].balance)
               /\ FeeRead(request'[d]) => Within(entries'[Owner], Opening[Owner], request'[d].owner)
    <2>1. /\ request[d].account \in Accounts /\ request[d].balance \in Int /\ request[d].owner \in Int
          /\ balance[Owner] \in Int
      BY RequestNumbers, OwnerIsAccount DEF TypeOK
    <2>2. CASE /\ request[d].pc # "idle" /\ request'[d].account = request[d].account
               /\ request'[d].balance = request[d].balance
               /\ \/ request'[d].owner = balance[Owner]
                  \/ request'[d].owner = request[d].owner /\ (FeeRead(request'[d]) => FeeRead(request[d]))
      <3>1. Fits(request[d].account, request[d].balance) /\ (FeeRead(request[d]) => Fits(Owner, request[d].owner))
            /\ Fits(Owner, balance[Owner])
        BY <2>2, OwnerIsAccount DEF RangeInv
      <3>2. Within(entries'[request[d].account], Opening[request[d].account], request[d].balance)
        BY <2>1, <3>1, RangeWidens
      <3>3. Within(entries'[Owner], Opening[Owner], balance[Owner])
            /\ (FeeRead(request[d]) => Within(entries'[Owner], Opening[Owner], request[d].owner))
        BY <2>1, <3>1, OwnerIsAccount, RangeWidens
      <3>. QED
        BY <2>2, <3>2, <3>3
    <2>3. CASE /\ request'[d].account \in Serves[d] /\ ~FeeRead(request'[d])
               /\ request'[d].balance = balance[request'[d].account] /\ UNCHANGED tables
      <3>1. request'[d].account \in Accounts /\ balance' = balance
        BY <2>3, ServesAccounts DEF tables
      <3>. QED
        BY <1>1, <2>3, <3>1
    <2>. QED
      BY <1>2, <2>2, <2>3, Tracked
  <1>3. (\A c \in Clients : request[c].pc # "idle" =>
            /\ Fits(request[c].account, request[c].balance)
            /\ FeeRead(request[c]) => Fits(Owner, request[c].owner))'
    BY <1>2 DEF Fits, FeeRead, Within, Gain, Loss
  <1>4. (\A a \in Accounts : Fits(a, balance[a]))'
    BY <1>1 DEF Fits, Within, Gain, Loss
  <1>. QED
    BY <1>3, <1>4, TypeKept DEF RangeInv

(* Overlapping requests lose updates but make up none: whatever a request    *)
(* has read and writes back, the balance stays between the opening less all  *)
(* debits and the opening with all credits booked for the account.           *)
THEOREM NothingMadeUp == Spec => []NothingInvented
  <1>1. RangeInv => NothingInvented
    <2>. SUFFICES ASSUME RangeInv, NEW a \in Accounts
                  PROVE  balance[a] \in Opening[a] - Debits(a) .. Opening[a] + Credits(a)
      BY DEF NothingInvented
    <2>1. Within(entries[a], Opening[a], balance[a]) /\ balance[a] \in Int /\ Opening[a] \in Int
          /\ entries[a] \in Seq(EntryType)
      BY OpeningsCovered DEF RangeInv, Fits, TypeOK
    <2>2. [action |-> "collectfee", old |-> 0, change |-> 0] \in EntryType
      BY DEF EntryType
    <2>3. Gain(entries[a]) \in Int /\ Loss(entries[a]) \in Int
      BY <2>1, <2>2, OneMoreEntry
    <2>4. Debits(a) = Loss(entries[a]) /\ Credits(a) = Gain(entries[a])
      BY DEF Debits, Credits, Loss, Gain
    <2>. QED
      BY <2>1, <2>3, <2>4 DEF Within
  <1>. QED
    BY InitRange, RangeKept, <1>1, PTL DEF Spec

----------------------------------------------------------------------------
(* An account whose requests do not overlap: what its request has read of    *)
(* its balance and of its row is what the tables still hold.                 *)

Asked ==
    \A c \in Clients : request[c].pc # "idle" =>
        /\ request[c].account \in Serves[c]
        /\ request[c].op \in Transfers => request[c].amount \in Sums \intersect Nat
        /\ request[c].op \in QuickTrades =>
                request[c].amount \in Amounts \intersect Nat /\ request[c].price \in Prices

RowRead(r) == r.op \in QuickTrades /\ r.pc \in (IF r.op = "sell" THEN {"owned", "ready"} ELSE {"ready"})

(* The row of the request, its balance and the rows of its account *)
UpToDate(r, cash, rows) ==
    /\ r.balance = cash
    /\ RowRead(r) => IF r.row = 0 THEN rows = << >> ELSE r.quantity = rows[r.row]

AloneInv ==
    /\ StockInv /\ CashInv /\ Asked
    /\ \A c \in Clients : request[c].pc # "idle" /\ request[c].account \in Exclusive =>
            UpToDate(request[c], balance[request[c].account], owned[request[c].account][request[c].instrument])
    /\ \A a \in Exclusive, i \in Instruments : Len(owned[a][i]) <= 1

LEMMA OneRequest ==
    ASSUME Asked, NEW c \in Clients, NEW d \in Clients, request[c].pc # "idle", request[d].pc # "idle",
           request[c].account \in Exclusive, request[d].account = request[c].account
    PROVE  c = d
  BY DEF Asked, Exclusive

LEMMA InitAlone == Init => AloneInv
  <1>. SUFFICES ASSUME Init PROVE AloneInv
    OBVIOUS
  <1>1. \A c \in Clients : request[c].pc = "idle"
    BY DEF Init, Idle
  <1>2. ASSUME NEW a \in Exclusive, NEW i \in Instruments PROVE Len(owned[a][i]) <= 1
    <2>1. owned[a][i] = << >> \/ owned[a][i] = <<Stock[a]>>
      BY DEF Init, Exclusive
    <2>2. Len(<< >>) = 0 /\ Len(<<Stock[a]>>) = 1
      OBVIOUS
    <2>3. Len(owned[a][i]) \in {0, 1}
      BY <2>1, <2>2, Zenon
    <2>4. \A n \in {0, 1} : n <= 1
      OBVIOUS
    <2>. QED
      BY <2>3, <2>4, Zenon
  <1>. QED
    BY <1>1, <1>2, InitStock, InitCash DEF AloneInv, Asked

LEMMA AskedKept ==
    ASSUME TypeOK, Asked, [Next]_vars
    PROVE  Asked'
  <1>. SUFFICES ASSUME NEW d \in Clients, request'[d].pc # "idle"
                PROVE  /\ request'[d].account \in Serves[d]
                       /\ request'[d].op \in Transfers => request'[d].amount \in Sums \intersect Nat
                       /\ request'[d].op \in QuickTrades =>
                            request'[d].amount \in Amounts \intersect Nat /\ request'[d].price \in Prices
    BY DEF Asked
  <1>0. request \in [Clients -> RequestType]
    BY DEF TypeOK
  <1>1. CASE /\ request[d].pc # "idle" /\ request'[d].account = request[d].account
             /\ request'[d].op = request[d].op /\ request'[d].amount = request[d].amount
             /\ request'[d].price = request[d].price
    BY <1>1 DEF Asked
  <1>2. ASSUME NEW c \in Clients, request' = [request EXCEPT ![c] = Idle]
        PROVE  request'[d] = request[d]
    BY <1>0, <1>2 DEF Idle
  <1>3. ASSUME NEW c \in Clients, NEW op, NEW a, NEW i, NEW amount \in Int, NEW price, NEW pc,
               Accept(c, op, a, i, amount, price, pc)
        PROVE  \/ request'[d] = request[d]
               \/ /\ request'[d].account = a /\ a \in Serves[d] /\ request'[d].op = op
                  /\ request'[d].amount = amount /\ amount \in Nat /\ request'[d].price = price
    BY <1>0, <1>3 DEF Accept
  <1>4. ASSUME NEW c \in Clients, NEW op \in Transfers, NEW a \in Accounts, NEW sum \in Sums,
               ModifyBalance(c, op, a, sum), request'[d] # request[d]
        PROVE  /\ request'[d].account \in Serves[d] /\ request'[d].op \notin QuickTrades
               /\ request'[d].amount \in Sums \intersect Nat
    <2>1. Accept(c, op, a, None, sum, 0, "ready") /\ sum \in Int /\ op \notin QuickTrades
      BY <1>4, NumbersOK DEF ModifyBalance, Transfers, QuickTrades
    <2>. QED
      BY <1>3, <1>4, <2>1
  <1>5. ASSUME NEW c \in Clients, NEW a \in Accounts, NEW i \in Instruments, NEW amount \in Amounts,
               NEW price \in Prices, BuyAssets(c, a, i, amount, price) \/ SellAssets(c, a, i, amount, price),
               request'[d] # request[d]
        PROVE  /\ request'[d].account \in Serves[d] /\ request'[d].op \notin Transfers
               /\ request'[d].amount \in Amounts \intersect Nat /\ request'[d].price \in Prices
    <2>1. amount \in Int
      BY NumbersOK
    <2>2. PICK op \in QuickTrades : Accept(c, op, a, i, amount, price, "balance")
      BY <1>5 DEF BuyAssets, SellAssets, QuickTrades
    <2>3. op \notin Transfers
      BY DEF Transfers, QuickTrades
    <2>. QED
      BY <1>3, <1>5, <2>1, <2>2, <2>3
  <1>6. ASSUME NEW c \in Clients, FindOwnedInstrument(c) \/ CollectFee(c), request'[d] # request[d]
        PROVE  /\ request[d].pc # "idle" /\ request'[d].account = request[d].account
               /\ request'[d].op = request[d].op /\ request'[d].amount = request[d].amount
               /\ request'[d].price = request[d].price
    <2>1. CASE FindOwnedInstrument(c)
      <3>1. c = d /\ request[d].pc # "idle"
        BY <1>0, <1>2, <1>6, <2>1, FoundRow DEF FindOwnedInstrument
      <3>. QED
        BY <1>0, <1>2, <1>6, <2>1, <3>1, FoundRow
    <2>2. CASE CollectFee(c)
      BY <1>0, <1>6, <2>2 DEF CollectFee
    <2>. QED
      BY <1>6, <2>1, <2>2
  <1>7. ASSUME NEW c \in Clients, CommitTransfer(c) \/ CommitTrade(c) \/ Rollback(c)
        PROVE  request'[d] = request[d]
    BY <1>2, <1>7 DEF CommitTransfer, CommitTrade, Rollback
  <1>8. CASE UNCHANGED vars
    BY <1>1, <1>8 DEF vars
  <1>9. CASE request'[d] = request[d]
    BY <1>1, <1>9
  <1>. QED
    BY <1>1, <1>4, <1>5, <1>6, <1>7, <1>8, <1>9 DEF Next

(* The tables of an account after a commit *)
LEMMA TransferEffect ==
    ASSUME TypeOK, NEW c \in Clients, CommitTransfer(c)
    PROVE  /\ owned' = owned
           /\ \A a \in Accounts :
                balance'[a] = IF a # request[c].account THEN balance[a]
                              ELSE IF request[c].op = "withdraw" THEN request[c].balance - request[c].amount
                              ELSE request[c].balance + request[c].amount
  <1>1. request[c].account \in Accounts /\ request[c].balance \in Int /\ request[c].amount \in Nat
    BY RequestNumbers
  <1>. PICK change : change = IF request[c].op = "withdraw" THEN -request[c].amount ELSE request[c].amount
    OBVIOUS
  <1>2. balance' = [balance EXCEPT ![request[c].account] = request[c].balance + change] /\ owned' = owned
    BY DEF CommitTransfer
  <1>3. request[c].balance + change = IF request[c].op = "withdraw" THEN request[c].balance - request[c].amount
                                      ELSE request[c].balance + request[c].amount
    BY <1>1
  <1>. QED
    BY <1>1, <1>2, <1>3 DEF TypeOK

LEMMA TradeEffect ==
    ASSUME TypeOK, NEW c \in Clients, CommitTrade(c)
    PROVE  /\ \A a \in Accounts \ {Owner} :
                balance'[a] = IF a # request[c].account THEN balance[a]
                              ELSE request[c].balance + Income(request[c]) - Ppt
           /\ \A a \in Accounts, i \in Instruments :
                owned'[a][i] = IF a = request[c].account /\ i = request[c].instrument
                               THEN StoreRow(owned[a][i], request[c]) ELSE owned[a][i]
           /\ request[c].instrument \in Instruments
  <1>1. request[c].account \in Accounts /\ request[c].instrument \in Instruments
    BY RequestNumbers DEF TypeOK, CommitTrade
  <1>. PICK holder, i, mine, owners, row :
            /\ holder = request[c].account /\ i = request[c].instrument
            /\ mine = request[c].balance + Income(request[c]) - Ppt
            /\ owners = OwnerNow(request[c]) + Ppt
            /\ row = StoreRow(owned[request[c].account][request[c].instrument], request[c])
    OBVIOUS
  <1>2. /\ balance' = [[balance EXCEPT ![holder] = mine] EXCEPT ![Owner] = owners]
        /\ owned' = [owned EXCEPT ![holder][i] = row]
    BY DEF CommitTrade
  <1>3. \A a \in Accounts \ {Owner} : balance'[a] = IF a # holder THEN balance[a] ELSE mine
    BY <1>1, <1>2, OwnerIsAccount DEF TypeOK
  <1>4. \A a \in Accounts, j \in Instruments :
            owned'[a][j] = IF a = holder /\ j = i THEN row ELSE owned[a][j]
    BY <1>1, <1>2 DEF TypeOK
  <1>. QED
    BY <1>1, <1>3, <1>4

(* A request is up to date when it begins, when it reads its row, and until  *)
(* it ends: nobody else works for the account.                               *)
LEMMA UpToDateKept ==
    ASSUME AloneInv, [Next]_vars, NEW d \in Clients, request'[d].pc # "idle",
           request'[d].account \in Exclusive
    PROVE  UpToDate(request'[d], balance'[request'[d].account],
                    owned'[request'[d].account][request'[d].instrument])
  <1>0. TypeOK /\ Asked /\ request \in [Clients -> RequestType]
    BY DEF AloneInv, StockInv, TypeOK
  <1>1. ASSUME request'[d] = request[d]
        PROVE  /\ UpToDate(request'[d], balance[request'[d].account],
                           owned[request'[d].account][request'[d].instrument])
               /\ request[d].account \in Exclusive \ {Owner} /\ request[d].account \in Accounts
               /\ RowRead(request[d]) => request[d].instrument \in Instruments
    BY <1>0, <1>1 DEF AloneInv, Exclusive, TypeOK, RowRead
  <1>2. ASSUME NEW c \in Clients, request' = [request EXCEPT ![c] = Idle]
        PROVE  request'[d] = request[d] /\ c # d
    BY <1>0, <1>2 DEF Idle
  <1>3. ASSUME NEW c \in Clients, NEW op, NEW a, NEW i, NEW amount, NEW price,
               NEW pc \in {"balance", "ready"}, op \in QuickTrades => pc = "balance",
               Accept(c, op, a, i, amount, price, pc)
        PROVE  UpToDate(request'[d], balance'[request'[d].account],
                        owned'[request'[d].account][request'[d].instrument])
    <2>1. UNCHANGED <<balance, owned>>
      BY <1>3 DEF Accept, tables
    <2>2. CASE c = d
      <3>1. request'[d].balance = balance[request'[d].account] /\ request'[d].pc = pc /\ request'[d].op = op
        BY <1>0, <1>3, <2>2 DEF Accept
      <3>2. ~RowRead(request'[d])
        BY <1>3, <3>1 DEF RowRead
      <3>. QED
        BY <2>1, <3>1, <3>2 DEF UpToDate
    <2>3. CASE c # d
      <3>1. request'[d] = request[d]
        BY <1>0, <1>3, <2>3 DEF Accept
      <3>. QED
        BY <1>1, <2>1, <3>1
    <2>. QED
      BY <2>2, <2>3
  <1>4. ASSUME NEW c \in Clients, NEW op \in Transfers, NEW a \in Accounts, NEW sum \in Sums,
               ModifyBalance(c, op, a, sum)
        PROVE  UpToDate(request'[d], balance'[request'[d].account],
                        owned'[request'[d].account][request'[d].instrument])
    BY <1>3, <1>4 DEF ModifyBalance, Transfers, QuickTrades
  <1>5. ASSUME NEW c \in Clients, NEW a \in Accounts, NEW i \in Instruments, NEW amount \in Amounts,
               NEW price \in Prices, BuyAssets(c, a, i, amount, price) \/ SellAssets(c, a, i, amount, price)
        PROVE  UpToDate(request'[d], balance'[request'[d].account],
                        owned'[request'[d].account][request'[d].instrument])
    BY <1>3, <1>5 DEF BuyAssets, SellAssets
  <1>6. ASSUME NEW c \in Clients, FindOwnedInstrument(c)
        PROVE  UpToDate(request'[d], balance'[request'[d].account],
                        owned'[request'[d].account][request'[d].instrument])
    <2>1. UNCHANGED <<balance, owned>>
      BY <1>6 DEF FindOwnedInstrument, tables
    <2>2. CASE request'[d] = request[d]
      BY <1>1, <2>1, <2>2
    <2>3. CASE request'[d] # request[d]
      <3>1. c = d /\ request[d].pc # "idle"
        BY <1>0, <1>2, <1>6, <2>3, FoundRow DEF FindOwnedInstrument
      <3>2. PICK row \in SomeRow(request[d].account, request[d].instrument) :
              /\ request'[d].account = request[d].account /\ request'[d].instrument = request[d].instrument
              /\ request'[d].balance = request[d].balance /\ request'[d].row = row
              /\ request'[d].quantity = QuantityOf(request[d].account, request[d].instrument, row)
        BY <1>0, <1>2, <1>6, <3>1, FoundRow
      <3>3. request[d].balance = balance[request[d].account]
        BY <3>1, <3>2 DEF AloneInv, UpToDate
      <3>4. owned[request[d].account][request[d].instrument] \in Seq(Int)
        BY <1>0, <1>6, <3>1 DEF FindOwnedInstrument, TypeOK, RequestType
      <3>5. IF row = 0 THEN owned[request[d].account][request[d].instrument] = << >>
            ELSE row \in DOMAIN owned[request[d].account][request[d].instrument]
        BY <3>4 DEF SomeRow
      <3>. QED
        BY <2>1, <3>2, <3>3, <3>5 DEF UpToDate, QuantityOf
    <2>. QED
      BY <2>2, <2>3
  <1>7. ASSUME NEW c \in Clients, CollectFee(c)
        PROVE  UpToDate(request'[d], balance'[request'[d].account],
                        owned'[request'[d].account][request'[d].instrument])
    <2>1. UNCHANGED <<balance, owned>>
      BY <1>7 DEF CollectFee, tables
    <2>2. CASE request'[d] = request[d]
      BY <1>1, <2>1, <2>2
    <2>3. CASE request'[d] # request[d]
      <3>1. /\ request[d].pc = (IF request[d].op = "sell" THEN "owned" ELSE "balance")
            /\ request'[d].pc = (IF request[d].op = "sell" THEN "ready" ELSE "collecting")
            /\ request[d].op \in QuickTrades /\ request'[d].op = request[d].op
            /\ request'[d].account = request[d].account /\ request'[d].instrument = request[d].instrument
            /\ request'[d].balance = request[d].balance /\ request'[d].row = request[d].row
            /\ request'[d].quantity = request[d].quantity
        BY <1>0, <1>7, <2>3 DEF CollectFee
      <3>2. UpToDate(request[d], balance[request[d].account], owned[request[d].account][request[d].instrument])
        BY <3>1 DEF AloneInv
      <3>3. RowRead(request'[d]) => RowRead(request[d])
        BY <3>1 DEF RowRead
      <3>. QED
        BY <2>1, <3>1, <3>2, <3>3 DEF UpToDate
    <2>. QED
      BY <2>2, <2>3
  <1>8. ASSUME NEW c \in Clients, Rollback(c)
        PROVE  UpToDate(request'[d], balance'[request'[d].account],
                        owned'[request'[d].account][request'[d].instrument])
    BY <1>1, <1>2, <1>8 DEF Rollback, tables
  <1>9. ASSUME NEW c \in Clients, CommitTransfer(c)
        PROVE  UpToDate(request'[d], balance'[request'[d].account],
                        owned'[request'[d].account][request'[d].instrument])
    <2>1. request'[d] = request[d] /\ c # d /\ request[c].pc # "idle"
      BY <1>2, <1>9 DEF CommitTransfer
    <2>2. request[d].account # request[c].account
      BY <1>0, <1>1, <2>1, OneRequest
    <2>. QED
      BY <1>0, <1>1, <1>9, <2>1, <2>2, TransferEffect
  <1>10. ASSUME NEW c \in Clients, CommitTrade(c)
         PROVE  UpToDate(request'[d], balance'[request'[d].account],
                         owned'[request'[d].account][request'[d].instrument])
    <2>1. request'[d] = request[d] /\ c # d /\ request[c].pc # "idle"
      BY <1>2, <1>10 DEF CommitTrade
    <2>2. request[d].account # request[c].account
      BY <1>0, <1>1, <2>1, OneRequest
    <2>3. balance'[request[d].account] = balance[request[d].account]
      BY <1>0, <1>1, <1>10, <2>1, <2>2, TradeEffect
    <2>4. RowRead(request[d]) =>
            owned'[request[d].account][request[d].instrument] = owned[request[d].account][request[d].instrument]
      BY <1>0, <1>1, <1>10, <2>1, <2>2, TradeEffect
    <2>. QED
      BY <1>1, <2>1, <2>3, <2>4 DEF UpToDate
  <1>11. CASE UNCHANGED vars
    BY <1>1, <1>11 DEF vars, tables
  <1>. QED
    BY <1>4, <1>5, <1>6, <1>7, <1>8, <1>9, <1>10, <1>11 DEF Next

LEMMA AtMostOne ==
    ASSUME NEW rows \in Seq(Int), Len(rows) <= 1
    PROVE  \/ rows = << >> /\ DOMAIN rows = {}
           \/ \E n \in Int : rows = <<n>> /\ DOMAIN rows = {1}
  <1>1. Len(rows) \in Nat /\ DOMAIN rows = 1..Len(rows) /\ rows \in [1..Len(rows) -> Int]
    BY LenProperties
  <1>2. CASE Len(rows) = 0
    <2>1. rows = << >>
      BY <1>2, EmptySeq
    <2>. QED
      BY <1>1, <1>2, <2>1
  <1>3. CASE Len(rows) = 1
    <2>1. DOMAIN rows = {1} /\ rows[1] \in Int
      BY <1>1, <1>3
    <2>2. rows = <<rows[1]>>
      BY <1>3
    <2>. QED
      BY <2>1, <2>2
  <1>. QED
    BY <1>1, <1>2, <1>3

(* UpdateOwnedInstrument of an account that works alone *)
LEMMA OneRowStored ==
    ASSUME AloneInv, NEW c \in Clients, CommitTrade(c), request[c].account \in Exclusive,
           NEW rows, rows = owned[request[c].account][request[c].instrument],
           NEW change, change = IF request[c].op = "sell" THEN -request[c].amount ELSE request[c].amount
    PROVE  /\ change \in Int
           /\ \/ rows = << >> /\ StoreRow(rows, request[c]) = <<change>> /\ request[c].op = "buy"
              \/ \E n \in Int : /\ rows = <<n>> /\ StoreRow(rows, request[c]) = <<n + change>>
                                /\ request[c].op = "sell" => request[c].amount <= n
  <1>1. /\ request[c].op \in QuickTrades /\ request[c].pc = "ready" /\ RowRead(request[c])
        /\ request[c].instrument \in Instruments
        /\ request[c].row \in {0} \union DOMAIN rows
    BY DEF CommitTrade, AloneInv, StockInv, TypeOK, Rows, RowRead
  <1>2. rows \in Seq(Int) /\ Len(rows) <= 1
    BY <1>1 DEF AloneInv, StockInv, TypeOK, Exclusive
  <1>3. IF request[c].row = 0 THEN rows = << >> ELSE request[c].quantity = rows[request[c].row]
    BY <1>1 DEF AloneInv, UpToDate
  <1>4. request[c].op = "sell" => request[c].row # 0 /\ request[c].quantity >= request[c].amount
    BY <1>1 DEF AloneInv, StockInv, RowChecked
  <1>5. change \in Int /\ request[c].amount \in Nat
    BY RequestNumbers DEF AloneInv, StockInv
  <1>6. StoreRow(rows, request[c]) = IF request[c].row = 0 THEN Append(rows, change)
                                     ELSE [rows EXCEPT ![request[c].row] = request[c].quantity + change]
    BY DEF StoreRow
  <1>7. CASE request[c].row = 0
    <2>1. rows = << >> /\ request[c].op = "buy"
      BY <1>1, <1>3, <1>4, <1>7 DEF QuickTrades
    <2>2. StoreRow(rows, request[c]) = Append(<< >>, change)
      BY <1>6, <1>7, <2>1
    <2>3. Append(<< >>, change) = <<change>>
      OBVIOUS
    <2>. QED
      BY <1>5, <2>1, <2>2, <2>3
  <1>8. CASE request[c].row # 0
    <2>2. PICK n \in Int : rows = <<n>> /\ DOMAIN rows = {1}
      BY <1>1, <1>2, <1>8, AtMostOne
    <2>1. request[c].row = 1
      BY <1>1, <1>8, <2>2
    <2>3. request[c].quantity = n
      BY <1>3, <1>8, <2>1, <2>2
    <2>4. StoreRow(rows, request[c]) = [<<n>> EXCEPT ![1] = n + change]
      BY <1>6, <1>8, <2>1, <2>2, <2>3
    <2>5. [<<n>> EXCEPT ![1] = n + change] = <<n + change>>
      OBVIOUS
    <2>. QED
      BY <1>4, <1>5, <2>2, <2>3, <2>4, <2>5
  <1>. QED
    BY <1>5, <1>7, <1>8

LEMMA OneRowKept ==
    ASSUME AloneInv, [Next]_vars, NEW a \in Exclusive, NEW i \in Instruments
    PROVE  Len(owned'[a][i]) <= 1
  <1>0. a \in Accounts /\ a # Owner
    BY DEF Exclusive
  <1>1. CASE owned' = owned
    BY <1>1 DEF AloneInv
  <1>2. ASSUME NEW c \in Clients, CommitTrade(c)
        PROVE  Len(owned'[a][i]) <= 1
    <2>1. owned'[a][i] = IF a = request[c].account /\ i = request[c].instrument
                         THEN StoreRow(owned[a][i], request[c]) ELSE owned[a][i]
      BY <1>0, <1>2, TradeEffect DEF AloneInv, StockInv
    <2>2. CASE a = request[c].account /\ i = request[c].instrument
      <3>1. \E n : owned'[a][i] = <<n>>
        BY <1>2, <2>1, <2>2, OneRowStored
      <3>2. \A n : Len(<<n>>) = 1
        OBVIOUS
      <3>3. Len(owned'[a][i]) = 1
        BY <3>1, <3>2, Zenon
      <3>. QED
        BY <3>3
    <2>3. CASE ~(a = request[c].account /\ i = request[c].instrument)
      BY <2>1, <2>3 DEF AloneInv
    <2>. QED
      BY <2>2, <2>3
  <1>3. owned' = owned \/ \E c \in Clients : CommitTrade(c)
    <2>1. ASSUME NEW c \in Clients, NEW op \in Transfers, NEW b \in Accounts, NEW sum \in Sums,
                 ModifyBalance(c, op, b, sum)
          PROVE  owned' = owned
      BY <2>1 DEF ModifyBalance, Accept, tables
    <2>2. ASSUME NEW c \in Clients, NEW b \in Accounts, NEW j \in Instruments, NEW amount \in Amounts,
                 NEW price \in Prices, BuyAssets(c, b, j, amount, price) \/ SellAssets(c, b, j, amount, price)
          PROVE  owned' = owned
      BY <2>2 DEF BuyAssets, SellAssets, Accept, tables
    <2>3. ASSUME NEW c \in Clients,
                 FindOwnedInstrument(c) \/ CollectFee(c) \/ Rollback(c) \/ CommitTransfer(c)
          PROVE  owned' = owned
      BY <2>3 DEF FindOwnedInstrument, CollectFee, Rollback, CommitTransfer, tables
    <2>4. CASE UNCHANGED vars
      BY <2>4 DEF vars, tables
    <2>. QED
      BY <2>1, <2>2, <2>3, <2>4 DEF Next
  <1>. QED
    BY <1>1, <1>2, <1>3

LEMMA AloneKept == AloneInv /\ [Next]_vars => AloneInv'
  <1>. SUFFICES ASSUME AloneInv, [Next]_vars PROVE AloneInv'
    OBVIOUS
  <1>1. StockInv' /\ CashInv' /\ Asked'
    BY StockKept, CashKept, AskedKept DEF AloneInv, StockInv
  <1>2. (\A d \in Clients : request[d].pc # "idle" /\ request[d].account \in Exclusive =>
            UpToDate(request[d], balance[request[d].account], owned[request[d].account][request[d].instrument]))'
    <2>1. \A d \in Clients : request'[d].pc # "idle" /\ request'[d].account \in Exclusive =>
            UpToDate(request'[d], balance'[request'[d].account],
                     owned'[request'[d].account][request'[d].instrument])
      BY UpToDateKept
    <2>. QED
      BY <2>1 DEF UpToDate, RowRead, Exclusive
  <1>3. (\A a \in Exclusive, i \in Instruments : Len(owned[a][i]) <= 1)'
    <2>1. \A a \in Exclusive, i \in Instruments : Len(owned'[a][i]) <= 1
      BY OneRowKept
    <2>. QED
      BY <2>1 DEF Exclusive
  <1>. QED
    BY <1>1, <1>2, <1>3 DEF AloneInv

(* UpdateOwnedInstrument adds a row only where GetOwnedInstrument found none *)
(* and, for an account whose requests do not overlap, none was added since:  *)
(* InstrumentService can index its rows by instrument.                       *)
THEOREM OneRow == Spec => []OneRowEach
  <1>1. AloneInv => OneRowEach
    <2>. SUFFICES ASSUME AloneInv, NEW a \in Exclusive, NEW i \in Instruments
                  PROVE  Cardinality(Rows(a, i)) <= 1
      BY DEF OneRowEach
    <2>1. owned[a][i] \in Seq(Int) /\ Len(owned[a][i]) <= 1
      BY DEF AloneInv, StockInv, TypeOK, Exclusive
    <2>2. Rows(a, i) = {} \/ Rows(a, i) = {1}
      BY <2>1, AtMostOne DEF Rows
    <2>3. Cardinality({}) = 0 /\ Cardinality({1}) = 1
      BY FS_EmptySet, FS_Singleton
    <2>4. Cardinality(Rows(a, i)) \in {0, 1}
      BY <2>2, <2>3, Zenon
    <2>5. \A n \in {0, 1} : n <= 1
      OBVIOUS
    <2>. QED
      BY <2>4, <2>5, Zenon
  <1>. QED
    BY InitAlone, AloneKept, <1>1, PTL DEF Spec

----------------------------------------------------------------------------
(* The refinement of AtomicExchange *)

Cash    == [a \in Exclusive |-> balance[a]]
Holding == [a \in Exclusive |-> [i \in Instruments |-> SumFunction(owned[a][i])]]

LEMMA SumOfOne ==
    ASSUME NEW n \in Int
    PROVE  SumFunction(<<n>>) = n /\ SumFunction(<< >>) = 0
  <1>1. << >> \in Seq(Int) /\ Append(<< >>, n) = <<n>>
    OBVIOUS
  <1>2. SumFunction(<< >>) = 0 /\ SumFunction(<<n>>) = SumFunction(<< >>) + n
    BY <1>1, SumOfSequence
  <1>. QED
    BY <1>2

LEMMA ExchangeInit == Init => Exchange!EInit
  <1>. SUFFICES ASSUME Init PROVE Exchange!EInit
    OBVIOUS
  <1>1. \A a \in Exclusive : a \in Accounts /\ balance[a] \in Nat /\ Stock[a] \in Nat
    BY OpeningsCovered DEF Init, Exclusive
  <1>2. \A a \in Exclusive, i \in Instruments : SumFunction(owned[a][i]) \in Nat
    <2>. SUFFICES ASSUME NEW a \in Exclusive, NEW i \in Instruments
                  PROVE  SumFunction(owned[a][i]) \in Nat
      OBVIOUS
    <2>1. owned[a][i] = << >> \/ owned[a][i] = <<Stock[a]>>
      BY <1>1 DEF Init
    <2>2. SumFunction(<< >>) \in Nat /\ SumFunction(<<Stock[a]>>) \in Nat
      BY <1>1, SumOfOne
    <2>. QED
      BY <2>1, <2>2, Zenon
  <1>. QED
    BY <1>1, <1>2 DEF Exchange!EInit

(* A deposit or withdrawal of an account that works alone is atomic. *)
LEMMA TransferIsAtomic ==
    ASSUME AloneInv, NEW c \in Clients, CommitTransfer(c), request[c].account \in Exclusive
    PROVE  Exchange!ENext
  <1>. PICK a \in Exclusive : a = request[c].account
    OBVIOUS
  <1>. PICK sum : sum = request[c].amount
    OBVIOUS
  <1>0. TypeOK /\ a \in Accounts
    BY DEF AloneInv, StockInv, Exclusive
  <1>1. request[c].op \in Transfers /\ sum \in Sums \intersect Nat /\ request[c].balance = balance[a]
        /\ (request[c].op = "withdraw" => sum <= balance[a]) /\ balance[a] \in Int
    BY <1>0 DEF AloneInv, CommitTransfer, Asked, UpToDate, CashInv, BalanceChecked, TypeOK
  <1>2. owned' = owned /\ \A b \in Exclusive :
            balance'[b] = IF b # a THEN balance[b]
                          ELSE IF request[c].op = "withdraw" THEN balance[a] - sum ELSE balance[a] + sum
    BY <1>0, <1>1, TransferEffect DEF Exclusive
  <1>3. Holding' = Holding
    BY <1>2 DEF Holding, Exclusive
  <1>4. CASE request[c].op = "withdraw"
    <2>1. Cash' = [Cash EXCEPT ![a] = @ - sum]
      BY <1>2, <1>4 DEF Cash, Exclusive
    <2>2. Exchange!Withdraw(a, sum)
      BY <1>1, <1>3, <1>4, <2>1 DEF Exchange!Withdraw, Cash, Holding
    <2>. QED
      BY <1>1, <2>2 DEF Exchange!ENext
  <1>5. CASE request[c].op # "withdraw"
    <2>1. Cash' = [Cash EXCEPT ![a] = @ + sum]
      BY <1>2, <1>5 DEF Cash, Exclusive
    <2>2. Exchange!Deposit(a, sum)
      BY <1>3, <2>1 DEF Exchange!Deposit, Cash, Holding
    <2>. QED
      BY <1>1, <2>2 DEF Exchange!ENext
  <1>. QED
    BY <1>4, <1>5

(* A trade of an account that works alone is atomic. *)
LEMMA TradeIsAtomic ==
    ASSUME AloneInv, NEW c \in Clients, CommitTrade(c), request[c].account \in Exclusive
    PROVE  Exchange!ENext
  <1>. PICK a \in Exclusive : a = request[c].account
    OBVIOUS
  <1>. PICK i, amount, price :
            i = request[c].instrument /\ amount = request[c].amount /\ price = request[c].price
    OBVIOUS
  <1>. PICK change : change = IF request[c].op = "sell" THEN -amount ELSE amount
    OBVIOUS
  <1>0. TypeOK /\ a \in Accounts /\ a # Owner
    BY DEF AloneInv, StockInv, Exclusive
  <1>1. /\ request[c].op \in QuickTrades /\ amount \in Amounts \intersect Nat /\ price \in Prices
        /\ request[c].balance = balance[a] /\ balance[a] \in Int
        /\ (request[c].op = "buy" => amount * price + Ppt <= balance[a])
    BY <1>0 DEF AloneInv, CommitTrade, Asked, UpToDate, CashInv, BalanceChecked, Covers, TypeOK
  <1>2. amount * price \in Nat /\ Ppt \in Nat
    BY <1>0, FeeIsNatural, RequestNumbers
  <1>3. /\ i \in Instruments
        /\ \A b \in Exclusive :
            balance'[b] = IF b # a THEN balance[b] ELSE balance[a] + Income(request[c]) - Ppt
        /\ \A b \in Exclusive, j \in Instruments :
            owned'[b][j] = IF b = a /\ j = i THEN StoreRow(owned[b][j], request[c]) ELSE owned[b][j]
    BY <1>0, <1>1, TradeEffect DEF Exclusive
  <1>4. Cash' = [Cash EXCEPT ![a] = balance[a] + Income(request[c]) - Ppt]
    BY <1>3 DEF Cash, Exclusive
  <1>5. /\ SumFunction(owned'[a][i]) = SumFunction(owned[a][i]) + change
        /\ request[c].op = "sell" => amount <= SumFunction(owned[a][i])
    <2>. PICK rows : rows = owned[a][i]
      OBVIOUS
    <2>1. owned'[a][i] = StoreRow(rows, request[c])
      BY <1>3
    <2>2. change \in Int
      BY <1>1
    <2>3. \/ rows = << >> /\ StoreRow(rows, request[c]) = <<change>> /\ request[c].op = "buy"
          \/ \E n \in Int : /\ rows = <<n>> /\ StoreRow(rows, request[c]) = <<n + change>>
                            /\ request[c].op = "sell" => amount <= n
      BY OneRowStored
    <2>4. CASE rows = << >> /\ StoreRow(rows, request[c]) = <<change>> /\ request[c].op = "buy"
      BY <2>1, <2>2, <2>4, SumOfOne
    <2>5. CASE \E n \in Int : /\ rows = <<n>> /\ StoreRow(rows, request[c]) = <<n + change>>
                              /\ request[c].op = "sell" => amount <= n
      <3>1. PICK n \in Int : /\ rows = <<n>> /\ StoreRow(rows, request[c]) = <<n + change>>
                             /\ request[c].op = "sell" => amount <= n
        BY <2>5
      <3>2. n + change \in Int
        BY <2>2
      <3>3. SumFunction(owned'[a][i]) = n + change /\ SumFunction(owned[a][i]) = n
        BY <2>1, <3>1, <3>2, SumOfOne
      <3>. QED
        BY <3>1, <3>3
    <2>. QED
      BY <2>3, <2>4, <2>5
  <1>6. Holding' = [Holding EXCEPT ![a][i] = SumFunction(owned[a][i]) + change]
    <2>. PICK sum : sum = SumFunction(owned[a][i]) + change
      OBVIOUS
    <2>1. Exclusive' = Exclusive
      BY DEF Exclusive
    <2>2. \A b \in Exclusive, j \in Instruments :
            SumFunction(owned'[b][j]) = IF b = a /\ j = i THEN sum ELSE SumFunction(owned[b][j])
      BY <1>3, <1>5
    <2>3. Holding' = [b \in Exclusive |-> [j \in Instruments |-> SumFunction(owned'[b][j])]]
      BY <2>1 DEF Holding
    <2>4. Holding' = [b \in Exclusive |-> [j \in Instruments |->
                        IF b = a /\ j = i THEN sum ELSE SumFunction(owned[b][j])]]
      BY <2>2, <2>3
    <2>. QED
      BY <1>3, <2>4 DEF Holding
  <1>7. Cash[a] = balance[a] /\ Holding[a][i] = SumFunction(owned[a][i])
    BY <1>3 DEF Cash, Holding
  <1>8. CASE request[c].op = "sell"
    <2>1. Income(request[c]) = amount * price /\ change = -amount
      BY <1>8 DEF Income
    <2>2. Cash' = [Cash EXCEPT ![a] = @ + amount * price - Ppt]
      BY <1>4, <1>7, <2>1
    <2>3. SumFunction(owned[a][i]) \in Int /\ amount \in Nat
      <3>1. owned[a][i] \in Seq(Int) /\ 0 \in Int
        BY <1>0, <1>3 DEF TypeOK
      <3>. QED
        BY <1>1, <3>1, SumOfSequence
    <2>4. Holding' = [Holding EXCEPT ![a][i] = @ - amount]
      <3>1. SumFunction(owned[a][i]) + change = Holding[a][i] - amount
        BY <1>7, <2>1, <2>3
      <3>. QED
        BY <1>6, <3>1
    <2>5. Exchange!Sell(a, i, amount, price)
      BY <1>5, <1>7, <1>8, <2>2, <2>4 DEF Exchange!Sell, Cash, Holding
    <2>. QED
      BY <1>1, <1>3, <2>5 DEF Exchange!ENext
  <1>9. CASE request[c].op = "buy"
    <2>1. Income(request[c]) = -(amount * price) /\ change = amount
      BY <1>9 DEF Income
    <2>2. balance[a] + Income(request[c]) - Ppt = Cash[a] - amount * price - Ppt
      BY <1>1, <1>2, <1>7, <2>1
    <2>3. Cash' = [Cash EXCEPT ![a] = @ - amount * price - Ppt]
      BY <1>4, <2>2
    <2>4. Holding' = [Holding EXCEPT ![a][i] = @ + amount]
      BY <1>6, <1>7, <2>1
    <2>5. Exchange!Buy(a, i, amount, price)
      BY <1>1, <1>7, <1>9, <2>3, <2>4 DEF Exchange!Buy, Cash, Holding
    <2>. QED
      BY <1>1, <1>3, <2>5 DEF Exchange!ENext
  <1>. QED
    BY <1>1, <1>8, <1>9 DEF QuickTrades

(* The balances and rows change in commits only. *)
LEMMA OwnedStep ==
    ASSUME TypeOK, [Next]_vars
    PROVE  UNCHANGED <<balance, owned>> \/ \E c \in Clients : CommitTransfer(c) \/ CommitTrade(c)
  <1>1. ASSUME NEW c \in Clients, NEW op \in Transfers, NEW b \in Accounts, NEW sum \in Sums,
               ModifyBalance(c, op, b, sum)
        PROVE  UNCHANGED <<balance, owned>>
    BY <1>1 DEF ModifyBalance, Accept, tables
  <1>2. ASSUME NEW c \in Clients, NEW b \in Accounts, NEW j \in Instruments, NEW amount \in Amounts,
               NEW price \in Prices, BuyAssets(c, b, j, amount, price) \/ SellAssets(c, b, j, amount, price)
        PROVE  UNCHANGED <<balance, owned>>
    BY <1>2 DEF BuyAssets, SellAssets, Accept, tables
  <1>3. ASSUME NEW c \in Clients, FindOwnedInstrument(c) \/ CollectFee(c) \/ Rollback(c)
        PROVE  UNCHANGED <<balance, owned>>
    BY <1>3 DEF FindOwnedInstrument, CollectFee, Rollback, tables
  <1>4. CASE UNCHANGED vars
    BY <1>4 DEF vars, tables
  <1>. QED
    BY <1>1, <1>2, <1>3, <1>4 DEF Next

LEMMA ExchangeStep ==
    ASSUME AloneInv, [Next]_vars
    PROVE  Exchange!ENext \/ UNCHANGED <<Cash, Holding>>
  <1>0. TypeOK
    BY DEF AloneInv, StockInv
  <1>1. CASE UNCHANGED <<balance, owned>>
    BY <1>1 DEF Cash, Holding, Exclusive
  <1>2. ASSUME NEW c \in Clients, CommitTransfer(c), request[c].account \notin Exclusive
        PROVE  UNCHANGED <<Cash, Holding>>
    <2>1. owned' = owned /\ \A a \in Exclusive : balance'[a] = balance[a]
      BY <1>0, <1>2, TransferEffect DEF Exclusive
    <2>. QED
      BY <2>1 DEF Cash, Holding, Exclusive
  <1>3. ASSUME NEW c \in Clients, CommitTrade(c), request[c].account \notin Exclusive
        PROVE  UNCHANGED <<Cash, Holding>>
    <2>1. \A a \in Exclusive :
            balance'[a] = balance[a] /\ \A i \in Instruments : owned'[a][i] = owned[a][i]
      BY <1>0, <1>3, TradeEffect DEF Exclusive
    <2>. QED
      BY <2>1 DEF Cash, Holding, Exclusive
  <1>. QED
    BY <1>0, <1>1, <1>2, <1>3, TransferIsAtomic, TradeIsAtomic, OwnedStep

(* For an account that has one request at a time, the many steps of its      *)
(* requests amount to single deposits, withdrawals, purchases and sales that *)
(* were covered when they happened: AtomicExchange, for every account,       *)
(* client, amount, price and fee.                                            *)
THEOREM TradesAreAtomic == Spec => ImplementsExchange
  <1>1. AloneInv /\ [Next]_vars => [Exchange!ENext]_<<Cash, Holding>>
    BY ExchangeStep
  <1>2. AloneInv /\ [Next]_vars =>
            [Exchange!ENext]_<<[a \in Exclusive |-> balance[a]],
                               [a \in Exclusive |-> [i \in Instruments |-> SumFunction(owned[a][i])]]>>
    BY <1>1 DEF Cash, Holding
  <1>. QED
    BY InitAlone, AloneKept, ExchangeInit, <1>2, PTL DEF Spec, ImplementsExchange, Exchange!ExchangeSpec

=============================================================================
