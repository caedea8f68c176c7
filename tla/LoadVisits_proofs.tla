---------------------------- MODULE LoadVisits_proofs ----------------------------
(* Invariance proofs for LoadVisits, for every set of workers and of visits, *)
(* every market and every bound on the account.                              *)
EXTENDS LoadVisits, FiniteSetTheorems, TLAPS

----------------------------------------------------------------------------
(* The runs of the visits *)

Names == Buys \union Sells \union {"order_credit_card"}

(* A run begins with the login and ends with the logout, and what a step     *)
(* relies on is what the one before it leaves.                               *)
WellRun(r, name) ==
  /\ DOMAIN r = 1..Len(r) /\ Len(r) \in Nat /\ 1 \in DOMAIN r /\ r[1] = "login"
  /\ \A i \in DOMAIN r :
       /\ r[i] # "logout" => i + 1 \in DOMAIN r
       /\ r[i] \in {"check", "revoke", "order"} => name = "order_credit_card"
       /\ r[i] \in {"look", "calculate", "trade", "schedule", "withdraw"} => name \in Buys \union Sells
       /\ r[i] \in {"instrument", "owned", "deposit"} => name \in Buys \union Sells
       /\ r[i] = "schedule" => name \in LongBuys \union LongSells
  /\ \A i \in DOMAIN r : i + 1 \in DOMAIN r =>
       /\ r[i + 1] = "look" => r[i] \in {"instrument", "owned"}
       /\ r[i + 1] = "calculate" => r[i] = "look"
       /\ r[i + 1] = "schedule" => r[i] = "calculate"

LEMMA BuyRuns ==
  ASSUME NEW name \in Buys, NEW t \in {"trade", "schedule"}, t = "schedule" => name \in LongBuys,
         NEW r, r = <<"login", "deposit", "instrument", "look", "calculate", t, "card", "logout">>
  PROVE  WellRun(r, name)
  <1>1. /\ Len(r) = 8 /\ DOMAIN r = 1..8
        /\ r[1] = "login" /\ r[2] = "deposit" /\ r[3] = "instrument" /\ r[4] = "look"
        /\ r[5] = "calculate" /\ r[6] = t /\ r[7] = "card" /\ r[8] = "logout"
    OBVIOUS
  <1>2. ASSUME NEW i \in 1..8
        PROVE  /\ r[i] # "logout" => i + 1 \in 1..8
               /\ r[i] \notin {"check", "revoke", "order"}
               /\ r[i] = "schedule" => name \in LongBuys
    <2>1. i = 1 \/ i = 2 \/ i = 3 \/ i = 4 \/ i = 5 \/ i = 6 \/ i = 7 \/ i = 8
      OBVIOUS
    <2>. QED  BY <1>1, <2>1
  <1>3. ASSUME NEW i \in 1..8, i + 1 \in 1..8
        PROVE  /\ r[i + 1] = "look" => r[i] = "instrument"
               /\ r[i + 1] = "calculate" => r[i] = "look"
               /\ r[i + 1] = "schedule" => r[i] = "calculate"
    <2>1. CASE i = 1  BY <1>1, <2>1
    <2>2. CASE i = 2  BY <1>1, <2>2
    <2>3. CASE i = 3  BY <1>1, <2>3
    <2>4. CASE i = 4  BY <1>1, <2>4
    <2>5. CASE i = 5  BY <1>1, <2>5
    <2>6. CASE i = 6  BY <1>1, <2>6
    <2>7. CASE i = 7  BY <1>1, <2>7
    <2>. QED  BY <1>3, <2>1, <2>2, <2>3, <2>4, <2>5, <2>6, <2>7
  <1>. QED  BY <1>1, <1>2, <1>3 DEF WellRun

LEMMA SellAndWithdrawRun ==
  ASSUME NEW name \in Sells,
         NEW r, r = <<"login", "owned", "look", "calculate", "trade", "withdraw", "card", "logout">>
  PROVE  WellRun(r, name)
  <1>1. /\ Len(r) = 8 /\ DOMAIN r = 1..8
        /\ r[1] = "login" /\ r[2] = "owned" /\ r[3] = "look" /\ r[4] = "calculate"
        /\ r[5] = "trade" /\ r[6] = "withdraw" /\ r[7] = "card" /\ r[8] = "logout"
    OBVIOUS
  <1>2. ASSUME NEW i \in 1..8
        PROVE  /\ r[i] # "logout" => i + 1 \in 1..8
               /\ r[i] \notin {"check", "revoke", "order", "schedule"}
    <2>1. i = 1 \/ i = 2 \/ i = 3 \/ i = 4 \/ i = 5 \/ i = 6 \/ i = 7 \/ i = 8
      OBVIOUS
    <2>. QED  BY <1>1, <2>1
  <1>3. ASSUME NEW i \in 1..8, i + 1 \in 1..8
        PROVE  /\ r[i + 1] = "look" => r[i] = "owned"
               /\ r[i + 1] = "calculate" => r[i] = "look"
               /\ r[i + 1] = "schedule" => r[i] = "calculate"
    <2>1. CASE i = 1  BY <1>1, <2>1
    <2>2. CASE i = 2  BY <1>1, <2>2
    <2>3. CASE i = 3  BY <1>1, <2>3
    <2>4. CASE i = 4  BY <1>1, <2>4
    <2>5. CASE i = 5  BY <1>1, <2>5
    <2>6. CASE i = 6  BY <1>1, <2>6
    <2>7. CASE i = 7  BY <1>1, <2>7
    <2>. QED  BY <1>3, <2>1, <2>2, <2>3, <2>4, <2>5, <2>6, <2>7
  <1>. QED  BY <1>1, <1>2, <1>3 DEF WellRun

LEMMA LongSellRun ==
  ASSUME NEW name \in LongSells,
         NEW r, r = <<"login", "owned", "look", "calculate", "schedule", "card", "logout">>
  PROVE  WellRun(r, name)
  <1>1. /\ Len(r) = 7 /\ DOMAIN r = 1..7
        /\ r[1] = "login" /\ r[2] = "owned" /\ r[3] = "look" /\ r[4] = "calculate"
        /\ r[5] = "schedule" /\ r[6] = "card" /\ r[7] = "logout"
    OBVIOUS
  <1>2. ASSUME NEW i \in 1..7
        PROVE  /\ r[i] # "logout" => i + 1 \in 1..7
               /\ r[i] \notin {"check", "revoke", "order"}
    <2>1. i = 1 \/ i = 2 \/ i = 3 \/ i = 4 \/ i = 5 \/ i = 6 \/ i = 7
      OBVIOUS
    <2>. QED  BY <1>1, <2>1
  <1>3. ASSUME NEW i \in 1..7, i + 1 \in 1..7
        PROVE  /\ r[i + 1] = "look" => r[i] = "owned"
               /\ r[i + 1] = "calculate" => r[i] = "look"
               /\ r[i + 1] = "schedule" => r[i] = "calculate"
    <2>1. CASE i = 1  BY <1>1, <2>1
    <2>2. CASE i = 2  BY <1>1, <2>2
    <2>3. CASE i = 3  BY <1>1, <2>3
    <2>4. CASE i = 4  BY <1>1, <2>4
    <2>5. CASE i = 5  BY <1>1, <2>5
    <2>6. CASE i = 6  BY <1>1, <2>6
    <2>. QED  BY <1>3, <2>1, <2>2, <2>3, <2>4, <2>5, <2>6
  <1>. QED  BY <1>1, <1>2, <1>3 DEF WellRun, Sells

LEMMA OrderCreditCardRun ==
  ASSUME NEW name, name = "order_credit_card",
         NEW r, r = <<"login", "card", "check", "revoke", "order", "logout">>
  PROVE  WellRun(r, name)
  <1>1. /\ Len(r) = 6 /\ DOMAIN r = 1..6
        /\ r[1] = "login" /\ r[2] = "card" /\ r[3] = "check" /\ r[4] = "revoke"
        /\ r[5] = "order" /\ r[6] = "logout"
    OBVIOUS
  <1>2. ASSUME NEW i \in 1..6
        PROVE  /\ r[i] # "logout" => i + 1 \in 1..6
               /\ r[i] \notin {"look", "calculate", "trade", "schedule", "withdraw", "instrument", "owned", "deposit"}
    <2>1. i = 1 \/ i = 2 \/ i = 3 \/ i = 4 \/ i = 5 \/ i = 6
      OBVIOUS
    <2>. QED  BY <1>1, <2>1
  <1>. QED  BY <1>1, <1>2 DEF WellRun

LEMMA Runs ==
  ASSUME NEW name
  PROVE  /\ name = "deposit_and_buy_success" => Run(name) = DepositAndBuyVisit
         /\ name \in LongBuys => Run(name) = DepositAndLongBuyVisit
         /\ name = "sell_and_withdraw_success" => Run(name) = SellAndWithdrawVisit
         /\ name \in LongSells => Run(name) = LongSellVisit
         /\ name = "order_credit_card" => Run(name) = OrderCreditCardVisit
  BY DEF Run, LongBuys, LongSells

LEMMA RunSteps ==
  ASSUME NEW name \in Names
  PROVE  WellRun(Run(name), name)
  <1>1. CASE name = "deposit_and_buy_success"
    <2>1. name \in Buys  BY <1>1 DEF Buys
    <2>2. WellRun(DepositAndBuyVisit, name)  BY <2>1, BuyRuns DEF DepositAndBuyVisit
    <2>. QED  BY <1>1, <2>2, Runs
  <1>2. CASE name \in LongBuys
    <2>1. name \in Buys  BY <1>2 DEF Buys
    <2>2. WellRun(DepositAndLongBuyVisit, name)  BY <1>2, <2>1, BuyRuns DEF DepositAndLongBuyVisit
    <2>. QED  BY <1>2, <2>2, Runs
  <1>3. CASE name = "sell_and_withdraw_success"
    <2>1. name \in Sells  BY <1>3 DEF Sells
    <2>2. WellRun(SellAndWithdrawVisit, name)  BY <2>1, SellAndWithdrawRun DEF SellAndWithdrawVisit
    <2>. QED  BY <1>3, <2>2, Runs
  <1>4. CASE name \in LongSells
    <2>1. WellRun(LongSellVisit, name)  BY <1>4, LongSellRun DEF LongSellVisit
    <2>. QED  BY <1>4, <2>1, Runs
  <1>5. CASE name = "order_credit_card"
    <2>1. WellRun(OrderCreditCardVisit, name)  BY <1>5, OrderCreditCardRun DEF OrderCreditCardVisit
    <2>. QED  BY <1>5, <2>1, Runs
  <1>. QED  BY <1>1, <1>2, <1>3, <1>4, <1>5 DEF Names, Buys, Sells

----------------------------------------------------------------------------
(* Amounts *)

LEMMA Products ==
  ASSUME NEW m \in Nat, NEW n \in Nat
  PROVE  m * n \in Nat
  OBVIOUS

LEMMA LargerOfTwo ==
  ASSUME NEW m \in Nat, NEW n \in Nat
  PROVE  Larger(m, n) \in Nat /\ Larger(m, n) >= m /\ Larger(m, n) >= n
  BY DEF Larger

LEMMA Division ==
  ASSUME NEW n \in Nat, NEW d \in Nat \ {0}
  PROVE  n \div d \in Nat /\ (n \div d) * d <= n /\ n \div d <= n
  OBVIOUS

LEMMA FlooredWithin ==
  ASSUME NEW n \in Nat, NEW d \in Nat \ {0}, NEW a \in Floored(n, d)
  PROVE  a \in Nat /\ a * d <= n /\ a <= n
  <1>1. n \div d \in Nat /\ (n \div d) * d <= n /\ n \div d <= n  BY Division
  <1>2. CASE n >= d
    <2>1. a = 1 \/ a = n \div d  BY <1>2 DEF Floored
    <2>. QED  BY <1>1, <1>2, <2>1
  <1>3. CASE ~(n >= d)  BY <1>3 DEF Floored
  <1>. QED  BY <1>2, <1>3

(* What a visit looks at, and what it orders. *)
Seen == [balance : Nat, price : Nat, owned : Nat]
Order == [price : Nat, amount : Nat]
Visiting == [name : Visits, at : Nat, deposit : Nat, seen : Seen, order : Order, typed : Nat]

(* An order of the visit comes out as its name says. *)
AsNamed(v, o) ==
  /\ v.name \in {"deposit_and_long_buy_success", "deposit_and_long_buy_timeout"} =>
       o.price * o.amount <= 100 * v.deposit
  /\ v.name = "deposit_and_long_buy_error" =>
       o.price * o.amount >= 210 * v.seen.balance /\ o.price * o.amount >= 210
  /\ v.name \in {"long_sell_success", "long_sell_timeout"} => o.amount <= v.seen.owned
  /\ v.name = "long_sell_error" => o.amount = 10 * v.seen.owned

LEMMA CalculatedIsNamed ==
  ASSUME NEW v \in Visiting, v.name \in Buys \union Sells, v.seen.price > 0,
         NEW o \in Calculated(v)
  PROVE  o \in Order /\ AsNamed(v, o)
  <1>. DEFINE p == v.seen.price
              b == v.seen.balance
              n == v.seen.owned
              d == v.deposit
  <1>0. p \in Nat \ {0} /\ b \in Nat /\ n \in Nat /\ d \in Nat /\ AssetSellShare \in Nat \ {0}
    BY MoneyAssumption DEF Visiting, Seen
  <1>1. CASE v.name = "deposit_and_buy_success"
    <2>1. PICK a \in Floored(d, p) : o = [price |-> 0, amount |-> a]
      BY <1>1 DEF Calculated, quickBuy
    <2>2. a \in Nat  BY <1>0, <2>1, FlooredWithin
    <2>. QED  BY <1>1, <2>1, <2>2 DEF Order, AsNamed
  <1>2. CASE v.name = "deposit_and_long_buy_success"
    <2>1. PICK a \in Floored(100 * d, 110 * p) : o = [price |-> 110 * p, amount |-> a]
      BY <1>2 DEF Calculated, successBuyCalculator
    <2>2. a \in Nat /\ a * (110 * p) <= 100 * d  BY <1>0, <2>1, FlooredWithin
    <2>3. (110 * p) * a = a * (110 * p)  BY <1>0, <2>2
    <2>. QED  BY <1>0, <1>2, <2>1, <2>2, <2>3 DEF Order, AsNamed
  <1>3. CASE v.name = "deposit_and_long_buy_timeout"
    <2>1. PICK a \in Floored(100 * d, p) : o = [price |-> p, amount |-> a]
      BY <1>3 DEF Calculated, timeoutBuyCalculator
    <2>2. a \in Nat /\ a * p <= 100 * d  BY <1>0, <2>1, FlooredWithin
    <2>3. p * a = a * p  BY <1>0, <2>2
    <2>. QED  BY <1>0, <1>3, <2>1, <2>2, <2>3 DEF Order, AsNamed
  <1>4. CASE v.name = "deposit_and_long_buy_error"
    <2>1. o = [price |-> 30 * Larger(b, p), amount |-> 7]
      BY <1>4 DEF Calculated, errorBuyCalculator
    <2>2. Larger(b, p) \in Nat /\ Larger(b, p) >= b /\ Larger(b, p) >= p  BY <1>0, LargerOfTwo
    <2>. QED  BY <1>0, <1>4, <2>1, <2>2 DEF Order, AsNamed
  <1>5. CASE v.name = "sell_and_withdraw_success"
    <2>1. PICK a \in Floored(n, AssetSellShare) : o = [price |-> 0, amount |-> a]
      BY <1>5 DEF Calculated, quickSell
    <2>2. a \in Nat  BY <1>0, <2>1, FlooredWithin
    <2>. QED  BY <1>5, <2>1, <2>2 DEF Order, AsNamed
  <1>6. CASE v.name = "long_sell_success"
    <2>1. PICK a \in Floored(n, AssetSellShare) : o = [price |-> 90 * p, amount |-> a]
      BY <1>6 DEF Calculated, successSellCalculator
    <2>2. a \in Nat /\ a <= n  BY <1>0, <2>1, FlooredWithin
    <2>. QED  BY <1>0, <1>6, <2>1, <2>2 DEF Order, AsNamed
  <1>7. CASE v.name = "long_sell_timeout"
    <2>1. PICK a \in Floored(n, AssetSellShare) : o = [price |-> 10000 * p, amount |-> a]
      BY <1>7 DEF Calculated, timeoutSellCalculator
    <2>2. a \in Nat /\ a <= n  BY <1>0, <2>1, FlooredWithin
    <2>. QED  BY <1>0, <1>7, <2>1, <2>2 DEF Order, AsNamed
  <1>8. CASE v.name = "long_sell_error"
    <2>1. o = [price |-> 90 * p, amount |-> 10 * n]
      BY <1>8 DEF Calculated, errorSellCalculator
    <2>. QED  BY <1>0, <1>8, <2>1 DEF Order, AsNamed
  <1>. QED  BY <1>1, <1>2, <1>3, <1>4, <1>5, <1>6, <1>7, <1>8 DEF Buys, Sells, LongBuys, LongSells

----------------------------------------------------------------------------
(* The types of the state *)

Page == [balance : Nat, price : Nat, owned : Nat, card : {"none", "pending", "active", "loading"}]

AccountOK ==
  /\ balance \in 0..MaxBalance /\ owned \in 0..MaxOwned /\ price \in Prices
  /\ card \in {"none", "pending", "active"}

DueOK == due \in BOOLEAN /\ (due => "order_credit_card" \in Visits)

(* A visit that computes has a price to compute with, and one that is about  *)
(* to schedule its order has typed what it has computed.                     *)
VisitOK(v, p) ==
  /\ v.at \in DOMAIN Run(v.name)
  /\ Step(v) \in {"look", "calculate"} => p.price > 0
  /\ Step(v) = "schedule" => v.typed = v.order.amount /\ AsNamed(v, v.order)

(* A worker drives one visit at most, on a page that shows what it owns of   *)
(* an instrument together with its price.                                    *)
WorkerOK(V, p) ==
  /\ \A u, v \in V : u = v
  /\ V = {} => p = Blank
  /\ \A v \in V : VisitOK(v, p)
  /\ p.owned > 0 => p.price > 0

VisitsInv ==
  /\ AccountOK /\ DueOK
  /\ visit \in [Workers -> SUBSET Visiting]
  /\ shown \in [Workers -> Page]
  /\ requests \in [Workers -> SUBSET Request]
  /\ \A w \in Workers : WorkerOK(visit[w], shown[w])

LEMMA BoundsAreNat ==
  /\ WithdrawMinValue \in Nat /\ MaxBalance \in Nat /\ MaxOwned \in Nat
  /\ FirstBalance \in 0..MaxBalance /\ FirstOwned \in 0..MaxOwned
  <1>1. /\ WithdrawMinValue \in Nat /\ MaxBalance \in Nat /\ MaxOwned \in Nat
        /\ FirstBalance \in Nat /\ FirstOwned \in Nat
    BY MoneyAssumption
  <1>2. FirstBalance <= MaxBalance /\ FirstOwned <= MaxOwned  BY MoneyAssumption
  <1>. QED  BY <1>1, <1>2

LEMMA InitVisits == Init => VisitsInv
  <1>. SUFFICES ASSUME Init PROVE VisitsInv
    OBVIOUS
  <1>1. AccountOK /\ DueOK  BY BoundsAreNat DEF Init, AccountOK, DueOK
  <1>2. Blank \in Page /\ Blank.owned = 0  BY DEF Blank, Page
  <1>. QED  BY <1>1, <1>2 DEF Init, VisitsInv, WorkerOK

LEMMA OneWorker ==
  ASSUME VisitsInv, NEW w \in Workers,
         NEW V \in SUBSET Visiting, NEW p \in Page, NEW R \in SUBSET Request,
         visit' = [visit EXCEPT ![w] = V], shown' = [shown EXCEPT ![w] = p],
         requests' = [requests EXCEPT ![w] = R],
         WorkerOK(V, p), AccountOK', DueOK'
  PROVE  VisitsInv'
  <1>1. /\ visit' \in [Workers -> SUBSET Visiting] /\ shown' \in [Workers -> Page]
        /\ requests' \in [Workers -> SUBSET Request]
    BY DEF VisitsInv
  <1>2. ASSUME NEW x \in Workers
        PROVE  WorkerOK(visit'[x], shown'[x])
    <2>1. CASE x = w
      <3>1. visit'[x] = V /\ shown'[x] = p  BY <2>1 DEF VisitsInv
      <3>. QED  BY <3>1
    <2>2. CASE x # w
      <3>1. visit'[x] = visit[x] /\ shown'[x] = shown[x]  BY <2>2 DEF VisitsInv
      <3>2. WorkerOK(visit[x], shown[x])  BY DEF VisitsInv
      <3>. QED  BY <3>1, <3>2
    <2>. QED  BY <2>1, <2>2
  <1>3. (\A x \in Workers : WorkerOK(visit[x], shown[x]))'
    BY <1>2 DEF WorkerOK, VisitOK, Step, AsNamed
  <1>. QED  BY <1>1, <1>3 DEF VisitsInv

(* What there is to know of the visit of a worker. *)
LEMMA Driven ==
  ASSUME VisitsInv, NEW w \in Workers, NEW v \in visit[w]
  PROVE  /\ v \in Visiting /\ visit[w] = {v} /\ VisitOK(v, shown[w])
         /\ v.name \in Names /\ WellRun(Run(v.name), v.name)
         /\ shown[w] \in Page /\ requests[w] \subseteq Request
         /\ shown[w].owned > 0 => shown[w].price > 0
         /\ visit = [visit EXCEPT ![w] = {v}]
         /\ shown = [shown EXCEPT ![w] = shown[w]]
         /\ requests = [requests EXCEPT ![w] = requests[w]]
  <1>1. v \in Visiting /\ shown[w] \in Page /\ requests[w] \subseteq Request /\ WorkerOK(visit[w], shown[w])
    BY DEF VisitsInv
  <1>2. visit[w] = {v}  BY <1>1 DEF WorkerOK
  <1>3. v.name \in Names  BY <1>1, VisitsAssumption DEF Visiting, Names
  <1>4. WellRun(Run(v.name), v.name)  BY <1>3, RunSteps
  <1>5. VisitOK(v, shown[w]) /\ (shown[w].owned > 0 => shown[w].price > 0)  BY <1>1 DEF WorkerOK
  <1>6. /\ visit = [visit EXCEPT ![w] = visit[w]] /\ shown = [shown EXCEPT ![w] = shown[w]]
        /\ requests = [requests EXCEPT ![w] = requests[w]]
    BY DEF VisitsInv
  <1>. QED  BY <1>1, <1>2, <1>3, <1>4, <1>5, <1>6

(* The next step of a visit can be taken as soon as it is reached. *)
LEMMA NextStep ==
  ASSUME NEW v \in Visiting, WellRun(Run(v.name), v.name), v.at \in DOMAIN Run(v.name),
         Step(v) \notin {"look", "calculate", "logout"},
         NEW u \in Visiting, u.name = v.name, u.at = v.at + 1,
         NEW p \in Page, p.owned > 0 => p.price > 0,
         Step(v) \in {"instrument", "owned"} => p.price > 0
  PROVE  WorkerOK({u}, p)
  <1>. DEFINE r == Run(v.name)
  <1>1. Step(v) = r[v.at] /\ Step(u) = r[v.at + 1] /\ Run(u.name) = r  BY DEF Step
  <1>2. v.at + 1 \in DOMAIN r  BY <1>1 DEF WellRun
  <1>3. /\ Step(u) = "look" => Step(v) \in {"instrument", "owned"}
        /\ Step(u) \notin {"calculate", "schedule"}
    BY <1>1, <1>2 DEF WellRun
  <1>4. VisitOK(u, p)  BY <1>1, <1>2, <1>3 DEF VisitOK
  <1>. QED  BY <1>4 DEF WorkerOK

LEMMA SentIsRequest ==
  ASSUME NEW form \in {"deposit", "withdraw", "quickBuy", "quickSell", "buy", "sell", "order", "revoke"},
         NEW amount \in Nat, NEW p \in Nat
  PROVE  Sent(form, amount, p) \in Request
  BY DEF Sent, Request

(* A step that goes on on the same page, and sends something or nothing. *)
LEMMA GoKeeps ==
  ASSUME VisitsInv, NEW w \in Workers, NEW v \in visit[w], NEW u \in Visiting,
         visit' = [visit EXCEPT ![w] = {u}], u.name = v.name, u.at = v.at + 1,
         Step(v) \notin {"look", "calculate", "logout"},
         NEW p \in Page, p = shown[w] \/ p = Blank, shown' = [shown EXCEPT ![w] = p],
         Step(v) \in {"instrument", "owned"} => p.price > 0,
         NEW R \in SUBSET Request, requests' = [requests EXCEPT ![w] = R],
         UNCHANGED <<Account, due>>
  PROVE  VisitsInv'
  <1>1. /\ v \in Visiting /\ VisitOK(v, shown[w]) /\ WellRun(Run(v.name), v.name)
        /\ shown[w].owned > 0 => shown[w].price > 0
    BY Driven
  <1>2. p.owned > 0 => p.price > 0  BY <1>1 DEF Blank
  <1>3. WorkerOK({u}, p)  BY <1>1, <1>2, NextStep DEF VisitOK
  <1>4. AccountOK' /\ DueOK'  BY DEF VisitsInv, Account, AccountOK, DueOK
  <1>. QED  BY <1>3, <1>4, OneWorker

LEMMA BeginKeeps ==
  ASSUME VisitsInv, NEW w \in Workers, Free(w), NEW name \in Visits, NEW d \in Nat,
         Begin(w, name, d), UNCHANGED <<Account, shown, requests>>, DueOK'
  PROVE  VisitsInv'
  <1>. DEFINE v == [name |-> name, at |-> 1, deposit |-> d, seen |-> Nothing, order |-> NoOrder, typed |-> 0]
  <1>1. v \in Visiting  BY DEF Visiting, Seen, Order, Nothing, NoOrder
  <1>2. shown[w] \in Page /\ requests[w] \in SUBSET Request /\ shown[w].owned = 0
    BY DEF VisitsInv, Free, WorkerOK, Blank
  <1>3. /\ shown' = [shown EXCEPT ![w] = shown[w]]
        /\ requests' = [requests EXCEPT ![w] = requests[w]]
    BY DEF VisitsInv
  <1>4. WellRun(Run(name), name)  BY RunSteps, VisitsAssumption DEF Names
  <1>5. Step(v) = "login" /\ v.at \in DOMAIN Run(v.name)  BY <1>4 DEF Step, WellRun
  <1>6. WorkerOK({v}, shown[w])
    <2>. HIDE DEF v
    <2>. QED  BY <1>2, <1>5 DEF WorkerOK, VisitOK
  <1>7. visit' = [visit EXCEPT ![w] = {v}]  BY DEF Begin
  <1>8. AccountOK'  BY DEF VisitsInv, Account, AccountOK
  <1>. HIDE DEF v
  <1>. QED  BY <1>1, <1>2, <1>3, <1>6, <1>7, <1>8, OneWorker

LEMMA EndKeeps ==
  ASSUME VisitsInv, NEW w \in Workers, End(w), UNCHANGED <<Account, requests, due>>
  PROVE  VisitsInv'
  <1>1. Blank \in Page /\ WorkerOK({}, Blank)  BY DEF Blank, Page, WorkerOK
  <1>2. requests[w] \in SUBSET Request /\ requests' = [requests EXCEPT ![w] = requests[w]]
    BY DEF VisitsInv
  <1>3. AccountOK' /\ DueOK'  BY DEF VisitsInv, Account, AccountOK, DueOK
  <1>. QED  BY <1>1, <1>2, <1>3, OneWorker DEF End

(* The price is seen, and the order computed from what was seen. *)
LEMMA CalculateKeeps ==
  ASSUME VisitsInv, NEW w \in Workers, getInstrumentPrice(w)
  PROVE  VisitsInv'
  <1>1. PICK v \in visit[w] :
          /\ Step(v) = "calculate"
          /\ \E o \in Calculated([v EXCEPT !.seen.price = shown[w].price]) :
               visit' = [visit EXCEPT ![w] =
                 {[[v EXCEPT !.seen.price = shown[w].price] EXCEPT !.at = @ + 1, !.order = o, !.typed = o.amount]}]
    BY DEF getInstrumentPrice
  <1>2. /\ v \in Visiting /\ VisitOK(v, shown[w]) /\ WellRun(Run(v.name), v.name) /\ shown[w] \in Page
        /\ shown[w].owned > 0 => shown[w].price > 0
        /\ shown = [shown EXCEPT ![w] = shown[w]] /\ requests = [requests EXCEPT ![w] = requests[w]]
        /\ requests[w] \in SUBSET Request
    BY Driven
  <1>3. PICK u : u = [v EXCEPT !.seen.price = shown[w].price]
    OBVIOUS
  <1>4. /\ u \in Visiting /\ u.name = v.name /\ u.at = v.at /\ u.seen.price = shown[w].price
    BY <1>2, <1>3 DEF Visiting, Seen, Page
  <1>5. PICK o \in Calculated(u) :
          visit' = [visit EXCEPT ![w] = {[u EXCEPT !.at = @ + 1, !.order = o, !.typed = o.amount]}]
    BY <1>1, <1>3
  <1>6. shown[w].price > 0 /\ v.name \in Buys \union Sells
    BY <1>1, <1>2 DEF VisitOK, WellRun, Step
  <1>7. o \in Order /\ AsNamed(u, o)  BY <1>4, <1>5, <1>6, CalculatedIsNamed
  <1>8. PICK n : n = [u EXCEPT !.at = @ + 1, !.order = o, !.typed = o.amount]
    OBVIOUS
  <1>9. /\ n \in Visiting /\ n.name = u.name /\ n.at = u.at + 1 /\ n.order = o /\ n.typed = o.amount
        /\ n.seen = u.seen /\ n.deposit = u.deposit
    <2>1. o \in Order /\ o.amount \in Nat /\ u.at + 1 \in Nat  BY <1>4, <1>7 DEF Visiting, Order
    <2>2. n = [name |-> u.name, at |-> u.at + 1, deposit |-> u.deposit, seen |-> u.seen, order |-> o, typed |-> o.amount]
      BY <1>4, <1>8 DEF Visiting
    <2>. QED  BY <1>4, <2>1, <2>2 DEF Visiting
  <1>10. AsNamed(n, n.order)  BY <1>7, <1>9 DEF AsNamed
  <1>11. n.at \in DOMAIN Run(n.name) /\ Step(n) \notin {"look", "calculate"}
    BY <1>1, <1>2, <1>4, <1>9 DEF VisitOK, WellRun, Step
  <1>12. WorkerOK({n}, shown[w])  BY <1>2, <1>9, <1>10, <1>11 DEF WorkerOK, VisitOK
  <1>13. AccountOK' /\ DueOK'  BY DEF VisitsInv, Account, AccountOK, getInstrumentPrice, DueOK
  <1>14. /\ visit' = [visit EXCEPT ![w] = {n}] /\ shown' = [shown EXCEPT ![w] = shown[w]]
         /\ requests' = [requests EXCEPT ![w] = requests[w]]
    BY <1>2, <1>5, <1>8 DEF getInstrumentPrice
  <1>. QED  BY <1>2, <1>9, <1>12, <1>13, <1>14, OneWorker

LEMMA RareIsNotRegular == "order_credit_card" \notin Buys \union Sells
  BY DEF Buys, Sells, LongBuys, LongSells

LEMMA LookKeeps ==
  ASSUME VisitsInv, NEW w \in Workers, NEW v \in visit[w], NEW seen \in Seen, Look(w, v, seen)
  PROVE  VisitsInv'
  <1>1. /\ v \in Visiting /\ VisitOK(v, shown[w]) /\ WellRun(Run(v.name), v.name) /\ shown[w] \in Page
        /\ shown[w].owned > 0 => shown[w].price > 0
        /\ shown = [shown EXCEPT ![w] = shown[w]] /\ requests = [requests EXCEPT ![w] = requests[w]]
        /\ requests[w] \in SUBSET Request
    BY Driven
  <1>2. PICK n : n = [v EXCEPT !.at = @ + 1, !.seen = seen]
    OBVIOUS
  <1>3. n \in Visiting /\ n.name = v.name /\ n.at = v.at + 1
    <2>1. n = [name |-> v.name, at |-> v.at + 1, deposit |-> v.deposit, seen |-> seen, order |-> v.order, typed |-> v.typed]
      BY <1>1, <1>2 DEF Visiting
    <2>2. v.at + 1 \in Nat  BY <1>1 DEF Visiting
    <2>. QED  BY <1>1, <2>1, <2>2 DEF Visiting
  <1>4. Step(v) = "look" /\ visit' = [visit EXCEPT ![w] = {n}] /\ UNCHANGED <<Account, shown, requests, due>>
    BY <1>2 DEF Look
  <1>5. n.at \in DOMAIN Run(n.name) /\ Step(n) # "schedule" /\ shown[w].price > 0
    <2>1. v.at + 1 \in DOMAIN Run(v.name)  BY <1>1, <1>4 DEF VisitOK, WellRun, Step
    <2>2. Run(v.name)[v.at + 1] # "schedule"  BY <1>1, <1>4, <2>1 DEF VisitOK, WellRun, Step
    <2>. QED  BY <1>1, <1>3, <1>4, <2>1, <2>2 DEF VisitOK, Step
  <1>6. WorkerOK({n}, shown[w])  BY <1>1, <1>5 DEF WorkerOK, VisitOK
  <1>7. AccountOK' /\ DueOK'  BY <1>4 DEF VisitsInv, Account, AccountOK, DueOK
  <1>. QED  BY <1>1, <1>3, <1>4, <1>6, <1>7, OneWorker

LEMMA CheckKeeps ==
  ASSUME VisitsInv, NEW w \in Workers, CheckIfOrderPending(w)
  PROVE  VisitsInv'
  <1>1. PICK v \in visit[w] :
          /\ Step(v) = "check"
          /\ visit' = [visit EXCEPT ![w] = {[v EXCEPT !.at =
                    IF shown[w].card = "pending" THEN Len(Run(v.name)) ELSE @ + 1]}]
    BY DEF CheckIfOrderPending
  <1>2. /\ v \in Visiting /\ VisitOK(v, shown[w]) /\ WellRun(Run(v.name), v.name) /\ shown[w] \in Page
        /\ shown[w].owned > 0 => shown[w].price > 0
        /\ shown = [shown EXCEPT ![w] = shown[w]] /\ requests = [requests EXCEPT ![w] = requests[w]]
        /\ requests[w] \in SUBSET Request
    BY Driven
  <1>3. PICK at : at = IF shown[w].card = "pending" THEN Len(Run(v.name)) ELSE v.at + 1
    OBVIOUS
  <1>4. at \in DOMAIN Run(v.name) /\ at \in Nat /\ v.name = "order_credit_card"
    <2>1. Len(Run(v.name)) \in DOMAIN Run(v.name)  BY <1>2 DEF WellRun
    <2>2. v.at + 1 \in DOMAIN Run(v.name)  BY <1>1, <1>2 DEF WellRun, VisitOK, Step
    <2>3. v.name = "order_credit_card"  BY <1>1, <1>2 DEF WellRun, VisitOK, Step
    <2>4. at \in DOMAIN Run(v.name)  BY <1>3, <2>1, <2>2
    <2>. QED  BY <1>2, <2>3, <2>4 DEF WellRun
  <1>5. PICK n : n = [v EXCEPT !.at = at]
    OBVIOUS
  <1>6. n \in Visiting /\ n.name = v.name /\ n.at = at
    BY <1>2, <1>4, <1>5 DEF Visiting
  <1>7. Step(n) \notin {"look", "calculate", "schedule"}
    BY <1>2, <1>4, <1>6, RareIsNotRegular DEF WellRun, Step
  <1>8. WorkerOK({n}, shown[w])  BY <1>2, <1>4, <1>6, <1>7 DEF WorkerOK, VisitOK
  <1>9. AccountOK' /\ DueOK'  BY DEF VisitsInv, Account, AccountOK, CheckIfOrderPending, DueOK
  <1>10. /\ visit' = [visit EXCEPT ![w] = {n}] /\ shown' = [shown EXCEPT ![w] = shown[w]]
         /\ requests' = [requests EXCEPT ![w] = requests[w]]
    BY <1>1, <1>2, <1>3, <1>5 DEF CheckIfOrderPending
  <1>. QED  BY <1>2, <1>6, <1>8, <1>9, <1>10, OneWorker

LEMMA CurrentIsPage ==
  ASSUME AccountOK, NEW v
  PROVE  /\ Current(v) \in Page
         /\ Current(v).owned > 0 => Current(v).price > 0
         /\ v.name # "order_credit_card" => Current(v).price > 0
         /\ v.name = "order_credit_card" => Current(v).card = card
  <1>1. balance \in Nat /\ owned \in Nat /\ price \in Nat \ {0}
    BY MoneyAssumption, BoundsAreNat DEF AccountOK
  <1>2. CASE v.name = "order_credit_card"
    <2>1. Current(v) = [balance |-> 0, price |-> 0, owned |-> 0, card |-> card]
      BY <1>2 DEF Current, Blank
    <2>. QED  BY <1>2, <2>1 DEF Page, AccountOK
  <1>3. CASE v.name # "order_credit_card"
    <2>1. Current(v) = [balance |-> balance, price |-> price, owned |-> owned, card |-> "loading"]
      BY <1>3 DEF Current, Blank
    <2>. QED  BY <1>1, <1>3, <2>1 DEF Page
  <1>. QED  BY <1>2, <1>3

(* What has been fetched anew is a page, too: all of it but the balance is *)
(* as it was or as of now.                                                 *)
LEMMA RefreshedIsPage ==
  ASSUME AccountOK, NEW v, NEW old \in Page, NEW page \in Refreshed(old, Current(v))
  PROVE  /\ page \in Page
         /\ \/ page.price = old.price /\ page.owned = old.owned /\ page.card = old.card
            \/ page.price = Current(v).price /\ page.owned = Current(v).owned /\ page.card = Current(v).card
  <1>1. PICK new : new = Current(v)
    OBVIOUS
  <1>2. new \in Page  BY <1>1, CurrentIsPage
  <1>3. \/ page = new
        \/ page = [new EXCEPT !.balance = old.balance]
        \/ page = [old EXCEPT !.balance = new.balance]
    BY <1>1 DEF Refreshed
  <1>4. /\ page \in Page
        /\ \/ page.price = old.price /\ page.owned = old.owned /\ page.card = old.card
           \/ page.price = new.price /\ page.owned = new.owned /\ page.card = new.card
    BY <1>2, <1>3 DEF Page
  <1>. QED  BY <1>1, <1>4

LEMMA RefetchKeeps ==
  ASSUME VisitsInv, NEW w \in Workers, Refetch(w)
  PROVE  VisitsInv'
  <1>0. PICK v \in visit[w] : \E page \in Refreshed(shown[w], Current(v)) :
          /\ Step(v) \in Looking
          /\ shown' = [shown EXCEPT ![w] = page]
          /\ visit' = visit \/ visit' = [visit EXCEPT ![w] = {[v EXCEPT !.typed = 0]}]
    BY Zenon DEF Refetch
  <1>1. PICK page \in Refreshed(shown[w], Current(v)) :
          /\ Step(v) \in Looking
          /\ shown' = [shown EXCEPT ![w] = page]
          /\ visit' = visit \/ visit' = [visit EXCEPT ![w] = {[v EXCEPT !.typed = 0]}]
          /\ UNCHANGED <<Account, requests, due>>
    BY <1>0 DEF Refetch
  <1>2. /\ v \in Visiting /\ VisitOK(v, shown[w]) /\ WellRun(Run(v.name), v.name)
        /\ requests = [requests EXCEPT ![w] = requests[w]] /\ requests[w] \in SUBSET Request
        /\ visit = [visit EXCEPT ![w] = {v}]
        /\ shown[w] \in Page /\ (shown[w].owned > 0 => shown[w].price > 0)
    BY Driven
  <1>3. PICK n : n = IF visit' = visit THEN v ELSE [v EXCEPT !.typed = 0]
    OBVIOUS
  <1>4. n \in Visiting /\ n.name = v.name /\ n.at = v.at
    BY <1>2, <1>3 DEF Visiting
  <1>5. visit' = [visit EXCEPT ![w] = {n}]  BY <1>1, <1>2, <1>3
  <1>6. AccountOK  BY DEF VisitsInv
  <1>7. Step(n) \in Looking /\ n.at \in DOMAIN Run(n.name)
    BY <1>1, <1>2, <1>4 DEF Step, VisitOK
  <1>8. Step(n) \in {"look", "calculate"} => n.name # "order_credit_card" /\ shown[w].price > 0
    BY <1>2, <1>4, <1>7, RareIsNotRegular DEF WellRun, Step, VisitOK
  <1>9. /\ Current(v).owned > 0 => Current(v).price > 0
        /\ n.name # "order_credit_card" => Current(v).price > 0
    BY <1>4, <1>6, CurrentIsPage
  <1>10. /\ page \in Page
         /\ \/ page.price = shown[w].price /\ page.owned = shown[w].owned
            \/ page.price = Current(v).price /\ page.owned = Current(v).owned
    BY <1>2, <1>6, RefreshedIsPage
  <1>11. WorkerOK({n}, page)
    <2>1. page.owned > 0 => page.price > 0  BY <1>2, <1>9, <1>10
    <2>2. Step(n) \in {"look", "calculate"} => page.price > 0  BY <1>8, <1>9, <1>10
    <2>. QED  BY <1>7, <2>1, <2>2 DEF WorkerOK, VisitOK, Looking
  <1>12. AccountOK' /\ DueOK'  BY <1>1 DEF VisitsInv, Account, AccountOK, DueOK
  <1>13. requests' = [requests EXCEPT ![w] = requests[w]]  BY <1>1, <1>2
  <1>. QED  BY <1>1, <1>2, <1>4, <1>5, <1>10, <1>11, <1>12, <1>13, OneWorker

(* A visit that goes on, in every form its steps give it. *)
LEMMA Gone ==
  ASSUME NEW v \in Visiting
  PROVE  /\ [v EXCEPT !.at = @ + 1] \in Visiting
         /\ [v EXCEPT !.at = @ + 1].name = v.name /\ [v EXCEPT !.at = @ + 1].at = v.at + 1
         /\ Forgotten(v) \in Visiting
         /\ Forgotten(v).name = v.name /\ Forgotten(v).at = v.at + 1
         /\ \A o \in Order : LET n == [Forgotten(v) EXCEPT !.order = o]
                             IN  n \in Visiting /\ n.name = v.name /\ n.at = v.at + 1
  <1>1. v.at + 1 \in Nat  BY DEF Visiting
  <1>2. [v EXCEPT !.at = @ + 1] = [name |-> v.name, at |-> v.at + 1, deposit |-> v.deposit,
                                   seen |-> v.seen, order |-> v.order, typed |-> v.typed]
    BY DEF Visiting
  <1>3. Forgotten(v) = [name |-> v.name, at |-> v.at + 1, deposit |-> 0,
                        seen |-> Nothing, order |-> NoOrder, typed |-> 0]
    <2>1. PICK a : a = [v EXCEPT !.at = @ + 1, !.deposit = 0, !.seen = Nothing]
      OBVIOUS
    <2>2. a = [name |-> v.name, at |-> v.at + 1, deposit |-> 0,
               seen |-> Nothing, order |-> v.order, typed |-> v.typed]
      BY <2>1 DEF Visiting
    <2>3. PICK b : b = [a EXCEPT !.order = NoOrder]
      OBVIOUS
    <2>4. b = [name |-> v.name, at |-> v.at + 1, deposit |-> 0,
               seen |-> Nothing, order |-> NoOrder, typed |-> v.typed]
      BY <2>2, <2>3
    <2>5. [b EXCEPT !.typed = 0] = [name |-> v.name, at |-> v.at + 1, deposit |-> 0,
                                    seen |-> Nothing, order |-> NoOrder, typed |-> 0]
      BY <2>4
    <2>6. Forgotten(v) = [b EXCEPT !.typed = 0]
      BY <2>1, <2>3 DEF Forgotten
    <2>. QED  BY <2>5, <2>6
  <1>4. Nothing \in Seen /\ NoOrder \in Order  BY DEF Nothing, Seen, NoOrder, Order
  <1>5. ASSUME NEW o \in Order
        PROVE  [Forgotten(v) EXCEPT !.order = o] =
                 [name |-> v.name, at |-> v.at + 1, deposit |-> 0, seen |-> Nothing, order |-> o, typed |-> 0]
    BY <1>3
  <1>. QED  BY <1>1, <1>2, <1>3, <1>4, <1>5 DEF Visiting

(* A step that only goes on, and sends something or nothing. *)
LEMMA GoOn ==
  ASSUME VisitsInv, NEW w \in Workers, NEW v \in visit[w], Go(w, v),
         Step(v) \notin {"look", "calculate", "logout"},
         Step(v) \in {"instrument", "owned"} => shown[w].price > 0,
         UNCHANGED <<Account, shown, due>>,
         \/ UNCHANGED requests
         \/ \E r \in Request : Send(w, r)
  PROVE  VisitsInv'
  <1>1. v \in Visiting /\ shown[w] \in Page /\ requests[w] \in SUBSET Request
        /\ shown = [shown EXCEPT ![w] = shown[w]] /\ requests = [requests EXCEPT ![w] = requests[w]]
    BY Driven
  <1>2. PICK u : u = [v EXCEPT !.at = @ + 1]
    OBVIOUS
  <1>3. u \in Visiting /\ u.name = v.name /\ u.at = v.at + 1 /\ visit' = [visit EXCEPT ![w] = {u}]
    BY <1>1, <1>2, Gone DEF Go
  <1>4. \E R \in SUBSET Request : requests' = [requests EXCEPT ![w] = R]
    BY <1>1 DEF Send
  <1>. QED  BY <1>1, <1>3, <1>4, GoKeeps

(* What was typed is sent if the form lets it through. *)
LEMMA TradeKeeps ==
  ASSUME VisitsInv, NEW w \in Workers, Trade(w)
  PROVE  VisitsInv'
  <1>1. PICK v \in visit[w] :
          /\ Step(v) = "trade"
          /\ visit' = [visit EXCEPT ![w] = {[Forgotten(v) EXCEPT !.order =
                IF v.name = "sell_and_withdraw_success" THEN [v.order EXCEPT !.price = v.seen.price] ELSE NoOrder]}]
          /\ shown' = [shown EXCEPT ![w] = Blank]
          /\ \/ UNCHANGED requests
             \/ Send(w, Sent("quickBuy", v.typed, 0))
             \/ Send(w, Sent("quickSell", v.typed, 0))
          /\ UNCHANGED <<Account, due>>
    BY DEF Trade
  <1>2. v \in Visiting /\ requests[w] \in SUBSET Request
        /\ requests = [requests EXCEPT ![w] = requests[w]]
    BY Driven
  <1>3. PICK o : o = IF v.name = "sell_and_withdraw_success" THEN [v.order EXCEPT !.price = v.seen.price] ELSE NoOrder
    OBVIOUS
  <1>4. o \in Order
    <2>1. v.order \in Order /\ v.seen.price \in Nat /\ NoOrder \in Order
      BY <1>2 DEF Visiting, Seen, NoOrder, Order
    <2>. QED  BY <1>3, <2>1 DEF Order
  <1>5. PICK u : u = [Forgotten(v) EXCEPT !.order = o]
    OBVIOUS
  <1>6. u \in Visiting /\ u.name = v.name /\ u.at = v.at + 1  BY <1>2, <1>4, <1>5, Gone
  <1>7. visit' = [visit EXCEPT ![w] = {u}]  BY <1>1, <1>3, <1>5
  <1>8. Sent("quickBuy", v.typed, 0) \in Request /\ Sent("quickSell", v.typed, 0) \in Request
    BY <1>2, SentIsRequest DEF Visiting
  <1>9. \E R \in SUBSET Request : requests' = [requests EXCEPT ![w] = R]
    BY <1>1, <1>2, <1>8 DEF Send
  <1>10. Blank \in Page  BY DEF Blank, Page
  <1>. QED  BY <1>1, <1>6, <1>7, <1>9, <1>10, GoKeeps

LEMMA ScheduleKeeps ==
  ASSUME VisitsInv, NEW w \in Workers, scheduleTransaction(w)
  PROVE  VisitsInv'
  <1>1. PICK v \in visit[w] :
          /\ Step(v) = "schedule"
          /\ visit' = [visit EXCEPT ![w] = {Forgotten(v)}]
          /\ shown' = [shown EXCEPT ![w] = Blank]
          /\ \/ UNCHANGED requests
             \/ Send(w, Sent("buy", v.typed, v.order.price))
             \/ Send(w, Sent("sell", v.typed, v.order.price))
          /\ UNCHANGED <<Account, due>>
    BY DEF scheduleTransaction
  <1>2. v \in Visiting /\ requests[w] \in SUBSET Request
        /\ requests = [requests EXCEPT ![w] = requests[w]]
    BY Driven
  <1>3. Forgotten(v) \in Visiting /\ Forgotten(v).name = v.name /\ Forgotten(v).at = v.at + 1
    BY <1>2, Gone
  <1>4. Sent("buy", v.typed, v.order.price) \in Request /\ Sent("sell", v.typed, v.order.price) \in Request
    BY <1>2, SentIsRequest DEF Visiting, Order
  <1>5. \E R \in SUBSET Request : requests' = [requests EXCEPT ![w] = R]
    BY <1>1, <1>2, <1>4 DEF Send
  <1>6. Blank \in Page  BY DEF Blank, Page
  <1>. QED  BY <1>1, <1>3, <1>5, <1>6, GoKeeps

LEMMA WithdrawKeeps ==
  ASSUME VisitsInv, NEW w \in Workers, Withdraw(w)
  PROVE  VisitsInv'
  <1>1. PICK v \in visit[w] :
          /\ Step(v) = "withdraw"
          /\ visit' = [visit EXCEPT ![w] = {Forgotten(v)}]
          /\ Send(w, Sent("withdraw", Larger(WithdrawMinValue, v.order.price * v.order.amount), 0))
          /\ UNCHANGED <<Account, shown, due>>
    BY DEF Withdraw
  <1>2. v \in Visiting /\ requests[w] \in SUBSET Request /\ shown[w] \in Page
        /\ shown = [shown EXCEPT ![w] = shown[w]]
    BY Driven
  <1>3. Forgotten(v) \in Visiting /\ Forgotten(v).name = v.name /\ Forgotten(v).at = v.at + 1
    BY <1>2, Gone
  <1>4. v.order.price * v.order.amount \in Nat  BY <1>2, Products DEF Visiting, Order
  <1>5. Larger(WithdrawMinValue, v.order.price * v.order.amount) \in Nat
    BY <1>4, BoundsAreNat, LargerOfTwo
  <1>6. \E R \in SUBSET Request : requests' = [requests EXCEPT ![w] = R]
    BY <1>1, <1>2, <1>5, SentIsRequest DEF Send
  <1>. QED  BY <1>1, <1>2, <1>3, <1>6, GoKeeps

LEMMA MoveKeeps ==
  ASSUME VisitsInv, NEW w \in Workers, Move(w)
  PROVE  VisitsInv'
  <1>1. CASE Login(w)
    BY <1>1, GoOn DEF Login
  <1>2. CASE Deposit(w)
    <2>1. PICK v \in visit[w] : Step(v) = "deposit" /\ Go(w, v) /\ Send(w, Sent("deposit", v.deposit, 0))
                                /\ UNCHANGED <<Account, shown, due>>
      BY <1>2 DEF Deposit
    <2>2. Sent("deposit", v.deposit, 0) \in Request  BY Driven, SentIsRequest DEF Visiting
    <2>. QED  BY <2>1, <2>2, GoOn
  <1>3. CASE GotoRandomInstrument(w)
    BY <1>3, GoOn DEF GotoRandomInstrument
  <1>4. CASE GotoRandomOwnedInstrument(w)
    <2>1. PICK v \in visit[w] : Step(v) = "owned" /\ shown[w].owned > 0 /\ Go(w, v)
                                /\ UNCHANGED <<Account, shown, requests, due>>
      BY <1>4 DEF GotoRandomOwnedInstrument
    <2>2. shown[w].price > 0  BY <2>1, Driven
    <2>. QED  BY <2>1, <2>2, GoOn
  <1>5. CASE getCurrentBalance(w)
    <2>1. PICK v \in visit[w] : Look(w, v, [Nothing EXCEPT !.balance = shown[w].balance])
      BY <1>5 DEF getCurrentBalance
    <2>2. [Nothing EXCEPT !.balance = shown[w].balance] \in Seen
      BY Driven DEF Nothing, Seen, Page
    <2>. QED  BY <2>1, <2>2, LookKeeps
  <1>6. CASE getInstrumentPossessedAmount(w)
    <2>1. PICK v \in visit[w] : Look(w, v, [Nothing EXCEPT !.owned = shown[w].owned])
      BY <1>6 DEF getInstrumentPossessedAmount
    <2>2. [Nothing EXCEPT !.owned = shown[w].owned] \in Seen
      BY Driven DEF Nothing, Seen, Page
    <2>. QED  BY <2>1, <2>2, LookKeeps
  <1>7. CASE getInstrumentPrice(w)  BY <1>7, CalculateKeeps
  <1>8. CASE Trade(w)  BY <1>8, TradeKeeps
  <1>9. CASE scheduleTransaction(w)  BY <1>9, ScheduleKeeps
  <1>10. CASE Withdraw(w)  BY <1>10, WithdrawKeeps
  <1>11. CASE GotoCreditCardPage(w)
    BY <1>11, GoOn DEF GotoCreditCardPage
  <1>12. CASE CheckIfOrderPending(w)  BY <1>12, CheckKeeps
  <1>13. CASE RevokeCard(w)
    <2>1. Sent("revoke", 0, 0) \in Request  BY SentIsRequest
    <2>2. PICK v \in visit[w] : Step(v) = "revoke" /\ Go(w, v)
                                /\ (UNCHANGED requests \/ Send(w, Sent("revoke", 0, 0)))
                                /\ UNCHANGED <<Account, shown, due>>
      BY <1>13 DEF RevokeCard
    <2>. QED  BY <2>1, <2>2, GoOn
  <1>14. CASE OrderCard(w)
    <2>1. Sent("order", 0, 0) \in Request  BY SentIsRequest
    <2>. QED  BY <1>14, <2>1, GoOn DEF OrderCard
  <1>15. CASE Logout(w)  BY <1>15, EndKeeps DEF Logout
  <1>16. CASE GiveUp(w)  BY <1>16, EndKeeps DEF GiveUp
  <1>. QED
    BY <1>1, <1>2, <1>3, <1>4, <1>5, <1>6, <1>7, <1>8, <1>9, <1>10, <1>11, <1>12, <1>13, <1>14, <1>15, <1>16
    DEF Move

(* A step of the services or the market leaves the visits alone. *)
LEMMA ServedKeeps ==
  ASSUME VisitsInv, AccountOK', UNCHANGED <<visit, shown, due>>,
         \A w \in Workers : requests'[w] \subseteq requests[w],
         requests' \in [Workers -> SUBSET Request]
  PROVE  VisitsInv'
  <1>1. (\A w \in Workers : WorkerOK(visit[w], shown[w]))'
    BY DEF VisitsInv, WorkerOK, VisitOK, Step, AsNamed
  <1>. QED  BY <1>1 DEF VisitsInv, DueOK

LEMMA LessRequested ==
  ASSUME VisitsInv, NEW w \in Workers, NEW r \in requests[w],
         requests' = [requests EXCEPT ![w] = @ \ {r}]
  PROVE  /\ requests' \in [Workers -> SUBSET Request]
         /\ \A x \in Workers : requests'[x] \subseteq requests[x]
         /\ \A x \in Workers : x # w => requests'[x] = requests[x]
         /\ requests'[w] = requests[w] \ {r}
  BY DEF VisitsInv

LEMMA ApplyKeeps ==
  ASSUME VisitsInv, NEW w \in Workers, NEW r \in requests[w], Apply(w, r)
  PROVE  VisitsInv'
  <1>1. r \in Request /\ AccountOK /\ requests' = [requests EXCEPT ![w] = @ \ {r}] /\ UNCHANGED <<price, visit, shown, due>>
    BY DEF VisitsInv, Apply
  <1>2. r.amount \in Nat /\ price \in Nat  BY <1>1, MoneyAssumption DEF Request, AccountOK
  <1>3. PICK worth : worth = r.amount * price
    OBVIOUS
  <1>4. worth \in Nat  BY <1>2, <1>3, Products
  <1>5. AccountOK'
    <2>1. balance \in 0..MaxBalance /\ owned \in 0..MaxOwned /\ price' \in Prices
          /\ card \in {"none", "pending", "active"} /\ MaxBalance \in Nat /\ MaxOwned \in Nat
      BY <1>1, BoundsAreNat DEF AccountOK
    <2>2. CASE r.form = "deposit"
      BY <1>2, <2>1, <2>2 DEF Apply, AccountOK
    <2>3. CASE r.form = "withdraw"
      BY <1>2, <2>1, <2>3 DEF Apply, AccountOK
    <2>4. CASE r.form = "quickBuy"
      <3>1. /\ worth <= balance /\ owned + r.amount <= MaxOwned
            /\ balance' = balance - worth /\ owned' = owned + r.amount /\ card' = card
        BY <1>3, <2>4 DEF Apply
      <3>. QED  BY <1>2, <1>4, <2>1, <3>1 DEF AccountOK
    <2>5. CASE r.form = "quickSell"
      <3>1. /\ r.amount <= owned /\ balance + worth <= MaxBalance
            /\ balance' = balance + worth /\ owned' = owned - r.amount /\ card' = card
        BY <1>3, <2>5 DEF Apply
      <3>. QED  BY <1>2, <1>4, <2>1, <3>1 DEF AccountOK
    <2>6. CASE r.form \in {"buy", "sell"}
      BY <2>1, <2>6 DEF Apply, AccountOK
    <2>7. CASE r.form = "order"
      BY <2>1, <2>7 DEF Apply, AccountOK
    <2>8. CASE r.form = "revoke"
      BY <2>1, <2>8 DEF Apply, AccountOK
    <2>. QED  BY <1>1, <2>2, <2>3, <2>4, <2>5, <2>6, <2>7, <2>8 DEF Request
  <1>. QED  BY <1>1, <1>5, LessRequested, ServedKeeps

LEMMA NextKeepsVisits == VisitsInv /\ [Next]_vars => VisitsInv'
  <1>. SUFFICES ASSUME VisitsInv, [Next]_vars PROVE VisitsInv'
    OBVIOUS
  <1>1. ASSUME NEW w \in Workers, StartRare(w)
        PROVE  VisitsInv'
    <2>1. "order_credit_card" \in Visits
      BY <1>1 DEF StartRare, VisitsInv, DueOK
    <2>. QED  BY <1>1, <2>1, BeginKeeps DEF StartRare, DueOK
  <1>2. ASSUME NEW w \in Workers, StartRegular(w)
        PROVE  VisitsInv'
    <2>1. PICK name \in RegularVisits : \E d \in getDepositValue(name) : Begin(w, name, d)
      BY <1>2 DEF StartRegular
    <2>2. getDepositValue(name) \subseteq Nat  BY MoneyAssumption DEF getDepositValue
    <2>. QED  BY <1>2, <2>1, <2>2, BeginKeeps DEF StartRegular, VisitsInv, RegularVisits, DueOK
  <1>3. ASSUME NEW w \in Workers, Move(w)
        PROVE  VisitsInv'
    BY <1>3, MoveKeeps
  <1>4. ASSUME NEW w \in Workers, BrowserFails(w)
        PROVE  VisitsInv'
    BY <1>4, EndKeeps DEF BrowserFails
  <1>5. ASSUME NEW w \in Workers, Refetch(w)
        PROVE  VisitsInv'
    BY <1>5, RefetchKeeps
  <1>6. ASSUME NEW w \in Workers, NEW r \in requests[w], Apply(w, r)
        PROVE  VisitsInv'
    BY <1>6, ApplyKeeps
  <1>7. ASSUME NEW w \in Workers, NEW r \in requests[w], Refuse(w, r)
        PROVE  VisitsInv'
    <2>1. AccountOK'  BY <1>7 DEF Refuse, VisitsInv, Account, AccountOK
    <2>. QED  BY <1>7, <2>1, LessRequested, ServedKeeps DEF Refuse
  <1>8. CASE DeliverCard \/ LongTradesClose \/ PriceMoves
    <2>1. AccountOK'
      BY <1>8 DEF DeliverCard, LongTradesClose, PriceMoves, VisitsInv, AccountOK
    <2>2. UNCHANGED <<visit, shown, requests, due>>
      BY <1>8 DEF DeliverCard, LongTradesClose, PriceMoves
    <2>. QED  BY <2>1, <2>2, ServedKeeps DEF VisitsInv
  <1>9. CASE IntervalElapsed
    <2>1. UNCHANGED <<Account, visit, shown, requests>> /\ due' = TRUE /\ "order_credit_card" \in Visits
      BY <1>9 DEF IntervalElapsed
    <2>. QED  BY <2>1 DEF VisitsInv, DueOK, Account, AccountOK, WorkerOK, VisitOK, Step, AsNamed
  <1>10. CASE UNCHANGED vars
    BY <1>10 DEF vars, VisitsInv, DueOK, AccountOK, WorkerOK, VisitOK, Step, AsNamed
  <1>. QED  BY <1>1, <1>2, <1>3, <1>4, <1>5, <1>6, <1>7, <1>8, <1>9, <1>10 DEF Next

LEMMA VisitsKept == Spec => []VisitsInv
  BY InitVisits, NextKeepsVisits, PTL DEF Spec

LEMMA VisitsTyped == VisitsInv => TypeOK
  <1>. SUFFICES ASSUME VisitsInv PROVE TypeOK
    OBVIOUS
  <1>1. ASSUME NEW w \in Workers
        PROVE  Cardinality(visit[w]) <= 1
    <2>1. CASE visit[w] = {}  BY <2>1, FS_EmptySet
    <2>2. CASE visit[w] # {}
      <3>1. PICK v : visit[w] = {v}  BY <2>2, Driven
      <3>2. Cardinality({v}) = 1  BY FS_Singleton
      <3>. QED  BY <3>1, <3>2
    <2>. QED  BY <2>1, <2>2
  <1>2. ASSUME NEW w \in Workers
        PROVE  requests[w] \subseteq Request /\ \A v \in visit[w] : v.at \in DOMAIN Run(v.name)
    BY DEF VisitsInv, WorkerOK, VisitOK
  <1>. QED  BY <1>1, <1>2 DEF VisitsInv, AccountOK, DueOK, TypeOK

(* Balance, units and requests keep their types and bounds, a worker drives  *)
(* one visit at most, and a visit never runs past its last step, whatever    *)
(* the page shows when checkIfOrderPending or a form reads it.               *)
THEOREM TypeCorrect == Spec => []TypeOK
  BY VisitsKept, VisitsTyped, PTL

----------------------------------------------------------------------------
(* Whose step it is *)

Own(w) == StartRare(w) \/ StartRegular(w) \/ Move(w) \/ BrowserFails(w) \/ Refetch(w)

(* What a step of one worker does to another. *)
Apart(w, x) == x # w => visit'[x] = visit[x] /\ shown'[x] = shown[x] /\ requests'[x] = requests[x]

LEMMA MoveIsOwn ==
  ASSUME VisitsInv, NEW w \in Workers, NEW x \in Workers, Move(w)
  PROVE  Apart(w, x) /\ UNCHANGED <<Account, due>>
  <1>. USE DEF Apart, Go, Send, End, VisitsInv
  <1>1. CASE Login(w)  BY <1>1 DEF Login
  <1>2. CASE Deposit(w)  BY <1>2 DEF Deposit
  <1>3. CASE GotoRandomInstrument(w)  BY <1>3 DEF GotoRandomInstrument
  <1>4. CASE GotoRandomOwnedInstrument(w)  BY <1>4 DEF GotoRandomOwnedInstrument
  <1>5. CASE getCurrentBalance(w)  BY <1>5 DEF getCurrentBalance, Look
  <1>6. CASE getInstrumentPossessedAmount(w)  BY <1>6 DEF getInstrumentPossessedAmount, Look
  <1>7. CASE getInstrumentPrice(w)  BY <1>7 DEF getInstrumentPrice
  <1>8. CASE Trade(w)  BY <1>8 DEF Trade
  <1>9. CASE scheduleTransaction(w)  BY <1>9 DEF scheduleTransaction
  <1>10. CASE Withdraw(w)  BY <1>10 DEF Withdraw
  <1>11. CASE GotoCreditCardPage(w)  BY <1>11 DEF GotoCreditCardPage
  <1>12. CASE CheckIfOrderPending(w)  BY <1>12 DEF CheckIfOrderPending
  <1>13. CASE RevokeCard(w)  BY <1>13 DEF RevokeCard
  <1>14. CASE OrderCard(w)  BY <1>14 DEF OrderCard
  <1>15. CASE Logout(w)  BY <1>15 DEF Logout
  <1>16. CASE GiveUp(w)  BY <1>16 DEF GiveUp
  <1>. QED
    BY <1>1, <1>2, <1>3, <1>4, <1>5, <1>6, <1>7, <1>8, <1>9, <1>10, <1>11, <1>12, <1>13, <1>14, <1>15, <1>16
    DEF Move

LEMMA OwnIsOwn ==
  ASSUME VisitsInv, NEW w \in Workers, NEW x \in Workers, Own(w)
  PROVE  Apart(w, x) /\ UNCHANGED Account
  <1>1. CASE StartRare(w)  BY <1>1 DEF StartRare, Begin, Apart, VisitsInv
  <1>2. CASE StartRegular(w)  BY <1>2 DEF StartRegular, Begin, Apart, VisitsInv
  <1>3. CASE Move(w)  BY <1>3, MoveIsOwn
  <1>4. CASE BrowserFails(w)  BY <1>4 DEF BrowserFails, End, Apart, VisitsInv
  <1>5. CASE Refetch(w)  BY <1>5 DEF Refetch, Apart, VisitsInv
  <1>. QED  BY <1>1, <1>2, <1>3, <1>4, <1>5 DEF Own

(* Nothing happens to a worker but its own steps and answers of the services. *)
LEMMA OnlyOwnSteps ==
  ASSUME VisitsInv, [Next]_vars, NEW w \in Workers
  PROVE  \/ Own(w)
         \/ visit'[w] = visit[w] /\ shown'[w] = shown[w] /\ requests'[w] \subseteq requests[w]
  <1>1. ASSUME NEW x \in Workers, Own(x)
        PROVE  \/ Own(w)
               \/ visit'[w] = visit[w] /\ shown'[w] = shown[w] /\ requests'[w] \subseteq requests[w]
    BY <1>1, OwnIsOwn DEF Apart
  <1>2. ASSUME NEW x \in Workers, NEW r \in requests[x], Apply(x, r) \/ Refuse(x, r)
        PROVE  visit'[w] = visit[w] /\ shown'[w] = shown[w] /\ requests'[w] \subseteq requests[w]
    BY <1>2, LessRequested DEF Apply, Refuse
  <1>3. CASE IntervalElapsed \/ DeliverCard \/ LongTradesClose \/ PriceMoves
    BY <1>3 DEF IntervalElapsed, DeliverCard, LongTradesClose, PriceMoves
  <1>4. CASE UNCHANGED vars  BY <1>4 DEF vars
  <1>. QED  BY <1>1, <1>2, <1>3, <1>4 DEF Next, Own

----------------------------------------------------------------------------
(* Scheduled orders *)

LEMMA ScheduledByItsStep ==
  ASSUME VisitsInv, NEW w \in Workers, NEW v \in visit[w], Step(v) = "schedule", Own(w)
  PROVE  requests'[w] = requests[w] \/ scheduleTransaction(w)
  <1>1. visit[w] = {v}  BY Driven
  <1>2. CASE StartRare(w) \/ StartRegular(w) \/ BrowserFails(w) \/ Refetch(w)
    BY <1>2 DEF StartRare, StartRegular, BrowserFails, Refetch
  <1>3. ~Deposit(w) /\ ~Trade(w) /\ ~Withdraw(w) /\ ~RevokeCard(w) /\ ~OrderCard(w)
    BY <1>1 DEF Deposit, Trade, Withdraw, RevokeCard, OrderCard
  <1>4. CASE \/ Login(w) \/ GotoRandomInstrument(w) \/ GotoRandomOwnedInstrument(w)
             \/ getInstrumentPrice(w) \/ GotoCreditCardPage(w) \/ CheckIfOrderPending(w) \/ Logout(w) \/ GiveUp(w)
    BY <1>4 DEF Login, GotoRandomInstrument, GotoRandomOwnedInstrument, getInstrumentPrice,
                GotoCreditCardPage, CheckIfOrderPending, Logout, GiveUp
  <1>5. CASE getCurrentBalance(w) \/ getInstrumentPossessedAmount(w)
    BY <1>5 DEF getCurrentBalance, getInstrumentPossessedAmount, Look
  <1>. QED  BY <1>2, <1>3, <1>4, <1>5 DEF Own, Move

LEMMA OrderFollowsName ==
  ASSUME VisitsInv, [Next]_vars, NEW w \in Workers, NEW v \in visit[w],
         NEW form, NEW r \in Ordered(w, v, form), form \in {"buy", "sell"}
  PROVE  /\ form = "buy" =>
              IF v.name = "deposit_and_long_buy_error"
              THEN balance <= v.seen.balance => r.price * r.amount > 100 * balance
              ELSE r.price * r.amount <= 100 * v.deposit
         /\ form = "sell" =>
              IF v.name = "long_sell_error"
              THEN owned <= v.seen.owned => r.amount > owned
              ELSE r.amount \in 1..v.seen.owned
  <1>1. r \in requests'[w] /\ r \notin requests[w] /\ r.form = form /\ Step(v) = "schedule"
    BY DEF Ordered
  <1>2. scheduleTransaction(w)  BY <1>1, OnlyOwnSteps, ScheduledByItsStep
  <1>3. visit[w] = {v} /\ v \in Visiting /\ WellRun(Run(v.name), v.name) /\ VisitOK(v, shown[w])
    BY Driven
  <1>4. LongValid(v.typed, v.order.price)
        /\ Send(w, Sent(IF v.name \in Buys THEN "buy" ELSE "sell", v.typed, v.order.price))
    BY <1>1, <1>2, <1>3 DEF scheduleTransaction
  <1>5. r = Sent(IF v.name \in Buys THEN "buy" ELSE "sell", v.typed, v.order.price)
    BY <1>1, <1>4 DEF Send, VisitsInv
  <1>6. v.typed = v.order.amount /\ AsNamed(v, v.order)  BY <1>1, <1>3 DEF VisitOK
  <1>7. /\ r.price = v.order.price /\ r.amount = v.order.amount /\ r.amount > 0
        /\ r.form = IF v.name \in Buys THEN "buy" ELSE "sell"
    BY <1>4, <1>5, <1>6 DEF Sent, LongValid
  <1>8. v.name \in LongBuys \union LongSells
    BY <1>1, <1>3 DEF WellRun, VisitOK, Step
  <1>9. /\ v.order.price \in Nat /\ v.order.amount \in Nat /\ v.deposit \in Nat
        /\ v.seen.balance \in Nat /\ v.seen.owned \in Nat /\ balance \in Nat /\ owned \in Nat
    BY <1>3, BoundsAreNat DEF Visiting, Order, Seen, VisitsInv, AccountOK
  <1>10. PICK cost : cost = v.order.price * v.order.amount
    OBVIOUS
  <1>11. cost \in Nat /\ r.price * r.amount = cost  BY <1>7, <1>9, <1>10, Products
  <1>12. CASE form = "buy"
    <2>1. v.name \in LongBuys
      BY <1>1, <1>7, <1>8, <1>12 DEF Buys, LongBuys, LongSells
    <2>2. CASE v.name = "deposit_and_long_buy_error"
      <3>1. cost >= 210 * v.seen.balance /\ cost >= 210  BY <1>6, <1>10, <2>2 DEF AsNamed
      <3>2. balance <= v.seen.balance => cost > 100 * balance  BY <1>9, <1>11, <3>1
      <3>. QED  BY <1>11, <1>12, <2>2, <3>2
    <2>3. CASE v.name # "deposit_and_long_buy_error"
      <3>1. cost <= 100 * v.deposit  BY <1>6, <1>10, <2>1, <2>3 DEF AsNamed, LongBuys
      <3>. QED  BY <1>11, <1>12, <2>3, <3>1
    <2>. QED  BY <2>2, <2>3
  <1>13. CASE form = "sell"
    <2>1. v.name \in LongSells
      BY <1>1, <1>7, <1>8, <1>13 DEF Buys
    <2>2. CASE v.name = "long_sell_error"
      <3>1. r.amount = 10 * v.seen.owned  BY <1>6, <1>7, <2>2 DEF AsNamed
      <3>2. owned <= v.seen.owned => r.amount > owned  BY <1>7, <1>9, <3>1
      <3>. QED  BY <1>13, <2>2, <3>2
    <2>3. CASE v.name # "long_sell_error"
      <3>1. r.amount <= v.seen.owned  BY <1>6, <1>7, <2>1, <2>3 DEF AsNamed, LongSells
      <3>2. r.amount \in 1..v.seen.owned  BY <1>7, <1>9, <3>1
      <3>. QED  BY <1>13, <2>3, <3>2
    <2>. QED  BY <2>2, <2>3
  <1>. QED  BY <1>12, <1>13

(* An order that scheduleTransaction sends is what the calculator of its     *)
(* visit has computed, from a price and holdings that were shown: an error   *)
(* order exceeds them, and every other order stays within them.              *)
THEOREM OrdersNamed == Spec => OrdersAreAsNamed
  <1>1. VisitsInv /\ [Next]_vars =>
          [\A w \in Workers : \A v \in visit[w] :
             /\ \A r \in Ordered(w, v, "buy") :
                  IF v.name = "deposit_and_long_buy_error"
                  THEN balance <= v.seen.balance => r.price * r.amount > 100 * balance
                  ELSE r.price * r.amount <= 100 * v.deposit
             /\ \A r \in Ordered(w, v, "sell") :
                  IF v.name = "long_sell_error"
                  THEN owned <= v.seen.owned => r.amount > owned
                  ELSE r.amount \in 1..v.seen.owned]_vars
    BY OrderFollowsName
  <1>. QED  BY <1>1, VisitsKept, PTL DEF Spec, OrdersAreAsNamed

----------------------------------------------------------------------------
(* Rare visits *)

(* A visit that orders a credit card, or what is left of one, at a worker. *)
Rare(w) == \/ \E v \in visit[w] : v.name = "order_credit_card"
           \/ \E r \in requests[w] : r.form \in {"order", "revoke"}

(* Until the card is revoked, the visit has sent nothing and a card that it  *)
(* sees active is; as long as the revocation is under way, the card stays    *)
(* active, shown or not, and no other is ordered.                            *)
RareOK(w) ==
  /\ \A v \in visit[w] : v.name = "order_credit_card" /\ v.at <= 4 =>
       requests[w] = {} /\ (shown[w].card = "active" => card = "active")
  /\ \A r \in requests[w] : r.form = "revoke" =>
       /\ r = Sent("revoke", 0, 0) /\ card = "active"
       /\ \A s \in requests[w] : s.form # "order"
       /\ \A v \in visit[w] : v.name = "order_credit_card" /\ shown[w].card = "active"

RareInv ==
  /\ VisitsInv
  /\ \A w \in Workers : due => ~Rare(w)
  /\ \A w, x \in Workers : Rare(w) /\ Rare(x) => w = x
  /\ \A w \in Workers : RareOK(w)

(* What a step sends, if it sends anything: v is its visit before. *)
SendsOnly(w, v, r) ==
  \/ Step(v) \in {"deposit", "trade", "schedule", "withdraw"} /\ r.form \notin {"order", "revoke"}
  \/ Step(v) = "revoke" /\ shown[w].card = "active" /\ r = Sent("revoke", 0, 0)
  \/ Step(v) = "order" /\ shown[w].card = "none" /\ r = Sent("order", 0, 0)

(* A visit goes on to its next step, but for the one that a pending order    *)
(* takes to its last.                                                        *)
GoesOn(w, v, n) ==
  /\ visit'[w] = {n} /\ n.name = v.name
  /\ \/ n.at = v.at + 1
     \/ Step(v) = "check" /\ n.at = Len(Run(v.name))
  /\ shown'[w] = shown[w] \/ Step(v) \in {"trade", "schedule"}
  /\ \/ requests'[w] = requests[w]
     \/ \E r : requests'[w] = requests[w] \union {r} /\ SendsOnly(w, v, r)

Over(w) == visit'[w] = {} /\ shown'[w] = Blank /\ requests'[w] = requests[w]

LEMMA GoGoesOn ==
  ASSUME VisitsInv, NEW w \in Workers, NEW v \in visit[w], Go(w, v),
         UNCHANGED shown,
         \/ UNCHANGED requests
         \/ \E r : Send(w, r) /\ SendsOnly(w, v, r)
  PROVE  \E n : GoesOn(w, v, n)
  <1>1. PICK n : n = [v EXCEPT !.at = @ + 1]
    OBVIOUS
  <1>2. v \in Visiting  BY Driven
  <1>3. n.name = v.name /\ n.at = v.at + 1  BY <1>1, <1>2, Gone
  <1>4. visit'[w] = {n}  BY <1>1 DEF Go, VisitsInv
  <1>5. \/ requests'[w] = requests[w]
        \/ \E r : requests'[w] = requests[w] \union {r} /\ SendsOnly(w, v, r)
    BY DEF Send, VisitsInv
  <1>. QED  BY <1>3, <1>4, <1>5 DEF GoesOn

LEMMA EndIsOver ==
  ASSUME VisitsInv, NEW w \in Workers, End(w), UNCHANGED requests
  PROVE  Over(w)
  BY DEF End, Over, VisitsInv

LEMMA MoveGoesOn ==
  ASSUME VisitsInv, NEW w \in Workers, Move(w)
  PROVE  Over(w) \/ \E v \in visit[w] : \E n : GoesOn(w, v, n)
  <1>1. CASE Login(w)
    BY <1>1, GoGoesOn DEF Login
  <1>2. CASE Deposit(w)
    <2>1. PICK v \in visit[w] : Step(v) = "deposit" /\ Go(w, v) /\ Send(w, Sent("deposit", v.deposit, 0))
                                /\ UNCHANGED shown
      BY <1>2 DEF Deposit
    <2>2. SendsOnly(w, v, Sent("deposit", v.deposit, 0))  BY <2>1 DEF SendsOnly, Sent
    <2>. QED  BY <2>1, <2>2, GoGoesOn
  <1>3. CASE GotoRandomInstrument(w)
    BY <1>3, GoGoesOn DEF GotoRandomInstrument
  <1>4. CASE GotoRandomOwnedInstrument(w)
    BY <1>4, GoGoesOn DEF GotoRandomOwnedInstrument
  <1>5. ASSUME NEW v \in visit[w], NEW seen \in Seen, Look(w, v, seen)
        PROVE  \E n : GoesOn(w, v, n)
    <2>1. PICK n : n = [v EXCEPT !.at = @ + 1, !.seen = seen]
      OBVIOUS
    <2>2. n.name = v.name /\ n.at = v.at + 1  BY <2>1, Driven DEF Visiting
    <2>3. visit'[w] = {n} /\ UNCHANGED <<shown, requests>>  BY <1>5, <2>1 DEF Look, VisitsInv
    <2>. QED  BY <2>2, <2>3 DEF GoesOn
  <1>6. CASE getCurrentBalance(w)
    <2>1. [Nothing EXCEPT !.balance = shown[w].balance] \in Seen
      BY DEF Nothing, Seen, Page, VisitsInv
    <2>. QED  BY <1>5, <1>6, <2>1 DEF getCurrentBalance
  <1>7. CASE getInstrumentPossessedAmount(w)
    <2>1. [Nothing EXCEPT !.owned = shown[w].owned] \in Seen
      BY DEF Nothing, Seen, Page, VisitsInv
    <2>. QED  BY <1>5, <1>7, <2>1 DEF getInstrumentPossessedAmount
  <1>8. CASE getInstrumentPrice(w)
    <2>1. PICK v \in visit[w] : \E o :
            visit' = [visit EXCEPT ![w] =
                 {[[v EXCEPT !.seen.price = shown[w].price] EXCEPT !.at = @ + 1, !.order = o, !.typed = o.amount]}]
      BY <1>8 DEF getInstrumentPrice
    <2>2. PICK u : u = [v EXCEPT !.seen.price = shown[w].price]
      OBVIOUS
    <2>3. u.name = v.name /\ u.at = v.at /\ DOMAIN u = DOMAIN v  BY <2>2, Driven DEF Visiting
    <2>4. PICK o : visit' = [visit EXCEPT ![w] = {[u EXCEPT !.at = @ + 1, !.order = o, !.typed = o.amount]}]
      BY <2>1, <2>2
    <2>5. PICK n : n = [u EXCEPT !.at = @ + 1, !.order = o, !.typed = o.amount]
      OBVIOUS
    <2>6. n.name = v.name /\ n.at = v.at + 1  BY <2>3, <2>5, Driven DEF Visiting
    <2>7. visit'[w] = {n}  BY <2>4, <2>5 DEF VisitsInv
    <2>. QED  BY <1>8, <2>6, <2>7 DEF GoesOn, getInstrumentPrice
  <1>9. CASE Trade(w)
    <2>1. PICK v \in visit[w] : \E o :
            /\ Step(v) = "trade" /\ visit' = [visit EXCEPT ![w] = {[Forgotten(v) EXCEPT !.order = o]}]
            /\ \/ UNCHANGED requests
               \/ Send(w, Sent("quickBuy", v.typed, 0))
               \/ Send(w, Sent("quickSell", v.typed, 0))
      BY <1>9 DEF Trade
    <2>2. PICK o : visit' = [visit EXCEPT ![w] = {[Forgotten(v) EXCEPT !.order = o]}]
      BY <2>1
    <2>3. PICK f : f = Forgotten(v)
      OBVIOUS
    <2>4. f \in Visiting /\ f.name = v.name /\ f.at = v.at + 1  BY <2>3, Driven, Gone
    <2>5. PICK n : n = [f EXCEPT !.order = o]
      OBVIOUS
    <2>6. n.name = v.name /\ n.at = v.at + 1  BY <2>4, <2>5 DEF Visiting
    <2>7. visit'[w] = {n}  BY <2>2, <2>3, <2>5 DEF VisitsInv
    <2>8. /\ SendsOnly(w, v, Sent("quickBuy", v.typed, 0))
          /\ SendsOnly(w, v, Sent("quickSell", v.typed, 0))
      BY <2>1 DEF SendsOnly, Sent
    <2>9. \/ requests'[w] = requests[w]
          \/ \E r : requests'[w] = requests[w] \union {r} /\ SendsOnly(w, v, r)
      BY <2>1, <2>8 DEF Send, VisitsInv
    <2>. QED  BY <2>1, <2>6, <2>7, <2>9 DEF GoesOn
  <1>10. CASE scheduleTransaction(w)
    <2>1. PICK v \in visit[w] :
            /\ Step(v) = "schedule" /\ visit' = [visit EXCEPT ![w] = {Forgotten(v)}]
            /\ \/ UNCHANGED requests
               \/ Send(w, Sent("buy", v.typed, v.order.price))
               \/ Send(w, Sent("sell", v.typed, v.order.price))
      BY <1>10 DEF scheduleTransaction
    <2>2. Forgotten(v).name = v.name /\ Forgotten(v).at = v.at + 1  BY Driven, Gone
    <2>3. /\ SendsOnly(w, v, Sent("buy", v.typed, v.order.price))
          /\ SendsOnly(w, v, Sent("sell", v.typed, v.order.price))
      BY <2>1 DEF SendsOnly, Sent
    <2>4. \/ requests'[w] = requests[w]
          \/ \E r : requests'[w] = requests[w] \union {r} /\ SendsOnly(w, v, r)
      BY <2>1, <2>3 DEF Send, VisitsInv
    <2>5. visit'[w] = {Forgotten(v)}  BY <2>1 DEF VisitsInv
    <2>. QED  BY <2>1, <2>2, <2>4, <2>5 DEF GoesOn
  <1>11. CASE Withdraw(w)
    <2>1. PICK v \in visit[w] : \E a :
            /\ Step(v) = "withdraw" /\ visit' = [visit EXCEPT ![w] = {Forgotten(v)}]
            /\ Send(w, Sent("withdraw", a, 0)) /\ UNCHANGED shown
      BY <1>11 DEF Withdraw
    <2>2. PICK a : Send(w, Sent("withdraw", a, 0))
      BY <2>1
    <2>3. Forgotten(v).name = v.name /\ Forgotten(v).at = v.at + 1  BY Driven, Gone
    <2>4. SendsOnly(w, v, Sent("withdraw", a, 0))  BY <2>1 DEF SendsOnly, Sent
    <2>5. requests'[w] = requests[w] \union {Sent("withdraw", a, 0)} /\ visit'[w] = {Forgotten(v)}
      BY <2>1, <2>2 DEF Send, VisitsInv
    <2>. QED  BY <2>1, <2>3, <2>4, <2>5 DEF GoesOn
  <1>12. CASE GotoCreditCardPage(w)
    BY <1>12, GoGoesOn DEF GotoCreditCardPage
  <1>13. CASE CheckIfOrderPending(w)
    <2>1. PICK v \in visit[w] :
            /\ Step(v) = "check"
            /\ visit' = [visit EXCEPT ![w] = {[v EXCEPT !.at =
                    IF shown[w].card = "pending" THEN Len(Run(v.name)) ELSE @ + 1]}]
      BY <1>13 DEF CheckIfOrderPending
    <2>2. PICK n : n = [v EXCEPT !.at = IF shown[w].card = "pending" THEN Len(Run(v.name)) ELSE @ + 1]
      OBVIOUS
    <2>3. n.name = v.name /\ (n.at = v.at + 1 \/ n.at = Len(Run(v.name)))
      BY <2>2, Driven DEF Visiting
    <2>4. visit'[w] = {n}  BY <2>1, <2>2 DEF VisitsInv
    <2>. QED  BY <1>13, <2>1, <2>3, <2>4 DEF GoesOn, CheckIfOrderPending
  <1>14. CASE RevokeCard(w)
    BY <1>14, GoGoesOn DEF RevokeCard, SendsOnly
  <1>15. CASE OrderCard(w)
    BY <1>15, GoGoesOn DEF OrderCard, SendsOnly
  <1>16. CASE Logout(w)  BY <1>16, EndIsOver DEF Logout
  <1>17. CASE GiveUp(w)  BY <1>17, EndIsOver DEF GiveUp
  <1>. QED
    BY <1>1, <1>2, <1>3, <1>4, <1>6, <1>7, <1>8, <1>9, <1>10, <1>11, <1>12, <1>13, <1>14, <1>15, <1>16, <1>17
    DEF Move

LEMMA RefetchShows ==
  ASSUME VisitsInv, NEW w \in Workers, Refetch(w)
  PROVE  /\ UNCHANGED <<Account, requests, due>>
         /\ \E v \in visit[w] : \E n :
              /\ visit'[w] = {n} /\ n.name = v.name /\ n.at = v.at
              /\ shown'[w].card \in {shown[w].card, Current(v).card}
  <1>0. PICK v \in visit[w] : \E page \in Refreshed(shown[w], Current(v)) :
          /\ shown' = [shown EXCEPT ![w] = page]
          /\ visit' = visit \/ visit' = [visit EXCEPT ![w] = {[v EXCEPT !.typed = 0]}]
    BY Zenon DEF Refetch
  <1>1. PICK page \in Refreshed(shown[w], Current(v)) :
          /\ shown' = [shown EXCEPT ![w] = page]
          /\ visit' = visit \/ visit' = [visit EXCEPT ![w] = {[v EXCEPT !.typed = 0]}]
    BY <1>0
  <1>2. PICK n : n = IF visit' = visit THEN v ELSE [v EXCEPT !.typed = 0]
    OBVIOUS
  <1>3. n.name = v.name /\ n.at = v.at  BY <1>2, Driven DEF Visiting
  <1>4. visit'[w] = {n} /\ shown'[w] = page  BY <1>1, <1>2, Driven DEF VisitsInv
  <1>5. page.card \in {shown[w].card, Current(v).card}
    BY RefreshedIsPage, Driven DEF VisitsInv
  <1>. QED  BY <1>3, <1>4, <1>5 DEF Refetch

LEMMA RareSteps ==
  ASSUME NEW v, v.name = "order_credit_card", v.at \in DOMAIN Run(v.name)
  PROVE  /\ Len(Run(v.name)) = 6 /\ v.at \in 1..6
         /\ v.at <= 3 => Step(v) \in {"login", "card", "check"}
         /\ v.at = 4 <=> Step(v) = "revoke"
         /\ v.at = 5 <=> Step(v) = "order"
         /\ Step(v) \in {"login", "card", "check", "revoke", "order", "logout"}
  <1>1. PICK r : r = Run(v.name)
    OBVIOUS
  <1>2. r = <<"login", "card", "check", "revoke", "order", "logout">>
    BY <1>1, Runs DEF OrderCreditCardVisit
  <1>3. /\ Len(r) = 6 /\ DOMAIN r = 1..6
        /\ r[1] = "login" /\ r[2] = "card" /\ r[3] = "check"
        /\ r[4] = "revoke" /\ r[5] = "order" /\ r[6] = "logout"
    BY <1>2
  <1>4. v.at \in 1..6 /\ Step(v) = r[v.at]  BY <1>1, <1>3 DEF Step
  <1>5. v.at = 1 \/ v.at = 2 \/ v.at = 3 \/ v.at = 4 \/ v.at = 5 \/ v.at = 6  BY <1>4
  <1>. QED  BY <1>1, <1>3, <1>4, <1>5

LEMMA CardSteps ==
  ASSUME VisitsInv, [Next]_vars
  PROVE  \/ card' = card
         \/ card # "active"
         \/ \E x \in Workers : \E r \in requests[x] : r.form = "revoke" /\ Apply(x, r)
  <1>1. ASSUME NEW x \in Workers, Own(x)
        PROVE  card' = card
    BY <1>1, OwnIsOwn DEF Account
  <1>2. ASSUME NEW x \in Workers, NEW r \in requests[x], Apply(x, r)
        PROVE  card' = card \/ card # "active" \/ r.form = "revoke"
    <2>1. r \in Request  BY DEF VisitsInv
    <2>. QED  BY <1>2, <2>1 DEF Apply, Request
  <1>3. ASSUME NEW x \in Workers, NEW r \in requests[x], Refuse(x, r)
        PROVE  card' = card
    BY <1>3 DEF Refuse, Account
  <1>4. CASE IntervalElapsed \/ DeliverCard \/ LongTradesClose \/ PriceMoves
    BY <1>4 DEF IntervalElapsed, DeliverCard, LongTradesClose, PriceMoves, Account
  <1>5. CASE UNCHANGED vars  BY <1>5 DEF vars
  <1>. QED  BY <1>1, <1>2, <1>3, <1>4, <1>5 DEF Next, Own

(* A card stays active while no other worker than w has a rare visit, and w  *)
(* revokes nothing.                                                          *)
LEMMA StaysActive ==
  ASSUME RareInv, [Next]_vars, NEW w \in Workers, Rare(w), card = "active",
         \A r \in requests[w] : r.form = "revoke" => ~Apply(w, r)
  PROVE  card' = "active"
  <1>1. ASSUME NEW x \in Workers, NEW r \in requests[x], r.form = "revoke", Apply(x, r)
        PROVE  FALSE
    <2>1. Rare(x)  BY <1>1 DEF Rare
    <2>2. x = w  BY <2>1 DEF RareInv
    <2>. QED  BY <1>1, <2>2
  <1>. QED  BY <1>1, CardSteps DEF RareInv

(* A rare visit comes from StartRare and from nowhere else. *)
LEMMA RareStays ==
  ASSUME VisitsInv, [Next]_vars, NEW w \in Workers, Rare(w)'
  PROVE  Rare(w) \/ StartRare(w)
  <1>. SUFFICES ASSUME ~StartRare(w) PROVE Rare(w)
    OBVIOUS
  <1>0. \/ \E v \in visit'[w] : v.name = "order_credit_card"
        \/ \E r \in requests'[w] : r.form \in {"order", "revoke"}
    BY DEF Rare
  <1>1. CASE visit'[w] = visit[w] /\ requests'[w] \subseteq requests[w]
    BY <1>0, <1>1 DEF Rare
  <1>2. CASE StartRegular(w)
    <2>1. PICK name \in RegularVisits : \E d : Begin(w, name, d)  BY <1>2 DEF StartRegular
    <2>2. PICK d : Begin(w, name, d)  BY <2>1
    <2>3. visit'[w] = {[name |-> name, at |-> 1, deposit |-> d, seen |-> Nothing, order |-> NoOrder, typed |-> 0]}
      BY <2>2 DEF Begin, VisitsInv
    <2>4. name # "order_credit_card" /\ requests' = requests  BY <1>2 DEF RegularVisits, StartRegular
    <2>. QED  BY <1>0, <2>3, <2>4 DEF Rare
  <1>3. CASE Over(w)
    BY <1>0, <1>3 DEF Over, Rare
  <1>4. ASSUME NEW v \in visit[w], NEW n, GoesOn(w, v, n)
        PROVE  Rare(w)
    <2>1. v \in Visiting /\ VisitOK(v, shown[w]) /\ WellRun(Run(v.name), v.name)  BY Driven
    <2>2. Step(v) \in {"revoke", "order"} => v.name = "order_credit_card"
      BY <2>1 DEF VisitOK, WellRun, Step
    <2>3. ASSUME NEW r, SendsOnly(w, v, r), r.form \in {"order", "revoke"}
          PROVE  v.name = "order_credit_card"
      BY <2>2, <2>3 DEF SendsOnly
    <2>. QED  BY <1>0, <1>4, <2>3 DEF GoesOn, Rare
  <1>5. CASE BrowserFails(w)
    <2>1. Over(w)  BY <1>5, EndIsOver DEF BrowserFails
    <2>. QED  BY <1>3, <2>1
  <1>6. CASE Refetch(w)
    BY <1>0, <1>6, RefetchShows DEF Rare
  <1>7. CASE Move(w)
    BY <1>3, <1>4, <1>7, MoveGoesOn
  <1>. QED  BY <1>1, <1>2, <1>5, <1>6, <1>7, OnlyOwnSteps DEF Own

(* Somebody else's step, or an answer. *)
LEMMA RareElsewhere ==
  ASSUME RareInv, [Next]_vars, NEW w \in Workers,
         visit'[w] = visit[w], shown'[w] = shown[w], requests'[w] \subseteq requests[w]
  PROVE  RareOK(w)'
  <1>1. ASSUME NEW v \in visit[w], v.name = "order_credit_card", v.at <= 4
        PROVE  requests'[w] = {} /\ (shown'[w].card = "active" => card' = "active")
    <2>1. requests[w] = {} /\ (shown[w].card = "active" => card = "active")
      BY <1>1 DEF RareInv, RareOK
    <2>2. Rare(w)  BY <1>1 DEF Rare
    <2>. QED  BY <2>1, <2>2, StaysActive
  <1>2. ASSUME NEW r \in requests'[w], r.form = "revoke"
        PROVE  /\ r = Sent("revoke", 0, 0) /\ card' = "active"
               /\ \A s \in requests'[w] : s.form # "order"
               /\ \A v \in visit'[w] : v.name = "order_credit_card" /\ shown'[w].card = "active"
    <2>1. /\ r = Sent("revoke", 0, 0) /\ card = "active"
          /\ \A s \in requests[w] : s.form # "order"
          /\ \A v \in visit[w] : v.name = "order_credit_card" /\ shown[w].card = "active"
      BY <1>2 DEF RareInv, RareOK
    <2>2. Rare(w)  BY <1>2 DEF Rare
    <2>3. ASSUME NEW q \in requests[w], q.form = "revoke", Apply(w, q)
          PROVE  FALSE
      <3>1. q = r  BY <2>1, <2>3 DEF RareInv, RareOK
      <3>2. requests'[w] = requests[w] \ {q}  BY <2>3 DEF Apply, RareInv, VisitsInv
      <3>. QED  BY <1>2, <3>1, <3>2
    <2>4. card' = "active"  BY <2>1, <2>2, <2>3, StaysActive
    <2>. QED  BY <2>1, <2>4
  <1>. QED  BY <1>1, <1>2 DEF RareOK

LEMMA RareMoves ==
  ASSUME RareInv, NEW w \in Workers, NEW v \in visit[w], NEW n, GoesOn(w, v, n), UNCHANGED card
  PROVE  RareOK(w)'
  <1>1. /\ v \in Visiting /\ VisitOK(v, shown[w]) /\ WellRun(Run(v.name), v.name) /\ visit[w] = {v}
        /\ shown[w] \in Page
    BY Driven DEF RareInv
  <1>2. RareOK(w)  BY DEF RareInv
  <1>3. CASE v.name # "order_credit_card"
    <2>1. \A r \in requests[w] : r.form # "revoke"  BY <1>2, <1>3 DEF RareOK
    <2>2. Step(v) \notin {"revoke", "order"}  BY <1>1, <1>3 DEF VisitOK, WellRun, Step
    <2>3. \A r \in requests'[w] : r.form # "revoke"
      BY <2>1, <2>2 DEF GoesOn, SendsOnly
    <2>4. visit'[w] = {n} /\ n.name = v.name  BY DEF GoesOn
    <2>. QED  BY <1>3, <2>3, <2>4 DEF RareOK
  <1>4. CASE v.name = "order_credit_card"
    <2>1. /\ Len(Run(v.name)) = 6 /\ v.at \in 1..6
          /\ v.at <= 3 => Step(v) \in {"login", "card", "check"}
          /\ v.at = 4 <=> Step(v) = "revoke"
          /\ v.at = 5 <=> Step(v) = "order"
          /\ Step(v) \in {"login", "card", "check", "revoke", "order", "logout"}
      BY <1>1, <1>4, RareSteps DEF VisitOK
    <2>2. /\ visit'[w] = {n} /\ n.name = "order_credit_card" /\ shown'[w] = shown[w]
          /\ n.at = v.at + 1 \/ n.at = 6
      BY <1>4, <2>1 DEF GoesOn
    <2>3. \/ requests'[w] = requests[w]
          \/ v.at = 4 /\ shown[w].card = "active" /\ requests'[w] = requests[w] \union {Sent("revoke", 0, 0)}
          \/ v.at = 5 /\ shown[w].card = "none" /\ requests'[w] = requests[w] \union {Sent("order", 0, 0)}
      BY <2>1 DEF GoesOn, SendsOnly
    <2>4. v.at <= 4 => requests[w] = {} /\ (shown[w].card = "active" => card = "active")
      BY <1>2, <1>4 DEF RareOK
    <2>5. n.at <= 4 => requests'[w] = {} /\ (shown'[w].card = "active" => card' = "active")
      <3>1. n.at <= 4 => v.at <= 3  BY <2>1, <2>2
      <3>2. v.at <= 3 => v.at <= 4 /\ v.at # 4 /\ v.at # 5  BY <2>1
      <3>. QED  BY <2>2, <2>3, <2>4, <3>1, <3>2
    <2>6. ASSUME NEW r \in requests'[w], r.form = "revoke"
          PROVE  /\ r = Sent("revoke", 0, 0) /\ card' = "active" /\ shown'[w].card = "active"
                 /\ \A s \in requests'[w] : s.form # "order"
      <3>1. CASE r \in requests[w]
        <4>1. /\ r = Sent("revoke", 0, 0) /\ card = "active" /\ shown[w].card = "active"
              /\ \A s \in requests[w] : s.form # "order"
          BY <1>2, <2>6, <3>1 DEF RareOK
        <4>2. requests'[w] = requests[w] \/ requests'[w] = requests[w] \union {Sent("revoke", 0, 0)}
          BY <2>3, <4>1
        <4>3. Sent("revoke", 0, 0).form # "order"  BY DEF Sent
        <4>. QED  BY <2>2, <4>1, <4>2, <4>3
      <3>2. CASE r \notin requests[w]
        <4>1. Sent("order", 0, 0).form # "revoke" /\ Sent("revoke", 0, 0).form # "order"  BY DEF Sent
        <4>2. v.at = 4 /\ shown[w].card = "active" /\ requests'[w] = requests[w] \union {Sent("revoke", 0, 0)}
          BY <2>3, <2>6, <3>2, <4>1
        <4>3. requests[w] = {} /\ card = "active"  BY <2>4, <4>2
        <4>. QED  BY <2>2, <2>6, <4>1, <4>2, <4>3
      <3>. QED  BY <3>1, <3>2
    <2>. QED  BY <2>2, <2>5, <2>6 DEF RareOK
  <1>. QED  BY <1>3, <1>4

LEMMA RareOwn ==
  ASSUME RareInv, NEW w \in Workers, Own(w)
  PROVE  RareOK(w)'
  <1>1. card' = card  BY OwnIsOwn DEF Account, RareInv
  <1>2. RareOK(w) /\ VisitsInv  BY DEF RareInv
  <1>3. CASE StartRare(w) \/ StartRegular(w)
    <2>1. requests'[w] = {} /\ shown'[w] = shown[w] /\ visit[w] = {}
      BY <1>3 DEF StartRare, StartRegular, Free
    <2>2. shown[w] = Blank  BY <1>2, <2>1 DEF VisitsInv, WorkerOK
    <2>3. shown'[w].card # "active"  BY <2>1, <2>2 DEF Blank
    <2>. QED  BY <2>1, <2>3 DEF RareOK
  <1>4. CASE Over(w)
    BY <1>1, <1>2, <1>4 DEF Over, RareOK
  <1>5. CASE BrowserFails(w)
    <2>1. Over(w)  BY <1>2, <1>5, EndIsOver DEF BrowserFails
    <2>. QED  BY <1>4, <2>1
  <1>6. CASE Move(w)
    BY <1>1, <1>2, <1>4, <1>6, MoveGoesOn, RareMoves
  <1>7. CASE Refetch(w)
    <2>1. PICK v \in visit[w] : \E n :
            /\ visit'[w] = {n} /\ n.name = v.name /\ n.at = v.at
            /\ shown'[w].card \in {shown[w].card, Current(v).card}
      BY <1>2, <1>7, RefetchShows
    <2>2. PICK n : visit'[w] = {n} /\ n.name = v.name /\ n.at = v.at
      BY <2>1
    <2>3. requests' = requests  BY <1>2, <1>7, RefetchShows
    <2>4. v.name = "order_credit_card" => shown'[w].card \in {shown[w].card, card}
      BY <1>2, <2>1, CurrentIsPage DEF VisitsInv
    <2>. QED  BY <1>1, <1>2, <2>2, <2>3, <2>4 DEF RareOK
  <1>. QED  BY <1>3, <1>5, <1>6, <1>7 DEF Own

LEMMA InitRare == Init => RareInv
  <1>. SUFFICES ASSUME Init PROVE RareInv
    OBVIOUS
  <1>1. VisitsInv  BY InitVisits
  <1>. QED  BY <1>1 DEF Init, RareInv, Rare, RareOK

LEMMA NextKeepsRare == RareInv /\ [Next]_vars => RareInv'
  <1>. SUFFICES ASSUME RareInv, [Next]_vars PROVE RareInv'
    OBVIOUS
  <1>1. VisitsInv /\ VisitsInv'  BY NextKeepsVisits DEF RareInv
  <1>2. ASSUME NEW w \in Workers
        PROVE  RareOK(w)'
    BY <1>1, OnlyOwnSteps, RareElsewhere, RareOwn
  <1>3. ASSUME NEW w \in Workers, NEW x \in Workers, Rare(w)', Rare(x)', StartRare(w), w # x
        PROVE  FALSE
    <2>1. ~Rare(x)  BY <1>3 DEF StartRare, RareInv
    <2>2. visit'[x] = visit[x] /\ requests'[x] = requests[x]
      BY <1>1, <1>3, OwnIsOwn DEF Own, Apart
    <2>. QED  BY <1>3, <2>1, <2>2 DEF Rare
  <1>4. ASSUME NEW w \in Workers, NEW x \in Workers, Rare(w)', Rare(x)'
        PROVE  w = x
    <2>1. Rare(w) \/ StartRare(w)  BY <1>1, <1>4, RareStays
    <2>2. Rare(x) \/ StartRare(x)  BY <1>1, <1>4, RareStays
    <2>. QED  BY <1>3, <1>4, <2>1, <2>2 DEF RareInv
  <1>5. ASSUME NEW w \in Workers, due', Rare(w)'
        PROVE  FALSE
    <2>1. CASE IntervalElapsed
      <3>1. ~Rare(w)  BY <2>1 DEF IntervalElapsed, RareUnderWay, Rare
      <3>. QED  BY <1>5, <2>1, <3>1 DEF IntervalElapsed, Rare
    <2>2. CASE ~IntervalElapsed
      <3>1. due
        <4>1. ASSUME NEW x \in Workers, Own(x)
              PROVE  due
          BY <1>1, <1>5, <4>1, MoveIsOwn DEF Own, StartRare, StartRegular, BrowserFails, Refetch
        <4>2. ASSUME NEW x \in Workers, NEW r \in requests[x], Apply(x, r) \/ Refuse(x, r)
              PROVE  due
          BY <1>5, <4>2 DEF Apply, Refuse
        <4>3. CASE DeliverCard \/ LongTradesClose \/ PriceMoves \/ UNCHANGED vars
          BY <1>5, <4>3 DEF DeliverCard, LongTradesClose, PriceMoves, vars
        <4>. QED  BY <2>2, <4>1, <4>2, <4>3 DEF Next, Own
      <3>2. StartRare(w)  BY <1>1, <1>5, <3>1, RareStays DEF RareInv
      <3>. QED  BY <1>5, <3>2 DEF StartRare
    <2>. QED  BY <2>1, <2>2
  <1>6. /\ (\A w \in Workers : due => ~Rare(w))'
        /\ (\A w, x \in Workers : Rare(w) /\ Rare(x) => w = x)'
        /\ (\A w \in Workers : RareOK(w))'
    BY <1>2, <1>4, <1>5
  <1>. QED  BY <1>1, <1>6 DEF RareInv

(* revokeCard revokes an active card, however late the request is applied    *)
(* and however many workers there are: the half hour between rare visits     *)
(* keeps every other order away.                                             *)
THEOREM ActiveIsRevoked == Spec => RevokesActive
  <1>1. RareInv /\ [Next]_vars =>
          [\A w \in Workers : \A r \in requests[w] : r.form = "revoke" /\ Apply(w, r) => card = "active"]_vars
    BY DEF RareInv, RareOK
  <1>. QED  BY <1>1, InitRare, NextKeepsRare, PTL DEF Spec, RevokesActive
=============================================================================
