------------------------------- MODULE LoadVisits -------------------------------
(***************************************************************************)
(* The load generator: workers that each drive a browser through the pages *)
(* of the frontend, one visit after another. A visit clicks and goes on; it *)
(* reads what it needs from the page, which shows what it has cached, and  *)
(* computes amounts from that. The users are few and drawn at random, so   *)
(* that visits of one user overlap: all visits here are of the same one,   *)
(* as those of different users share nothing. What visits that are not     *)
(* among the workers do to the account comes as LongTradesClose.           *)
(*                                                                         *)
(* Prices of orders are in hundredths, money and units in whole numbers.   *)
(***************************************************************************)
EXTENDS Integers, Sequences, FiniteSets, FiniteSetsExt

CONSTANTS
    Workers,        \* concurrent visits
    Visits,         \* names of the visits that are looked at
    Deposits,       \* values a visit may deposit
    Prices,         \* what the instrument may cost
    AssetSellShare, \* one in so many owned units may be sold: 1/assetSellRatio
    WithdrawMinValue,
    FirstBalance, FirstOwned,   \* the account in the beginning
    MaxBalance, MaxOwned        \* bounds: no more is earned or bought then

ASSUME MoneyAssumption ==
    /\ Deposits \subseteq Nat \ {0} /\ Prices \subseteq Nat \ {0}
    /\ AssetSellShare \in Nat \ {0}
    /\ {WithdrawMinValue, FirstBalance, FirstOwned, MaxBalance, MaxOwned} \subseteq Nat
    /\ FirstBalance <= MaxBalance /\ FirstOwned <= MaxOwned

VARIABLES
    balance, owned, price,  \* server: the account and the market
    card,       \* server: the credit card order of the account
    visit,      \* the visit of each worker, as a set
    shown,      \* what the page of each worker has cached
    requests,   \* what the pages of each worker have sent
    due         \* provider: a rare visit is due

vars == <<balance, owned, price, card, visit, shown, requests, due>>
Account == <<balance, owned, price, card>>

-----------------------------------------------------------------------------
(* The visits, as the steps their run() takes. *)

DepositAndBuyVisit == <<"login", "deposit", "instrument", "look", "calculate", "trade", "card", "logout">>
DepositAndLongBuyVisit == <<"login", "deposit", "instrument", "look", "calculate", "schedule", "card", "logout">>
SellAndWithdrawVisit == <<"login", "owned", "look", "calculate", "trade", "withdraw", "card", "logout">>
LongSellVisit == <<"login", "owned", "look", "calculate", "schedule", "card", "logout">>
OrderCreditCardVisit == <<"login", "card", "check", "revoke", "order", "logout">>

LongBuys == {"deposit_and_long_buy_success", "deposit_and_long_buy_timeout", "deposit_and_long_buy_error"}
LongSells == {"long_sell_success", "long_sell_timeout", "long_sell_error"}
Buys == LongBuys \union {"deposit_and_buy_success"}
Sells == LongSells \union {"sell_and_withdraw_success"}

ASSUME VisitsAssumption == Visits \subseteq Buys \union Sells \union {"order_credit_card"}

RegularVisits == Visits \ {"order_credit_card"}

Run(name) ==
    CASE name = "deposit_and_buy_success" -> DepositAndBuyVisit
      [] name \in LongBuys -> DepositAndLongBuyVisit
      [] name = "sell_and_withdraw_success" -> SellAndWithdrawVisit
      [] name \in LongSells -> LongSellVisit
      [] name = "order_credit_card" -> OrderCreditCardVisit

-----------------------------------------------------------------------------
(* Amounts. Math.floor(randomBetween(1, n / d)): the ends of the range, and *)
(* zero when the range ends below one.                                      *)
Floored(n, d) == IF n >= d THEN {1, n \div d} ELSE {0}

Larger(a, b) == IF a > b THEN a ELSE b

quickBuy(seen, deposit) == {[price |-> 0, amount |-> a] : a \in Floored(deposit, seen.price)}

quickSell(seen) == {[price |-> 0, amount |-> a] : a \in Floored(seen.owned, AssetSellShare)}

successBuyCalculator(seen, deposit) ==
    {[price |-> 110 * seen.price, amount |-> a] : a \in Floored(100 * deposit, 110 * seen.price)}

timeoutBuyCalculator(seen, deposit) ==
    {[price |-> seen.price, amount |-> a] : a \in Floored(100 * deposit, seen.price)}

(* Mutant: as many units as make up the balance once, rounded down. *)
errorBuyCalculatorAtMost(seen) == {[price |-> 30 * Larger(seen.balance, seen.price), amount |-> 3]}

errorBuyCalculator(seen) == {[price |-> 30 * Larger(seen.balance, seen.price), amount |-> 7]}

successSellCalculator(seen) ==
    {[price |-> 90 * seen.price, amount |-> a] : a \in Floored(seen.owned, AssetSellShare)}

timeoutSellCalculator(seen) ==
    {[price |-> 10000 * seen.price, amount |-> a] : a \in Floored(seen.owned, AssetSellShare)}

errorSellCalculator(seen) == {[price |-> 90 * seen.price, amount |-> 10 * seen.owned]}

Calculated(v) ==
    CASE v.name = "deposit_and_buy_success" -> quickBuy(v.seen, v.deposit)
      [] v.name = "deposit_and_long_buy_success" -> successBuyCalculator(v.seen, v.deposit)
      [] v.name = "deposit_and_long_buy_timeout" -> timeoutBuyCalculator(v.seen, v.deposit)
      [] v.name = "deposit_and_long_buy_error" -> errorBuyCalculator(v.seen)
      [] v.name = "sell_and_withdraw_success" -> quickSell(v.seen)
      [] v.name = "long_sell_success" -> successSellCalculator(v.seen)
      [] v.name = "long_sell_timeout" -> timeoutSellCalculator(v.seen)
      [] v.name = "long_sell_error" -> errorSellCalculator(v.seen)

-----------------------------------------------------------------------------
(* What the forms of the frontend let through, from what the page shows. *)

QuickBuyValid(amount, page) == amount > 0 /\ amount * page.price <= page.balance

QuickSellValid(amount, page) == amount > 0 /\ amount <= page.owned

(* Neither the balance nor the assets are looked at. *)
LongValid(amount, p) == amount > 0 /\ p > 0

-----------------------------------------------------------------------------
Nothing == [balance |-> 0, price |-> 0, owned |-> 0]
NoOrder == [price |-> 0, amount |-> 0]

(* A page that has not loaded yet shows zeros and no instrument, and neither *)
(* a form nor an order of a card.                                            *)
Blank == [balance |-> 0, price |-> 0, owned |-> 0, card |-> "loading"]

(* What a visit looks at on its pages, as of now. *)
Current(v) ==
    IF v.name = "order_credit_card" THEN [Blank EXCEPT !.card = card]
    ELSE [Blank EXCEPT !.balance = balance, !.price = price, !.owned = owned]

Request == [form : {"deposit", "withdraw", "quickBuy", "quickSell", "buy", "sell", "order", "revoke"},
            amount : Nat, price : Nat]
Sent(form, amount, p) == [form |-> form, amount |-> amount, price |-> p]

Init ==
    /\ balance = FirstBalance /\ owned = FirstOwned /\ price \in Prices /\ card = "none"
    /\ visit = [w \in Workers |-> {}]
    /\ shown = [w \in Workers |-> Blank]
    /\ requests = [w \in Workers |-> {}]
    /\ due = FALSE

Step(v) == Run(v.name)[v.at]
Free(w) == visit[w] = {} /\ requests[w] = {}   \* bounds the requests left behind
RareUnderWay ==
    \E w \in Workers : \/ \E v \in visit[w] : v.name = "order_credit_card"
                       \/ \E r \in requests[w] : r.form \in {"order", "revoke"}

getDepositValue(name) == IF name \in Buys THEN Deposits ELSE {0}

Begin(w, name, deposit) ==
    visit' = [visit EXCEPT ![w] = {[name |-> name, at |-> 1, deposit |-> deposit,
                                    seen |-> Nothing, order |-> NoOrder, typed |-> 0]}]

(* Half an hour has passed since the last rare visit, and a visit with its  *)
(* requests never takes that long.                                          *)
IntervalElapsed ==
    /\ ~due /\ ~RareUnderWay
    /\ "order_credit_card" \in Visits
    /\ due' = TRUE
    /\ UNCHANGED <<Account, visit, shown, requests>>

StartRare(w) ==
    /\ due /\ Free(w)
    /\ Begin(w, "order_credit_card", 0)
    /\ due' = FALSE
    /\ UNCHANGED <<Account, shown, requests>>

(* Mutant: regular visits are not held back by a rare one that is due. *)
StartAnyRegular(w) ==
    /\ Free(w)
    /\ \E name \in RegularVisits : \E d \in getDepositValue(name) : Begin(w, name, d)
    /\ UNCHANGED <<Account, shown, requests, due>>

(* A weighted choice, and only when no rare visit is due. *)
StartRegular(w) ==
    /\ ~due /\ Free(w)
    /\ \E name \in RegularVisits : \E d \in getDepositValue(name) : Begin(w, name, d)
    /\ UNCHANGED <<Account, shown, requests, due>>

-----------------------------------------------------------------------------
(* Steps. Each goes on to the next, whatever becomes of what it has sent. *)

At(w, step) == \E v \in visit[w] : Step(v) = step

Go(w, v) == visit' = [visit EXCEPT ![w] = {[v EXCEPT !.at = @ + 1]}]

(* The steps taken on pages whose content the visit reads or relies on. *)
Looking == {"instrument", "owned", "look", "calculate", "trade", "check", "revoke", "order"}

(* On to the next step, with nothing the rest of the visit needs. *)
Forgotten(v) == [v EXCEPT !.at = @ + 1, !.deposit = 0, !.seen = Nothing, !.order = NoOrder, !.typed = 0]

End(w) ==
    /\ visit' = [visit EXCEPT ![w] = {}]
    /\ shown' = [shown EXCEPT ![w] = Blank]

Send(w, r) == requests' = [requests EXCEPT ![w] = @ \union {r}]

(* The context of the browser is new: nothing is cached. *)
Login(w) ==
    \E v \in visit[w] :
    /\ Step(v) = "login" /\ Go(w, v)
    /\ UNCHANGED <<Account, shown, requests, due>>

Deposit(w) ==
    \E v \in visit[w] :
    /\ Step(v) = "deposit" /\ Go(w, v)
    /\ Send(w, Sent("deposit", v.deposit, 0))
    /\ UNCHANGED <<Account, shown, due>>

(* Any of the cards of the list, once it is shown. *)
GotoRandomInstrument(w) ==
    \E v \in visit[w] :
    /\ Step(v) = "instrument" /\ shown[w].price > 0 /\ Go(w, v)
    /\ UNCHANGED <<Account, shown, requests, due>>

GotoRandomOwnedInstrument(w) ==
    \E v \in visit[w] :
    /\ Step(v) = "owned" /\ shown[w].owned > 0 /\ Go(w, v)
    /\ UNCHANGED <<Account, shown, requests, due>>

(* What the field of the quick form shows, which the long form lacks. *)
Look(w, v, seen) ==
    /\ Step(v) = "look"
    /\ visit' = [visit EXCEPT ![w] = {[v EXCEPT !.at = @ + 1, !.seen = seen]}]
    /\ UNCHANGED <<Account, shown, requests, due>>

getCurrentBalance(w) ==
    \E v \in visit[w] : v.name \in Buys /\ Look(w, v, [Nothing EXCEPT !.balance = shown[w].balance])

getInstrumentPossessedAmount(w) ==
    \E v \in visit[w] : v.name \in Sells /\ Look(w, v, [Nothing EXCEPT !.owned = shown[w].owned])

(* The price is read, the calculator run, and the amount typed. *)
getInstrumentPrice(w) ==
    \E v \in visit[w] :
    /\ Step(v) = "calculate"
    /\ LET u == [v EXCEPT !.seen.price = shown[w].price]
       IN  \E o \in Calculated(u) :
             visit' = [visit EXCEPT ![w] =
                 {[u EXCEPT !.at = @ + 1, !.order = o, !.typed = o.amount]}]
    /\ UNCHANGED <<Account, shown, requests, due>>

(* trade: the quick form sends what its field holds by now, if it is valid. *)
Trade(w) ==
    \E v \in visit[w] :
    /\ Step(v) = "trade"
    /\ visit' = [visit EXCEPT ![w] = {[Forgotten(v) EXCEPT !.order =
                    IF v.name = "sell_and_withdraw_success" THEN [v.order EXCEPT !.price = v.seen.price] ELSE NoOrder]}]
    /\ shown' = [shown EXCEPT ![w] = Blank]
    /\ LET form == IF v.name \in Buys THEN "quickBuy" ELSE "quickSell"
           valid == IF v.name \in Buys THEN QuickBuyValid(v.typed, shown[w])
                                       ELSE QuickSellValid(v.typed, shown[w])
       IN  IF valid THEN Send(w, Sent(form, v.typed, 0)) ELSE UNCHANGED requests
    /\ UNCHANGED <<Account, due>>

scheduleTransaction(w) ==
    \E v \in visit[w] :
    /\ Step(v) = "schedule"
    /\ visit' = [visit EXCEPT ![w] = {Forgotten(v)}]
    /\ shown' = [shown EXCEPT ![w] = Blank]
    /\ IF LongValid(v.typed, v.order.price)
       THEN Send(w, Sent(IF v.name \in Buys THEN "buy" ELSE "sell", v.typed, v.order.price))
       ELSE UNCHANGED requests
    /\ UNCHANGED <<Account, due>>

(* What the sale should have brought, and the minimum at least. *)
Withdraw(w) ==
    \E v \in visit[w] :
    /\ Step(v) = "withdraw"
    /\ visit' = [visit EXCEPT ![w] = {Forgotten(v)}]
    /\ Send(w, Sent("withdraw", Larger(WithdrawMinValue, v.order.price * v.order.amount), 0))
    /\ UNCHANGED <<Account, shown, due>>

GotoCreditCardPage(w) ==
    \E v \in visit[w] :
    /\ Step(v) = "card" /\ Go(w, v)
    /\ UNCHANGED <<Account, shown, requests, due>>

(* Mutant: a pending order takes the visit past its last step. *)
CheckIfOrderPendingBeyond(w) ==
    \E v \in visit[w] :
    /\ Step(v) = "check"
    /\ visit' = [visit EXCEPT ![w] = {[v EXCEPT !.at =
                    IF shown[w].card = "pending" THEN Len(Run(v.name)) + 1 ELSE @ + 1]}]
    /\ UNCHANGED <<Account, shown, requests, due>>

(* A pending order ends the visit; what is not shown yet is not there. *)
CheckIfOrderPending(w) ==
    \E v \in visit[w] :
    /\ Step(v) = "check"
    /\ visit' = [visit EXCEPT ![w] = {[v EXCEPT !.at =
                    IF shown[w].card = "pending" THEN Len(Run(v.name)) ELSE @ + 1]}]
    /\ UNCHANGED <<Account, shown, requests, due>>

(* Mutant: the order is revoked whether the card is active or not. *)
RevokeAnyCard(w) ==
    \E v \in visit[w] :
    /\ Step(v) = "revoke" /\ Go(w, v)
    /\ Send(w, Sent("revoke", 0, 0))
    /\ UNCHANGED <<Account, shown, due>>

RevokeCard(w) ==
    \E v \in visit[w] :
    /\ Step(v) = "revoke" /\ Go(w, v)
    /\ IF shown[w].card = "active" THEN Send(w, Sent("revoke", 0, 0)) ELSE UNCHANGED requests
    /\ UNCHANGED <<Account, shown, due>>

(* The form is filled in once it is there. *)
OrderCard(w) ==
    \E v \in visit[w] :
    /\ Step(v) = "order" /\ shown[w].card = "none" /\ Go(w, v)
    /\ Send(w, Sent("order", 0, 0))
    /\ UNCHANGED <<Account, shown, due>>

Logout(w) ==
    /\ At(w, "logout") /\ End(w)
    /\ UNCHANGED <<Account, requests, due>>

(* Mutant: nobody gives up on the order form. *)
GiveUpOnInstruments(w) ==
    /\ \/ At(w, "instrument") /\ shown[w].price = 0
       \/ At(w, "owned") /\ shown[w].owned = 0
    /\ End(w)
    /\ UNCHANGED <<Account, requests, due>>

(* What a step waits for does not show, or no instrument is owned: the step *)
(* throws, and the visit is over.                                           *)
GiveUp(w) ==
    /\ \/ At(w, "instrument") /\ shown[w].price = 0
       \/ At(w, "owned") /\ shown[w].owned = 0
       \/ At(w, "order") /\ shown[w].card # "none"
    /\ End(w)
    /\ UNCHANGED <<Account, requests, due>>

(* The browser is replaced, or the page breaks: the visit is over anywhere. *)
BrowserFails(w) ==
    /\ visit[w] # {} /\ End(w)
    /\ UNCHANGED <<Account, requests, due>>

(* The queries of the user and of the instruments land together or apart. *)
Refreshed(old, new) ==
    {new, [new EXCEPT !.balance = old.balance], [old EXCEPT !.balance = new.balance]}

(* The page shows what the server has by now; a quick form whose values have *)
(* changed is filled anew, and what was typed is gone.                       *)
Refetch(w) ==
    \E v \in visit[w] : \E page \in Refreshed(shown[w], Current(v)) :
    /\ Step(v) \in Looking /\ page # shown[w]
    /\ shown' = [shown EXCEPT ![w] = page]
    /\ LET emptied == /\ Step(v) = "trade"
                      /\ \/ shown[w].price # page.price
                         \/ v.name \in Buys /\ shown[w].balance # page.balance
                         \/ v.name \in Sells /\ shown[w].owned # page.owned
       IN  visit' = IF emptied THEN [visit EXCEPT ![w] = {[v EXCEPT !.typed = 0]}] ELSE visit
    /\ UNCHANGED <<Account, requests, due>>

-----------------------------------------------------------------------------
(* The services: what they do with a request, or nothing. *)

Apply(w, r) ==
    /\ r \in requests[w]
    /\ requests' = [requests EXCEPT ![w] = @ \ {r}]
    /\ CASE r.form = "deposit" ->
              /\ balance + r.amount <= MaxBalance
              /\ balance' = balance + r.amount /\ UNCHANGED <<owned, card>>
         [] r.form = "withdraw" ->
              /\ r.amount <= balance
              /\ balance' = balance - r.amount /\ UNCHANGED <<owned, card>>
         [] r.form = "quickBuy" ->
              /\ r.amount * price <= balance /\ owned + r.amount <= MaxOwned
              /\ balance' = balance - r.amount * price
              /\ owned' = owned + r.amount /\ UNCHANGED card
         [] r.form = "quickSell" ->
              /\ r.amount <= owned /\ balance + r.amount * price <= MaxBalance
              /\ balance' = balance + r.amount * price
              /\ owned' = owned - r.amount /\ UNCHANGED card
         [] r.form \in {"buy", "sell"} -> UNCHANGED <<balance, owned, card>>   \* kept for later
         [] r.form = "order" -> card = "none" /\ card' = "pending" /\ UNCHANGED <<balance, owned>>
         [] r.form = "revoke" -> card' = "none" /\ UNCHANGED <<balance, owned>>
    /\ UNCHANGED <<price, visit, shown, due>>

(* Refused or lost. *)
Refuse(w, r) ==
    /\ r \in requests[w]
    /\ requests' = [requests EXCEPT ![w] = @ \ {r}]
    /\ UNCHANGED <<Account, visit, shown, due>>

DeliverCard ==
    /\ card = "pending" /\ card' = "active"
    /\ UNCHANGED <<balance, owned, price, visit, shown, requests, due>>

(* Orders that were scheduled are closed, by this visit or others, and the *)
(* account is used elsewhere: money and units change, one after the other.  *)
LongTradesClose ==
    /\ \/ balance' \in (0..MaxBalance) \ {balance} /\ UNCHANGED owned
       \/ owned' \in (0..MaxOwned) \ {owned} /\ UNCHANGED balance
    /\ UNCHANGED <<price, card, visit, shown, requests, due>>

PriceMoves ==
    /\ price' \in Prices \ {price}
    /\ UNCHANGED <<balance, owned, card, visit, shown, requests, due>>

-----------------------------------------------------------------------------
Move(w) ==
    \/ Login(w) \/ Deposit(w) \/ GotoRandomInstrument(w) \/ GotoRandomOwnedInstrument(w)
    \/ getCurrentBalance(w) \/ getInstrumentPossessedAmount(w) \/ getInstrumentPrice(w) \/ Trade(w) \/ scheduleTransaction(w) \/ Withdraw(w)
    \/ GotoCreditCardPage(w) \/ CheckIfOrderPending(w) \/ RevokeCard(w) \/ OrderCard(w)
    \/ Logout(w) \/ GiveUp(w)

Next ==
    \/ \E w \in Workers : StartRare(w) \/ StartRegular(w) \/ Move(w) \/ BrowserFails(w) \/ Refetch(w)
    \/ \E w \in Workers : \E r \in requests[w] : Apply(w, r) \/ Refuse(w, r)
    \/ IntervalElapsed \/ DeliverCard \/ LongTradesClose \/ PriceMoves

(* A worker with nothing to do takes the next visit, steps are taken or time *)
(* out, and so do requests.                                                  *)
Fairness ==
    \A w \in Workers : /\ WF_vars(StartRare(w))
                       /\ WF_vars(Move(w))
                       /\ WF_vars(\E r \in requests[w] : Refuse(w, r))

Spec == Init /\ [][Next]_vars /\ Fairness

-----------------------------------------------------------------------------
TypeOK ==
    /\ balance \in 0..MaxBalance /\ owned \in 0..MaxOwned /\ price \in Prices
    /\ card \in {"none", "pending", "active"}
    /\ \A w \in Workers : Cardinality(visit[w]) <= 1 /\ requests[w] \subseteq Request
    /\ \A w \in Workers : \A v \in visit[w] : v.at \in DOMAIN Run(v.name)
    /\ due \in BOOLEAN

Ordered(w, v, form) == {r \in requests'[w] \ requests[w] : r.form = form /\ Step(v) = "schedule"}

(* A scheduled order is for something, and comes out as its visit is named:  *)
(* an error order exceeds what the account has, unless the page was behind,  *)
(* and the others stay within what the visit has deposited, or what it saw.  *)
OrdersAreAsNamed ==
    [][\A w \in Workers : \A v \in visit[w] :
         /\ \A r \in Ordered(w, v, "buy") :
              IF v.name = "deposit_and_long_buy_error"
              THEN balance <= v.seen.balance => r.price * r.amount > 100 * balance
              ELSE r.price * r.amount <= 100 * v.deposit
         /\ \A r \in Ordered(w, v, "sell") :
              IF v.name = "long_sell_error"
              THEN owned <= v.seen.owned => r.amount > owned
              ELSE r.amount \in 1..v.seen.owned]_vars

(* A visit revokes an active card only, never an order under way: rare as   *)
(* these visits are, no other one is between its check and its request.     *)
RevokesActive ==
    [][\A w \in Workers : \A r \in requests[w] :
         r.form = "revoke" /\ Apply(w, r) => card = "active"]_vars

(* Every visit ends, whatever its page does not show. *)
VisitsEnd == \A w \in Workers : visit[w] # {} ~> visit[w] = {}

(* A rare visit that is due is started, however many regular ones there are. *)
RareVisitsStart == due ~> ~due
===============================================================================
