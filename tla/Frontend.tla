------------------------------- MODULE Frontend -------------------------------
(***************************************************************************)
(* What the parts of the frontend that show a customer's own data declare: *)
(* the keys of the query cache each component observes, the keys a page's  *)
(* loaders wait for, what a provider makes of a failed request, and for    *)
(* each form where it is, what its request changes on the server and what  *)
(* it invalidates once it is told of success.                              *)
(***************************************************************************)
EXTENDS Integers, Sequences

(* Keys: ["users","current"], ["balance"], ["instruments"], ["transactions"]. *)
AllKeys == {"user", "balance", "instruments", "transactions"}

-----------------------------------------------------------------------------
(* Requests, as the keys under which the services then have something new. *)

deposit == {"balance"}
withdraw == {"balance"}
quickBuy == {"balance", "instruments", "transactions"}
quickSell == {"balance", "instruments", "transactions"}
buy == {"transactions"}
sell == {"transactions"}

(* What is invalidated, one after another. *)

balanceInvalidateQuery == <<"balance">>

(* Mutant: a quick trade does not invalidate the instruments. *)
quickTransactionInvalidateBalance == <<"balance">>

quickTransactionInvalidateQuery == <<"balance", "instruments">>

transactionInvalidateQuery == <<"transactions">>

-----------------------------------------------------------------------------
(* Forms. *)

useAuthUserData == {"user", "balance"}

Form(at, observes, sends, onSuccess) ==
    [at |-> at, observes |-> observes, does |-> [sends |-> sends, onSuccess |-> onSuccess]]

DepositForm == Form("deposit", useAuthUserData, deposit, balanceInvalidateQuery)
WithdrawForm == Form("withdraw", useAuthUserData, withdraw, balanceInvalidateQuery)
QuickBuyForm == Form("quick-buy", useAuthUserData, quickBuy, quickTransactionInvalidateQuery)
QuickSellForm == Form("quick-sell", {}, quickSell, quickTransactionInvalidateQuery)
BuyForm == Form("buy", useAuthUserData, buy, transactionInvalidateQuery)
SellForm == Form("sell", {}, sell, transactionInvalidateQuery)

(* The page of an instrument shows one of four forms at a time. *)
TabForms == {QuickBuyForm, QuickSellForm, BuyForm, SellForm}
InstrumentTransactions == {f.at : f \in TabForms}

Forms == TabForms \union {DepositForm, WithdrawForm}

-----------------------------------------------------------------------------
(* Pages, a tab being a page of its own. *)

UserPanel == {"user"}

AccountInfo == useAuthUserData
Home == AccountInfo \union {"instruments", "transactions"}
InstrumentsPage == {"instruments"}
Instrument == {"instruments"}

Protected == {"home", "instruments"} \union {f.at : f \in Forms}
Pages == Protected \union {"login", "blank", "error"}

(* Keys the components of a page observe. *)
PageKeys(p) ==
    UNION ({f.observes : f \in {g \in Forms : g.at = p}}
           \union {IF p \in Protected THEN UserPanel ELSE {},
                   IF p \in InstrumentTransactions THEN Instrument ELSE {},
                   IF p = "home" THEN Home ELSE {},
                   IF p = "instruments" THEN InstrumentsPage ELSE {}})

(* Keys whose loaders must answer before the page is shown. *)
LoaderKeys(p) ==
    CASE p = "home" -> {"instruments", "transactions"}
      [] p \in {"instruments"} \union InstrumentTransactions -> {"instruments"}
      [] OTHER -> {}

-----------------------------------------------------------------------------
(* Providers, as the version of what they return when the request fails: an *)
(* empty list, or nothing because they throw.                               *)

NoVersion == -1
Throws == {}
getUser == Throws
getBalance == Throws
getInstruments == {NoVersion}
getTransactions == {NoVersion}

OnFailure ==
    [user |-> getUser, balance |-> getBalance,
     instruments |-> getInstruments, transactions |-> getTransactions]
=============================================================================
