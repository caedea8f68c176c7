--------------------------- MODULE AtomicExchange ---------------------------
(***************************************************************************)
(* What broker-service promises the holder of an account: each deposit,    *)
(* withdrawal and trade happens at once, at a moment when it was covered.  *)
(***************************************************************************)
EXTENDS Integers

CONSTANTS Accounts, Instruments,
          Amounts,      \* amounts of an instrument that are traded
          Prices,       \* prices of one unit
          Sums,         \* sums of money that are transferred
          Ppt           \* the fee of one trade (price per transaction)

VARIABLES cash,         \* the balance of each account
          holding       \* what each account owns of each instrument

EInit ==
    /\ cash \in [Accounts -> Nat]
    /\ holding \in [Accounts -> [Instruments -> Nat]]

Deposit(a, sum) ==
    /\ cash' = [cash EXCEPT ![a] = @ + sum]
    /\ UNCHANGED holding

Withdraw(a, sum) ==
    /\ sum <= cash[a]
    /\ cash' = [cash EXCEPT ![a] = @ - sum]
    /\ UNCHANGED holding

Buy(a, i, amount, price) ==
    /\ amount * price + Ppt <= cash[a]
    /\ cash' = [cash EXCEPT ![a] = @ - amount * price - Ppt]
    /\ holding' = [holding EXCEPT ![a][i] = @ + amount]

(* The fee of a sale is charged even where it exceeds the income. *)
Sell(a, i, amount, price) ==
    /\ amount <= holding[a][i]
    /\ cash' = [cash EXCEPT ![a] = @ + amount * price - Ppt]
    /\ holding' = [holding EXCEPT ![a][i] = @ - amount]

ENext ==
    \E a \in Accounts :
        \/ \E sum \in Sums : Deposit(a, sum) \/ Withdraw(a, sum)
        \/ \E i \in Instruments, amount \in Amounts, price \in Prices :
                Buy(a, i, amount, price) \/ Sell(a, i, amount, price)

ExchangeSpec == EInit /\ [][ENext]_<<cash, holding>>
=============================================================================
