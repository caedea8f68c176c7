----------------------------- MODULE MCWebSession -----------------------------
(* A small instance of WebSession for TLC. *)
EXTENDS WebSession, TLC

(* Where the entries of an account are read, and the forms that write them. *)
MCVisited ==
    {"balance", "instruments"} :> {"instruments", "quick-buy", "quick-sell"}
    @@ {"transactions"} :> {"home", "instruments", "quick-buy", "buy", "sell"}
    @@ {"user", "balance"} :> {"deposit", "withdraw"}

UserSymmetry == Permutations(Users)
SlotSymmetry == Permutations(Slots)
Symmetry == UserSymmetry \union SlotSymmetry
=============================================================================
