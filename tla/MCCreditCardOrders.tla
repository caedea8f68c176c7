------------------------- MODULE MCCreditCardOrders -------------------------
(* Small instances of CreditCardOrders for TLC. *)
EXTENDS CreditCardOrders, TLC

(* Clients are interchangeable; used by the run without liveness. *)
ClientSymmetry == Permutations(Clients)
=============================================================================
