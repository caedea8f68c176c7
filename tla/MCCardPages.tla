------------------------------ MODULE MCCardPages ------------------------------
(* A small instance of CardPages for TLC. *)
EXTENDS CardPages, TLC

SlotSymmetry == Permutations(Slots)

(* A revocation, or the next order, may be sent while a revocation is under way. *)
MCOverlapping == {<<"revoke", "revoke">>, <<"revoke", "order">>}
=============================================================================
