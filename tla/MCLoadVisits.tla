------------------------------ MODULE MCLoadVisits ------------------------------
(* A small instance of LoadVisits for TLC. *)
EXTENDS LoadVisits
===============================================================================
