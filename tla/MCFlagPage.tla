------------------------------- MODULE MCFlagPage -------------------------------
(* A small instance of FlagPage for TLC. *)
EXTENDS FlagPage
===============================================================================
