-------------------------- MODULE MCBrokerTrading --------------------------
(* Small instances of BrokerTrading for TLC. *)
EXTENDS BrokerTrading, TLC

CONSTANTS owner, ann, bob, c1, c2

MCAccounts == {owner, ann, bob}

(* Requests of ann may overlap, requests of bob and of the owner may not; all *)
(* of them meet at the balance of the owner.                                  *)
MCServes == c1 :> {ann} @@ c2 :> MCAccounts

(* One of the clients works for ann, the other for bob. *)
MCDisjoint == c1 :> {ann} @@ c2 :> {bob}

MCAmounts == {-1, 1, 2}
MCSums    == {-1, 2}
MCOpening == owner :> 3 @@ ann :> 7 @@ bob :> 6
MCStock   == owner :> 0 @@ ann :> 1 @@ bob :> 2
=============================================================================
