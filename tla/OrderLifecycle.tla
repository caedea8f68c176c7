--------------------------- MODULE OrderLifecycle ---------------------------
(***************************************************************************)
(* What the customer is promised of a credit card order that is neither    *)
(* deleted nor hit by a failure: it is placed, the card is made, shipped   *)
(* and delivered, in this order and without leaving a milestone out.       *)
(* CARD_ORDERED and CARD_ERROR are reports on the way, no milestones.      *)
(***************************************************************************)
CONSTANT OrderIds
VARIABLE stage

(* The milestone that follows each stage. *)
NextStage == [absent |-> "placed", placed |-> "made", made |-> "shipped", shipped |-> "delivered"]
Stages == DOMAIN NextStage \union {"delivered"}

LifecycleInit == stage = [o \in OrderIds |-> "absent"]

Reach(o) ==
    /\ stage[o] # "delivered"
    /\ stage'[o] = NextStage[stage[o]]
    /\ \A p \in OrderIds \ {o} : stage'[p] = stage[p]

LifecycleNext == \E o \in OrderIds : Reach(o)

LifecycleSpec == LifecycleInit /\ [][LifecycleNext]_stage
=============================================================================
