-------------------------------- MODULE FlagPage --------------------------------
(***************************************************************************)
(* The page of the feature flags in one browser tab, over the flag service *)
(* whose flag ergo_aggregator_slowdown the offer service (OfferService)    *)
(* reads. The page shows what it has cached and sends the opposite; others *)
(* set the flag with a request of their own (the page even says how). The  *)
(* page stays open: nothing but a request it sends makes its list newer.   *)
(***************************************************************************)
EXTENDS OfferService, QueryCache

CONSTANT Managed   \* server: is frontend_feature_flag_management set

ASSUME ManagedAssumption == Managed \in BOOLEAN

VARIABLES
    patterns,  \* queryClient: the flags of tag problem_pattern
    toggle     \* the last press of the button, as a set

pageVars == <<patterns, toggle>>
vars == <<offerVars, pageVars>>

Me == "customer"
None == "none"   \* the list is empty: it could not be fetched
Chip(value) == IF value THEN "enabled" ELSE "disabled"
Chips == {"enabled", "disabled", None}

(* done: the message of success is shown. foreign (history): somebody else *)
(* has set the flag since this toggle did.                                 *)
Toggle == [want : {"enabled", "disabled"}, foreign : BOOLEAN,
           phase : {"sent", "applied", "waiting", "done"}]

Pending == \E j \in toggle : j.phase # "done"

(* getConfig: the setting, or TRUE when it cannot be had. *)
ManagementShown(found) == IF found THEN Managed ELSE TRUE

(* The page mounts, and with it its queries. *)
PageInit == patterns = Mount(Empty, Me) /\ toggle = {}

Init == OfferInit /\ PageInit

-----------------------------------------------------------------------------
(* FeatureFlags: the list. *)

(* The button that fetches again, or the window gets the focus. *)
Refresh ==
    /\ patterns' = IF patterns.data = {} THEN Fetch(patterns, Me)
                   ELSE [patterns EXCEPT !.fetch = {Request(Me)}]
    /\ UNCHANGED <<offerVars, toggle>>

(* The flag service answers the list as of now. *)
ServeFlags ==
    /\ \E r \in patterns.fetch : r.got = {}
    /\ patterns' = Answer(patterns, Chip(enabled))
    /\ UNCHANGED <<offerVars, toggle>>

(* A toggle that waited for the list goes on once it is here. *)
Landed ==
    toggle' = {IF j.phase = "waiting" THEN [j EXCEPT !.phase = "done"] ELSE j : j \in toggle}

ReceiveFlags ==
    /\ Answered(patterns)
    /\ patterns' = Land(patterns)
    /\ Landed
    /\ UNCHANGED offerVars

(* getFeatureFlags returns an empty list then, which is data like any other. *)
FlagsFail ==
    /\ patterns.fetch # {}
    /\ patterns' = Land(Answer(patterns, None))
    /\ Landed
    /\ UNCHANGED offerVars

-----------------------------------------------------------------------------
(* FeatureFlagItem: the button, which sends the opposite of what is cached. *)

Press ==
    /\ ~Pending
    /\ \E found \in BOOLEAN : ManagementShown(found)
    /\ \E c \in patterns.data \ {None} :
         toggle' = {[want |-> IF c = "enabled" THEN "disabled" ELSE "enabled",
                     phase |-> "sent", foreign |-> FALSE]}
    /\ UNCHANGED <<offerVars, patterns>>

(* The flag service does it, whatever the environment's setting. *)
ApplyToggle ==
    \E j \in toggle :
    /\ j.phase = "sent"
    /\ enabled' = (j.want = "enabled")
    /\ toggle' = {[j EXCEPT !.phase = "applied"]}
    /\ UNCHANGED <<Slowdown, request, consecutiveFailCounter, patterns>>

(* Mutant: the message does not wait for the list. *)
SettleAtOnce ==
    \E j \in toggle :
    /\ j.phase = "applied"
    /\ patterns' = Invalidate(patterns, TRUE, Me)
    /\ toggle' = {[j EXCEPT !.phase = "done"]}
    /\ UNCHANGED offerVars

(* onSuccess: the list is fetched again before the message is shown. *)
Settle ==
    \E j \in toggle :
    /\ j.phase = "applied"
    /\ patterns' = Invalidate(patterns, TRUE, Me)
    /\ toggle' = {[j EXCEPT !.phase = "waiting"]}
    /\ UNCHANGED offerVars

(* Refused, failed, or done and the answer lost: nothing is invalidated. *)
Reject ==
    /\ \E j \in toggle : j.phase \in {"sent", "applied"}
    /\ toggle' = {}
    /\ UNCHANGED <<offerVars, patterns>>

(* The message is closed by hand or after five seconds. *)
CloseMessage ==
    /\ toggle # {} /\ ~Pending
    /\ toggle' = {}
    /\ UNCHANGED <<offerVars, patterns>>

(* Anybody else: the tab does not know. *)
SetElsewhere ==
    /\ SetFlag
    /\ toggle' = {[j EXCEPT !.foreign = (j.phase # "sent")] : j \in toggle}
    /\ UNCHANGED patterns

-----------------------------------------------------------------------------
Next ==
    \/ OfferNext /\ UNCHANGED pageVars
    \/ Refresh \/ ServeFlags \/ ReceiveFlags \/ FlagsFail
    \/ Press \/ ApplyToggle \/ Settle \/ Reject
    \/ CloseMessage \/ SetElsewhere

Spec == Init /\ [][Next]_vars /\ OfferFairness

-----------------------------------------------------------------------------
TypeOK ==
    /\ enabled \in BOOLEAN /\ isActive \in BOOLEAN
    /\ affectedPlatforms \subseteq PLATFORMS
    /\ request \in [PLATFORMS -> Phases]
    /\ consecutiveFailCounter \in [PLATFORMS -> 0..ConsecutiveFailLimit]
    /\ patterns \in Entries({Me}, Chips)
    /\ toggle \in SUBSET Toggle /\ Cardinality(toggle) <= 1
    /\ Cardinality(affectedPlatforms) = IF isActive THEN SLOWDOWN_AFFECTED_PLATFORM_COUNT ELSE 0

(* A message of success comes with the list that shows its effect, whatever *)
(* else was being fetched, unless the list cannot be had or somebody else   *)
(* has set the flag since.                                                  *)
SuccessIsShown ==
    \A j \in toggle : j.phase = "done" =>
        j.foreign \/ patterns.data \subseteq {j.want, None}

(* The platforms stay the same while the slowdown lasts, however the       *)
(* requests of the platforms and the answers of the flag service overlap.  *)
AffectedStay ==
    [][isActive /\ isActive' => affectedPlatforms' = affectedPlatforms]_vars

(* With the flag enabled for good, and no more faults, the platforms that   *)
(* were drawn run into their pauses again and again, and no other does.     *)
SlowdownTakesEffect ==
    <>[]enabled /\ <>[][~Fault]_vars =>
        <>[](/\ isActive
             /\ \A p \in PLATFORMS : consecutiveFailCounter[p] =
                    IF p \in affectedPlatforms THEN ConsecutiveFailLimit ELSE 0)

(* With the flag disabled for good, every platform recovers, whatever answer *)
(* of the flag service was still on its way.                                 *)
SlowdownPasses ==
    <>[]~enabled /\ <>[][~Fault]_vars =>
        <>[](~isActive /\ \A p \in PLATFORMS : consecutiveFailCounter[p] = 0)
===============================================================================
