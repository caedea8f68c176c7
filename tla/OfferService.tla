----------------------------- MODULE OfferService -----------------------------
(***************************************************************************)
(* The slowdown of the offer service and the platforms it is meant to hit: *)
(* each platform of the aggregator asks for its offers, one request at a   *)
(* time; the middleware asks the flag service on every request and keeps   *)
(* which platforms are affected; a platform whose checks failed or took    *)
(* too long often enough pauses.                                           *)
(***************************************************************************)
EXTENDS Integers, FiniteSets, FiniteSetsExt

CONSTANTS
    PLATFORMS,                        \* platforms of the aggregator
    SLOWDOWN_AFFECTED_PLATFORM_COUNT, \* how many of them are slowed down
    ConsecutiveFailLimit              \* failed checks before a platform pauses

ASSUME PlatformsAssumption ==
    /\ IsFiniteSet(PLATFORMS)
    /\ SLOWDOWN_AFFECTED_PLATFORM_COUNT \in 1..Cardinality(PLATFORMS)
    /\ ConsecutiveFailLimit \in Nat \ {0}

VARIABLES
    enabled,  \* feature-flag-service: the flag ergo_aggregator_slowdown
    isActive, affectedPlatforms,  \* the slowdown state of the offer service
    request,  \* what each platform is doing
    consecutiveFailCounter        \* of each platform, capped at its limit

offerVars == <<enabled, isActive, affectedPlatforms, request, consecutiveFailCounter>>

(* asked: the flag is being evaluated; on, off: it was, the middleware has  *)
(* not gone on yet; delayed: until it goes on; offers: they are gathered.   *)
Phases == {"idle", "asked", "on", "off", "delayed", "offers", "paused"}

OfferInit ==
    /\ enabled \in BOOLEAN
    /\ isActive = FALSE /\ affectedPlatforms = {}
    /\ request = [p \in PLATFORMS |-> "idle"]
    /\ consecutiveFailCounter = [p \in PLATFORMS |-> 0]

Step(p, from, to) == request[p] = from /\ request' = [request EXCEPT ![p] = to]

Slowdown == <<isActive, affectedPlatforms>>

(* Anybody sets the flag: PUT /v1/flags/{id}. *)
SetFlag ==
    /\ enabled' = ~enabled
    /\ UNCHANGED <<Slowdown, request, consecutiveFailCounter>>

CheckOffers(p) ==
    /\ Step(p, "idle", "asked")
    /\ UNCHANGED <<enabled, Slowdown, consecutiveFailCounter>>

(* The value of the flag, as of now, is on its way to the middleware. *)
ResolveFlag(p) ==
    /\ Step(p, "asked", IF enabled THEN "on" ELSE "off")
    /\ UNCHANGED <<enabled, Slowdown, consecutiveFailCounter>>

(* It is not to be had: the default is that there is no slowdown. *)
ResolveFails(p) ==
    /\ Step(p, "asked", "off")
    /\ UNCHANGED <<enabled, Slowdown, consecutiveFailCounter>>

Samples == kSubset(SLOWDOWN_AFFECTED_PLATFORM_COUNT, PLATFORMS)

(* Mutant: the platforms are drawn at every request. *)
ActivateAgain ==
    /\ affectedPlatforms' \in Samples
    /\ isActive' = TRUE

(* The platforms are drawn when the slowdown begins, and kept. *)
Activate ==
    IF isActive THEN UNCHANGED Slowdown
    ELSE affectedPlatforms' \in Samples /\ isActive' = TRUE

(* Mutant: the slowdown ends with its platforms still marked. *)
DeactivatePartly == isActive' = FALSE /\ UNCHANGED affectedPlatforms

Deactivate == isActive' = FALSE /\ affectedPlatforms' = {}

(* The middleware goes on with the value it was given, and the state of now. *)
ApplyEnabled(p) ==
    /\ Activate
    /\ Step(p, "on", IF p \in affectedPlatforms' THEN "delayed" ELSE "offers")
    /\ UNCHANGED <<enabled, consecutiveFailCounter>>

ApplyDisabled(p) ==
    /\ Deactivate
    /\ Step(p, "off", "offers")
    /\ UNCHANGED <<enabled, consecutiveFailCounter>>

(* A check that failed or took too long; at the limit the platform pauses. *)
Failed(p) ==
    LET n == Min({consecutiveFailCounter[p] + 1, ConsecutiveFailLimit}) IN
    /\ consecutiveFailCounter' = [consecutiveFailCounter EXCEPT ![p] = n]
    /\ request' = [request EXCEPT ![p] = IF n = ConsecutiveFailLimit THEN "paused" ELSE "idle"]

(* Offers in time; a list that could not be fetched is an empty one. *)
AnswerOffers(p) ==
    /\ Step(p, "offers", "idle")
    /\ consecutiveFailCounter' = [consecutiveFailCounter EXCEPT ![p] = 0]
    /\ UNCHANGED <<enabled, Slowdown>>

(* Mutant: an answer counts, however long it took. *)
AnswerDelayedInTime(p) ==
    /\ Step(p, "delayed", "idle")
    /\ consecutiveFailCounter' = [consecutiveFailCounter EXCEPT ![p] = 0]
    /\ UNCHANGED <<enabled, Slowdown>>

(* The delay is longer than the platform takes. *)
AnswerDelayed(p) ==
    /\ request[p] = "delayed"
    /\ Failed(p)
    /\ UNCHANGED <<enabled, Slowdown>>

(* The answer is late or lost for some other reason, or the request never *)
(* gets as far as the middleware.                                          *)
Trouble(p) ==
    /\ request[p] \in {"asked", "offers"}
    /\ Failed(p)
    /\ UNCHANGED <<enabled, Slowdown>>

(* Mutant: a platform that has paused gives up. *)
StayPaused(p) == FALSE /\ UNCHANGED offerVars

(* The pause ends; the counter still stands at the limit. *)
Resume(p) ==
    /\ Step(p, "paused", "idle")
    /\ UNCHANGED <<enabled, Slowdown, consecutiveFailCounter>>

(* The offer service restarts: its state is gone, and so are its requests. *)
Restart ==
    /\ isActive' = FALSE /\ affectedPlatforms' = {}
    /\ LET cut(p) == request[p] \notin {"idle", "paused"}
           n(p) == Min({consecutiveFailCounter[p] + 1, ConsecutiveFailLimit})
       IN  /\ consecutiveFailCounter' =
                 [p \in PLATFORMS |-> IF cut(p) THEN n(p) ELSE consecutiveFailCounter[p]]
           /\ request' = [p \in PLATFORMS |->
                 IF ~cut(p) THEN request[p]
                 ELSE IF n(p) = ConsecutiveFailLimit THEN "paused" ELSE "idle"]
    /\ UNCHANGED enabled

Progress(p) ==
    CheckOffers(p) \/ ResolveFlag(p) \/ ApplyEnabled(p) \/ ApplyDisabled(p)
        \/ AnswerOffers(p) \/ AnswerDelayed(p) \/ Resume(p)

Fault == Restart \/ \E p \in PLATFORMS : ResolveFails(p) \/ Trouble(p)

OfferNext == Fault \/ \E p \in PLATFORMS : Progress(p)

OfferFairness == \A p \in PLATFORMS : WF_offerVars(Progress(p))
===============================================================================
