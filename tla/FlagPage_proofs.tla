---------------------------- MODULE FlagPage_proofs ----------------------------
(* Invariance proofs for FlagPage and the OfferService it contains, for every *)
(* finite set of platforms, every number of affected ones and every limit.    *)
EXTENDS FlagPage, QueryCache_proofs

----------------------------------------------------------------------------
(* The inductive invariants *)

SlowdownType ==
    /\ enabled \in BOOLEAN /\ isActive \in BOOLEAN
    /\ affectedPlatforms \subseteq PLATFORMS
    /\ Cardinality(affectedPlatforms) = IF isActive THEN SLOWDOWN_AFFECTED_PLATFORM_COUNT ELSE 0
    /\ request \in [PLATFORMS -> Phases]
    /\ consecutiveFailCounter \in [PLATFORMS -> 0..ConsecutiveFailLimit]

PageType ==
    /\ patterns \in Entries({Me}, Chips) /\ Lone(patterns)
    /\ toggle \in SUBSET Toggle /\ Single(toggle)

(* A toggle that has been done holds until somebody else sets the flag. *)
DoneHolds == \A j \in toggle : j.phase = "sent" \/ j.foreign \/ Chip(enabled) = j.want

(* The button is pressed at a list that is shown, and the list stays: so the *)
(* invalidation replaces whatever request was under way.                     *)
ListStays == \A j \in toggle : patterns.data # {}

(* The request that the message waits for, or a later one. *)
AnswersShow ==
    \A j \in toggle : j.phase \in {"waiting", "done"} /\ ~j.foreign =>
        \A r \in patterns.fetch : r.got \subseteq {j.want}

PageInv ==
    SlowdownType /\ PageType /\ DoneHolds /\ ListStays /\ AnswersShow /\ SuccessIsShown

----------------------------------------------------------------------------
(* The offer service *)

LEMMA NextFailure ==
  ASSUME NEW n \in 0..ConsecutiveFailLimit
  PROVE  Min({n + 1, ConsecutiveFailLimit}) \in 0..ConsecutiveFailLimit
  <1>1. {n + 1, ConsecutiveFailLimit} \subseteq 0..(ConsecutiveFailLimit + 1) /\ ConsecutiveFailLimit \in Nat
    BY PlatformsAssumption
  <1>2. \E m \in {n + 1, ConsecutiveFailLimit} : \A y \in {n + 1, ConsecutiveFailLimit} : m =< y
    <2>1. CASE n + 1 <= ConsecutiveFailLimit
      BY <2>1, <1>1
    <2>2. CASE ~(n + 1 <= ConsecutiveFailLimit)
      BY <2>2, <1>1
    <2>. QED  BY <2>1, <2>2
  <1>3. /\ Min({n + 1, ConsecutiveFailLimit}) \in {n + 1, ConsecutiveFailLimit}
        /\ Min({n + 1, ConsecutiveFailLimit}) <= ConsecutiveFailLimit
    BY <1>2 DEF Min
  <1>. QED  BY <1>1, <1>3

LEMMA StepType ==
  ASSUME request \in [PLATFORMS -> Phases], NEW p \in PLATFORMS, NEW from, NEW to \in Phases,
         Step(p, from, to)
  PROVE  request' \in [PLATFORMS -> Phases]
  BY DEF Step

LEMMA FailedType ==
  ASSUME SlowdownType, NEW p \in PLATFORMS, Failed(p)
  PROVE  /\ request' \in [PLATFORMS -> Phases]
         /\ consecutiveFailCounter' \in [PLATFORMS -> 0..ConsecutiveFailLimit]
  <1>1. Min({consecutiveFailCounter[p] + 1, ConsecutiveFailLimit}) \in 0..ConsecutiveFailLimit
    BY NextFailure DEF SlowdownType
  <1>. QED  BY <1>1 DEF Failed, SlowdownType, Phases

(* Deactivation and a restart leave no platform marked. *)
LEMMA NoneAffected ==
  ASSUME isActive' = FALSE, affectedPlatforms' = {}
  PROVE  /\ isActive' \in BOOLEAN /\ affectedPlatforms' \subseteq PLATFORMS
         /\ Cardinality(affectedPlatforms') = IF isActive' THEN SLOWDOWN_AFFECTED_PLATFORM_COUNT ELSE 0
  BY FS_EmptySet

LEMMA ActivateType ==
  ASSUME SlowdownType, Activate
  PROVE  /\ isActive' = TRUE /\ affectedPlatforms' \subseteq PLATFORMS
         /\ Cardinality(affectedPlatforms') = SLOWDOWN_AFFECTED_PLATFORM_COUNT
  BY DEF SlowdownType, Activate, Samples, kSubset, Slowdown

LEMMA RestartType ==
  ASSUME SlowdownType, Restart
  PROVE  SlowdownType'
  <1>. DEFINE cut(p) == request[p] \notin {"idle", "paused"}
              n(p) == Min({consecutiveFailCounter[p] + 1, ConsecutiveFailLimit})
  <1>1. \A p \in PLATFORMS : n(p) \in 0..ConsecutiveFailLimit
    BY NextFailure DEF SlowdownType
  <1>2. consecutiveFailCounter' = [p \in PLATFORMS |-> IF cut(p) THEN n(p) ELSE consecutiveFailCounter[p]]
    BY DEF Restart
  <1>3. request' = [p \in PLATFORMS |-> IF ~cut(p) THEN request[p]
                       ELSE IF n(p) = ConsecutiveFailLimit THEN "paused" ELSE "idle"]
    BY DEF Restart
  <1>. HIDE DEF n
  <1>4. consecutiveFailCounter' \in [PLATFORMS -> 0..ConsecutiveFailLimit]
    BY <1>1, <1>2 DEF SlowdownType
  <1>5. request' \in [PLATFORMS -> Phases]
    BY <1>3 DEF SlowdownType, Phases
  <1>6. isActive' = FALSE /\ affectedPlatforms' = {} /\ enabled' = enabled
    BY DEF Restart
  <1>. QED  BY <1>4, <1>5, <1>6, NoneAffected DEF SlowdownType

LEMMA ProgressType ==
  ASSUME SlowdownType, NEW p \in PLATFORMS, Progress(p)
  PROVE  SlowdownType'
  <1>1. CASE CheckOffers(p)
    BY <1>1, StepType DEF CheckOffers, SlowdownType, Slowdown, Phases
  <1>2. CASE ResolveFlag(p)
    BY <1>2, StepType DEF ResolveFlag, SlowdownType, Slowdown, Phases
  <1>3. CASE ApplyEnabled(p)
    <2>1. request' \in [PLATFORMS -> Phases]
      BY <1>3, StepType DEF ApplyEnabled, SlowdownType, Phases
    <2>. QED  BY <1>3, <2>1, ActivateType DEF ApplyEnabled, SlowdownType
  <1>4. CASE ApplyDisabled(p)
    <2>1. request' \in [PLATFORMS -> Phases]
      BY <1>4, StepType DEF ApplyDisabled, SlowdownType, Phases
    <2>. QED  BY <1>4, <2>1, NoneAffected DEF ApplyDisabled, Deactivate, SlowdownType
  <1>5. CASE AnswerOffers(p)
    <2>1. request' \in [PLATFORMS -> Phases]
      BY <1>5, StepType DEF AnswerOffers, SlowdownType, Phases
    <2>2. consecutiveFailCounter' \in [PLATFORMS -> 0..ConsecutiveFailLimit]
      BY <1>5, PlatformsAssumption DEF AnswerOffers, SlowdownType
    <2>. QED  BY <1>5, <2>1, <2>2 DEF AnswerOffers, SlowdownType, Slowdown
  <1>6. CASE AnswerDelayed(p)
    BY <1>6, FailedType DEF AnswerDelayed, SlowdownType, Slowdown
  <1>7. CASE Resume(p)
    BY <1>7, StepType DEF Resume, SlowdownType, Slowdown, Phases
  <1>. QED  BY <1>1, <1>2, <1>3, <1>4, <1>5, <1>6, <1>7 DEF Progress

LEMMA OfferStepType ==
  ASSUME SlowdownType, OfferNext
  PROVE  SlowdownType' /\ enabled' = enabled
  <1>1. CASE Restart
    BY <1>1, RestartType DEF Restart
  <1>2. ASSUME NEW p \in PLATFORMS, ResolveFails(p) PROVE SlowdownType' /\ enabled' = enabled
    BY <1>2, StepType DEF ResolveFails, SlowdownType, Slowdown, Phases
  <1>3. ASSUME NEW p \in PLATFORMS, Trouble(p) PROVE SlowdownType' /\ enabled' = enabled
    BY <1>3, FailedType DEF Trouble, SlowdownType, Slowdown
  <1>4. ASSUME NEW p \in PLATFORMS, Progress(p) PROVE SlowdownType' /\ enabled' = enabled
    <2>1. enabled' = enabled
      BY <1>4 DEF Progress, CheckOffers, ResolveFlag, ApplyEnabled, ApplyDisabled, AnswerOffers,
                  AnswerDelayed, Resume
    <2>. QED  BY <1>4, <2>1, ProgressType
  <1>. QED  BY <1>1, <1>2, <1>3, <1>4 DEF OfferNext, Fault

----------------------------------------------------------------------------
(* The page *)

(* Whatever the offer service does, the page keeps what it has. *)
LEMMA PageUntouched ==
  ASSUME PageInv, SlowdownType', enabled' = enabled, UNCHANGED pageVars
  PROVE  PageInv'
  BY DEF PageInv, PageType, DoneHolds, ListStays, AnswersShow, SuccessIsShown, pageVars, Single

LEMMA OfferUntouched ==
  ASSUME SlowdownType, UNCHANGED offerVars
  PROVE  SlowdownType' /\ enabled' = enabled
  BY DEF SlowdownType, offerVars

LEMMA RefreshInv ==
  ASSUME PageInv, Refresh
  PROVE  PageInv'
  <1>1. SlowdownType' /\ enabled' = enabled /\ toggle' = toggle
    BY OfferUntouched DEF Refresh, PageInv
  <1>2. patterns' \in Entries({Me}, Chips) /\ Lone(patterns')
    <2>1. CASE patterns.data = {}
      BY <2>1, FetchEntry, LoneFetch DEF Refresh, PageInv, PageType
    <2>2. CASE patterns.data # {}
      <3>1. {Request(Me)} \in SUBSET Requests({Me}, Chips)
        BY RequestType
      <3>2. [patterns EXCEPT !.fetch = {Request(Me)}] \in Entries({Me}, Chips)
        BY <3>1, EntryIsRecord DEF PageInv, PageType
      <3>. QED  BY <2>2, <3>2, LoneRefetch DEF Refresh, PageInv, PageType
    <2>. QED  BY <2>1, <2>2
  <1>3. patterns'.data = patterns.data
    BY EntryIsRecord DEF Refresh, Fetch, PageInv, PageType
  <1>4. \A r \in patterns'.fetch : r.got = {} \/ r \in patterns.fetch
    BY EntryIsRecord DEF Refresh, Fetch, Request, PageInv, PageType
  <1>5. \A j \in toggle : j.phase \in {"waiting", "done"} /\ ~j.foreign =>
            \A r \in patterns'.fetch : r.got \subseteq {j.want}
    BY <1>4 DEF PageInv, AnswersShow
  <1>. QED
    BY <1>1, <1>2, <1>3, <1>5
    DEF PageInv, PageType, DoneHolds, ListStays, AnswersShow, SuccessIsShown, Single

LEMMA ServeFlagsInv ==
  ASSUME PageInv, ServeFlags
  PROVE  PageInv'
  <1>1. SlowdownType' /\ enabled' = enabled /\ toggle' = toggle
    BY OfferUntouched DEF ServeFlags, PageInv
  <1>2. Chip(enabled) \in Chips
    BY DEF Chip, Chips
  <1>3. patterns' = Answer(patterns, Chip(enabled))
    BY DEF ServeFlags
  <1>4. patterns' \in Entries({Me}, Chips) /\ Lone(patterns')
    BY <1>2, <1>3, AnswerEntry, LoneAnswer DEF PageInv, PageType
  <1>5. patterns'.data = patterns.data
        /\ patterns'.fetch = {[r EXCEPT !.got = {Chip(enabled)}] : r \in patterns.fetch}
    BY <1>3, EntryIsRecord DEF Answer, PageInv, PageType
  <1>6. \A r \in patterns'.fetch : r.got = {Chip(enabled)}
    <2>1. patterns.fetch \in SUBSET Requests({Me}, Chips)
      BY EntryIsRecord DEF PageInv, PageType
    <2>. QED  BY <1>5, <2>1 DEF Requests
  <1>7. \A j \in toggle : j.phase \in {"waiting", "done"} /\ ~j.foreign =>
            \A r \in patterns'.fetch : r.got \subseteq {j.want}
    BY <1>6 DEF PageInv, DoneHolds
  <1>. QED
    BY <1>1, <1>4, <1>5, <1>7
    DEF PageInv, PageType, DoneHolds, ListStays, AnswersShow, SuccessIsShown, Single

(* A toggle that has waited for the list is done, whatever else it was. *)
LEMMA LandedToggle ==
  ASSUME PageInv, Landed
  PROVE  /\ toggle' \in SUBSET Toggle /\ Single(toggle')
         /\ \A i \in toggle' : \E j \in toggle :
              /\ i.want = j.want /\ i.foreign = j.foreign
              /\ i.phase = IF j.phase = "waiting" THEN "done" ELSE j.phase
  <1>. DEFINE f(j) == IF j.phase = "waiting" THEN [j EXCEPT !.phase = "done"] ELSE j
  <1>1. \A j \in toggle :
          /\ f(j) \in Toggle /\ f(j).want = j.want /\ f(j).foreign = j.foreign
          /\ f(j).phase = IF j.phase = "waiting" THEN "done" ELSE j.phase
    BY DEF PageInv, PageType, Toggle
  <1>2. toggle' = {f(j) : j \in toggle}
    BY DEF Landed
  <1>. HIDE DEF f
  <1>. QED  BY <1>1, <1>2 DEF PageInv, PageType, Single

(* The list lands, or is taken for empty. *)
LEMMA LandInv ==
  ASSUME PageInv, Landed, UNCHANGED offerVars,
         patterns' \in Entries({Me}, Chips), Lone(patterns'), patterns'.data # {},
         patterns'.fetch = {},
         \/ \E r \in patterns.fetch : patterns'.data = r.got
         \/ patterns'.data = {None}
  PROVE  PageInv'
  <1>1. SlowdownType' /\ enabled' = enabled
    BY OfferUntouched DEF PageInv
  <1>2. PageType' /\ ListStays' /\ AnswersShow'
    BY LandedToggle DEF PageType, ListStays, AnswersShow
  <1>3. DoneHolds'
    BY <1>1, LandedToggle DEF PageInv, DoneHolds
  <1>4. SuccessIsShown'
    <2>. SUFFICES ASSUME NEW i \in toggle', i.phase = "done", ~i.foreign
                  PROVE  patterns'.data \subseteq {i.want, None}
      BY DEF SuccessIsShown
    <2>1. PICK j \in toggle : i.want = j.want /\ ~j.foreign /\ j.phase \in {"waiting", "done"}
      BY LandedToggle
    <2>2. \A r \in patterns.fetch : r.got \subseteq {i.want}
      BY <2>1 DEF PageInv, AnswersShow
    <2>. QED  BY <2>2
  <1>. QED  BY <1>1, <1>2, <1>3, <1>4 DEF PageInv

LEMMA ReceiveFlagsInv ==
  ASSUME PageInv, ReceiveFlags
  PROVE  PageInv'
  <1>1. PICK r \in patterns.fetch : r.got # {}
    BY DEF ReceiveFlags, Answered
  <1>2. patterns' = [data |-> r.got, stale |-> FALSE, raced |-> r.raced, fetch |-> {}]
    BY LandLone DEF ReceiveFlags, PageInv, PageType
  <1>3. patterns' \in Entries({Me}, Chips) /\ Lone(patterns')
    BY <1>1, LandEntry, LoneLand DEF ReceiveFlags, PageInv, PageType
  <1>. QED  BY <1>1, <1>2, <1>3, LandInv DEF ReceiveFlags

LEMMA FlagsFailInv ==
  ASSUME PageInv, FlagsFail
  PROVE  PageInv'
  <1>. DEFINE e == Answer(patterns, None)
  <1>1. e \in Entries({Me}, Chips) /\ Lone(e)
    BY AnswerEntry, LoneAnswer DEF PageInv, PageType, Chips
  <1>2. PICK r \in patterns.fetch : TRUE
    BY DEF FlagsFail
  <1>3. PICK u \in e.fetch : u.got = {None}
    <2>1. [r EXCEPT !.got = {None}] \in e.fetch /\ [r EXCEPT !.got = {None}].got = {None}
      BY EntryIsRecord DEF Answer, PageInv, PageType, Requests
    <2>. QED  BY <2>1
  <1>. HIDE DEF e
  <1>4. Land(e).data = {None} /\ Land(e).fetch = {}
    <2>1. Land(e) = [data |-> u.got, stale |-> FALSE, raced |-> u.raced, fetch |-> {}]
      BY <1>1, LandLone
    <2>. QED  BY <1>3, <2>1
  <1>5. Land(e) \in Entries({Me}, Chips) /\ Lone(Land(e))
    BY <1>1, <1>3, LandEntry, LoneLand
  <1>6. patterns' = Land(e) /\ Landed /\ UNCHANGED offerVars
    BY DEF FlagsFail, e
  <1>. QED  BY <1>4, <1>5, <1>6, LandInv

LEMMA PressInv ==
  ASSUME PageInv, Press
  PROVE  PageInv'
  <1>1. SlowdownType' /\ enabled' = enabled /\ patterns' = patterns
    BY OfferUntouched DEF Press, PageInv
  <1>2. PICK c \in patterns.data \ {None} :
          toggle' = {[want |-> IF c = "enabled" THEN "disabled" ELSE "enabled",
                      phase |-> "sent", foreign |-> FALSE]}
    BY DEF Press
  <1>3. \A j \in toggle' : j \in Toggle /\ j.phase = "sent"
    <2>. DEFINE i == [want |-> IF c = "enabled" THEN "disabled" ELSE "enabled",
                      phase |-> "sent", foreign |-> FALSE]
    <2>1. i \in Toggle /\ i.phase = "sent"
      BY DEF Toggle
    <2>2. toggle' = {i}
      BY <1>2
    <2>. HIDE DEF i
    <2>. QED  BY <2>1, <2>2
  <1>4. Single(toggle')
    BY <1>2 DEF Single
  <1>. QED
    BY <1>1, <1>2, <1>3, <1>4
    DEF PageInv, PageType, DoneHolds, ListStays, AnswersShow, SuccessIsShown, Single

LEMMA ApplyToggleInv ==
  ASSUME PageInv, ApplyToggle
  PROVE  PageInv'
  <1>1. PICK j \in toggle :
          /\ enabled' = (j.want = "enabled")
          /\ toggle' = {[j EXCEPT !.phase = "applied"]}
          /\ UNCHANGED <<Slowdown, request, consecutiveFailCounter, patterns>>
    BY DEF ApplyToggle
  <1>. DEFINE i == [j EXCEPT !.phase = "applied"]
  <1>2. i \in Toggle /\ i.phase = "applied" /\ i.want = j.want /\ j.want \in {"enabled", "disabled"}
    BY DEF PageInv, PageType, Toggle
  <1>3. Chip(enabled') = i.want
    BY <1>1, <1>2 DEF Chip
  <1>4. toggle' = {i}
    BY <1>1
  <1>. HIDE DEF i
  <1>5. SlowdownType'
    BY <1>1 DEF PageInv, SlowdownType, Slowdown
  <1>6. PageType' /\ ListStays'
    BY <1>1, <1>2, <1>4 DEF PageInv, PageType, ListStays, Single
  <1>. QED
    BY <1>2, <1>3, <1>4, <1>5, <1>6 DEF PageInv, DoneHolds, AnswersShow, SuccessIsShown

LEMMA SettleInv ==
  ASSUME PageInv, Settle
  PROVE  PageInv'
  <1>1. SlowdownType' /\ enabled' = enabled
    BY OfferUntouched DEF Settle, PageInv
  <1>2. PICK j \in toggle :
          /\ j.phase = "applied"
          /\ patterns' = Invalidate(patterns, TRUE, Me)
          /\ toggle' = {[j EXCEPT !.phase = "waiting"]}
    BY DEF Settle
  <1>. DEFINE i == [j EXCEPT !.phase = "waiting"]
  <1>3. i \in Toggle /\ i.phase = "waiting" /\ i.want = j.want /\ i.foreign = j.foreign
    BY DEF PageInv, PageType, Toggle
  <1>4. toggle' = {i}
    BY <1>2
  <1>. HIDE DEF i
  <1>5. patterns.data # {}
    BY DEF PageInv, ListStays
  <1>6. patterns' \in Entries({Me}, Chips) /\ Lone(patterns')
    BY <1>2, InvalidateEntry, LoneInvalidate DEF PageInv, PageType
  <1>7. patterns'.data = patterns.data /\ \A r \in patterns'.fetch : r.got = {}
    BY <1>2, <1>5, EntryIsRecord DEF Invalidate, Request, PageInv, PageType
  <1>8. DoneHolds'
    BY <1>1, <1>2, <1>3, <1>4 DEF PageInv, DoneHolds
  <1>9. PageType'
    BY <1>3, <1>4, <1>6 DEF PageType, Single
  <1>. QED
    BY <1>1, <1>3, <1>4, <1>5, <1>7, <1>8, <1>9 DEF PageInv, ListStays, AnswersShow, SuccessIsShown

LEMMA NoToggleInv ==
  ASSUME PageInv, toggle' = {}, UNCHANGED <<offerVars, patterns>>
  PROVE  PageInv'
  <1>1. SlowdownType' /\ enabled' = enabled
    BY OfferUntouched DEF PageInv
  <1>. QED
    BY <1>1 DEF PageInv, PageType, DoneHolds, ListStays, AnswersShow, SuccessIsShown, Single

LEMMA SetElsewhereInv ==
  ASSUME PageInv, SetElsewhere
  PROVE  PageInv'
  <1>1. SlowdownType' /\ patterns' = patterns
    BY DEF SetElsewhere, SetFlag, PageInv, SlowdownType, Slowdown
  <1>. DEFINE f(j) == [j EXCEPT !.foreign = (j.phase # "sent")]
  <1>2. \A j \in toggle : f(j) \in Toggle /\ f(j).phase = j.phase /\ (f(j).foreign <=> j.phase # "sent")
    BY DEF PageInv, PageType, Toggle
  <1>3. toggle' = {f(j) : j \in toggle}
    BY DEF SetElsewhere
  <1>. HIDE DEF f
  <1>4. \A i \in toggle' : i \in Toggle /\ (i.phase = "sent" \/ i.foreign) /\ toggle # {}
    BY <1>2, <1>3
  <1>5. Single(toggle')
    BY <1>3 DEF PageInv, PageType, Single
  <1>6. ListStays'
    BY <1>1, <1>4 DEF PageInv, ListStays
  <1>. QED
    BY <1>1, <1>4, <1>5, <1>6 DEF PageInv, PageType, DoneHolds, AnswersShow, SuccessIsShown

----------------------------------------------------------------------------
LEMMA InitInv == Init => PageInv
  <1>. SUFFICES ASSUME Init PROVE PageInv
    OBVIOUS
  <1>1. SlowdownType
    <2>1. Cardinality(affectedPlatforms) = 0
      BY FS_EmptySet DEF Init, OfferInit
    <2>2. consecutiveFailCounter \in [PLATFORMS -> 0..ConsecutiveFailLimit]
      BY PlatformsAssumption DEF Init, OfferInit
    <2>. QED  BY <2>1, <2>2 DEF Init, OfferInit, SlowdownType, Phases
  <1>2. patterns \in Entries({Me}, Chips) /\ Lone(patterns)
    <2>1. Empty \in Entries({Me}, Chips) /\ Lone(Empty)
      BY EmptyEntry, LoneEmpty
    <2>. QED  BY <2>1, MountEntry, LoneFetch DEF Init, PageInit
  <1>. QED
    BY <1>1, <1>2
    DEF Init, PageInit, PageInv, PageType, DoneHolds, ListStays, AnswersShow, SuccessIsShown, Single

LEMMA NextInv == PageInv /\ [Next]_vars => PageInv'
  <1>. SUFFICES ASSUME PageInv, [Next]_vars PROVE PageInv'
    OBVIOUS
  <1>1. CASE OfferNext /\ UNCHANGED pageVars
    BY <1>1, OfferStepType, PageUntouched DEF PageInv
  <1>2. CASE Reject \/ CloseMessage
    BY <1>2, NoToggleInv DEF Reject, CloseMessage
  <1>3. CASE UNCHANGED vars
    BY <1>3, OfferUntouched, PageUntouched DEF vars, PageInv
  <1>. QED
    BY <1>1, <1>2, <1>3, RefreshInv, ServeFlagsInv, ReceiveFlagsInv, FlagsFailInv, PressInv,
       ApplyToggleInv, SettleInv, SetElsewhereInv
    DEF Next

LEMMA Invariance == Spec => []PageInv
  BY InitInv, NextInv, PTL DEF Spec

(* Every variable has its type: as many platforms are marked as the slowdown *)
(* affects, or none, and the button has one press under way.                 *)
THEOREM TypeCorrect == Spec => []TypeOK
  <1>1. PageInv => TypeOK
    BY SingleCardinality DEF PageInv, SlowdownType, PageType, TypeOK
  <1>. QED  BY <1>1, Invariance, PTL

(* onSuccess awaits the list it has invalidated: the message of success never *)
(* stands beside the old value, whatever fetch was under way, unless the list *)
(* cannot be had or somebody else has set the flag since.                     *)
THEOREM MessageTellsTruth == Spec => []SuccessIsShown
  <1>1. PageInv => SuccessIsShown
    BY DEF PageInv
  <1>. QED  BY <1>1, Invariance, PTL

(* The middleware draws the platforms when the slowdown begins only: requests *)
(* that overlap, each with a value of the flag of its own, never change them. *)
THEOREM DrawnOnce == Spec => AffectedStay
  <1>1. [Next]_vars => [isActive /\ isActive' => affectedPlatforms' = affectedPlatforms]_vars
    <2>. SUFFICES ASSUME Next, isActive, isActive'
                  PROVE  affectedPlatforms' = affectedPlatforms
      BY DEF vars
    <2>1. CASE OfferNext
      <3>1. ASSUME NEW p \in PLATFORMS, Progress(p)
            PROVE  affectedPlatforms' = affectedPlatforms
        BY <3>1 DEF Progress, CheckOffers, ResolveFlag, ApplyEnabled, Activate, ApplyDisabled,
                    Deactivate, AnswerOffers, AnswerDelayed, Resume, Slowdown
      <3>2. CASE Fault
        BY <3>2 DEF Fault, Restart, ResolveFails, Trouble, Slowdown
      <3>. QED  BY <2>1, <3>1, <3>2 DEF OfferNext
    <2>2. CASE ~OfferNext
      BY <2>2 DEF Next, Refresh, ServeFlags, ReceiveFlags, FlagsFail, Press, ApplyToggle, Settle,
                  Reject, CloseMessage, SetElsewhere, SetFlag, Slowdown, offerVars
    <2>. QED  BY <2>1, <2>2
  <1>. QED  BY <1>1, PTL DEF Spec, AffectedStay
============================================================================
