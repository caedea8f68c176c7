-------------------------- MODULE WebSession_proofs --------------------------
(* Invariance proofs for WebSession, for every set of users and slots, every *)
(* set of pages for each set of keys, and all bounds.                        *)
EXTENDS WebSession, QueryCache_proofs, SequenceTheorems, TLAPS

----------------------------------------------------------------------------
(* Pages and forms *)

LEMMA NothingObserved ==
  ASSUME NEW p \in {"login", "error"}
  PROVE  PageKeys(p) = {}
  BY DEF PageKeys, Forms, TabForms, Form, DepositForm, WithdrawForm, QuickBuyForm,
         QuickSellForm, BuyForm, SellForm, Protected, InstrumentTransactions

LEMMA FormPages ==
  /\ \A f \in Forms : f.at \in Protected
  /\ InstrumentTransactions \subseteq Protected
  /\ Protected \subseteq Pages
  /\ "login" \notin Protected /\ "error" \notin Protected /\ "blank" \notin Protected
  /\ {"login", "error", "blank"} \subseteq Pages
  /\ {"home", "instruments", "quick-buy"} \subseteq Protected
  BY DEF Protected, Pages, Forms, TabForms, Form, DepositForm, WithdrawForm, QuickBuyForm,
         QuickSellForm, BuyForm, SellForm, InstrumentTransactions

----------------------------------------------------------------------------
(* The invariant: with nobody logged in the cache is empty, and otherwise   *)
(* every entry is of the user logged in, if no login answer came late.      *)

TabType ==
    /\ session \in Users \union {NoUser}
    /\ page \in Pages /\ nav \in SUBSET Protected
    /\ logins \in SUBSET Users
    /\ ledger \in [Users -> [Keys -> Nat]]
    /\ cache \in [Keys -> Entries(Users, Values)]
    /\ session = NoUser => page \in {"login", "error"} /\ nav = {}

Mine(u) == [owner : {u}, version : Int]

Owned == cache \in [Keys -> Entries({session}, Mine(session))]

TabInv == TabType /\ LogoutForgets /\ (~overtaken => Owned)

(* Steps within a session. *)
PageStep ==
    \/ \E p \in Protected : Navigate(p) \/ Arrive(p)
    \/ OpenInstrument \/ InstrumentMissing \/ \E f \in TabForms : SwitchTab(f)

FetchStep ==
    \E k \in Keys : Serve(k) \/ Receive(k) \/ FetchFails(k) \/ TurnStale(k) \/ Refocus(k) \/ Collect(k)

FormStep ==
    \/ \E s \in Slots : Apply(s) \/ Accept(s) \/ Reject(s) \/ Settle(s)
    \/ \E s \in Slots, f \in Forms : Submit(s, f)

QuietStep ==
    \/ \E u \in Users : SendLogin(u)
    \/ LoginFails \/ SendLogout \/ LogoutFails

TabStep == PageStep \/ FetchStep \/ FormStep \/ QuietStep

LEMMA LoadingEntries ==
  ASSUME NEW A, NEW V, NEW c \in [Keys -> Entries(A, V)], NEW p, NEW u \in A
  PROVE  Loading(c, p, u) \in [Keys -> Entries(A, V)]
  BY EnsureEntry DEF Loading

(* Pages, loaders and refetches: the user asks, or nobody does. *)
LEMMA PageStepCache ==
  ASSUME TabType, PageStep, NEW A, NEW V, session \in A,
         cache \in [Keys -> Entries(A, V)]
  PROVE  cache' \in [Keys -> Entries(A, V)]
  <1>1. ASSUME NEW p \in Protected, Navigate(p) PROVE cache' = Loading(cache, p, session)
    BY <1>1 DEF Navigate, Load
  <1>2. ASSUME NEW p \in Protected, Arrive(p) PROVE cache' \in [Keys -> Entries(A, V)]
    BY <1>2, MountEntry DEF Arrive
  <1>3. CASE OpenInstrument
    BY <1>3, LoadingEntries DEF OpenInstrument, Load
  <1>4. CASE InstrumentMissing
    BY <1>4, LoadingEntries DEF InstrumentMissing, Load
  <1>5. ASSUME NEW f \in TabForms, SwitchTab(f) PROVE cache' \in [Keys -> Entries(A, V)]
    BY <1>5, MountEntry DEF SwitchTab
  <1>. QED  BY <1>1, <1>2, <1>3, <1>4, <1>5, LoadingEntries DEF PageStep

LEMMA FetchStepCache ==
  ASSUME TabType, FetchStep, NEW A, NEW V, A \subseteq Users, session # NoUser => session \in A,
         \A u \in A : \A n \in Int : [owner |-> u, version |-> n] \in V,
         cache \in [Keys -> Entries(A, V)]
  PROVE  cache' \in [Keys -> Entries(A, V)]
  <1>. SUFFICES ASSUME NEW k \in Keys, NEW e \in Entries(A, V), cache' = [cache EXCEPT ![k] = e]
                PROVE  cache' \in [Keys -> Entries(A, V)]
    <2>0. PICK k \in Keys : Serve(k) \/ Receive(k) \/ FetchFails(k) \/ TurnStale(k) \/ Refocus(k) \/ Collect(k)
      BY DEF FetchStep
    <2>1. cache[k] \in Entries(A, V)
      OBVIOUS
    <2>r. cache[k].fetch \in SUBSET Requests(A, V)
      BY <2>1, EntryIsRecord
    <2>b. \A r \in cache[k].fetch : r.by \in A
      BY <2>r DEF Requests
    <2>2. CASE Serve(k)
      <3>1. PICK r \in cache[k].fetch :
              cache' = [cache EXCEPT ![k] = Answer(cache[k], [owner |-> r.by, version |-> ledger[r.by][k]])]
        BY <2>2 DEF Serve
      <3>2. r.by \in A /\ ledger[r.by][k] \in Int
        BY <2>b DEF TabType
      <3>3. Answer(cache[k], [owner |-> r.by, version |-> ledger[r.by][k]]) \in Entries(A, V)
        BY <2>1, <3>2, AnswerEntry
      <3>. QED  BY <3>1, <3>3
    <2>3. CASE Receive(k)
      <3>1. cache[k].fetch # {}
        BY <2>3 DEF Receive, Answered
      <3>2. Land(cache[k]) \in Entries(A, V)
        BY <2>1, <3>1, LandEntry
      <3>. QED  BY <2>3, <3>2 DEF Receive
    <2>4. CASE FetchFails(k)
      <3>1. PICK r \in cache[k].fetch : cache' = [cache EXCEPT ![k] =
              IF OnFailure[k] = Throws THEN Fail(cache[k])
              ELSE Land(Answer(cache[k], [owner |-> r.by, version |-> NoVersion]))]
        BY <2>4 DEF FetchFails
      <3>2. [owner |-> r.by, version |-> NoVersion] \in V
        BY <2>b DEF NoVersion
      <3>3. Answer(cache[k], [owner |-> r.by, version |-> NoVersion]) \in Entries(A, V)
        BY <2>1, <3>2, AnswerEntry
      <3>4. Answer(cache[k], [owner |-> r.by, version |-> NoVersion]).fetch # {}
        <4>. DEFINE v == [owner |-> r.by, version |-> NoVersion]
        <4>1. Answer(cache[k], v).fetch = {[q EXCEPT !.got = {v}] : q \in cache[k].fetch}
          <5>. HIDE DEF v
          <5>. QED  BY <2>1, EntryIsRecord DEF Answer
        <4>. HIDE DEF v
        <4>2. [r EXCEPT !.got = {v}] \in {[q EXCEPT !.got = {v}] : q \in cache[k].fetch}
          BY <3>1
        <4>3. Answer(cache[k], v).fetch # {}
          BY <4>1, <4>2
        <4>. QED  BY <4>3 DEF v
      <3>5. Land(Answer(cache[k], [owner |-> r.by, version |-> NoVersion])) \in Entries(A, V)
        BY <3>3, <3>4, LandEntry
      <3>6. Fail(cache[k]) \in Entries(A, V)
        BY <2>1, FailEntry
      <3>. QED  BY <3>1, <3>5, <3>6
    <2>5. CASE TurnStale(k)
      <3>1. cache' = [cache EXCEPT ![k] = [cache[k] EXCEPT !.stale = TRUE]]
        BY <2>5 DEF TurnStale
      <3>. QED  BY <2>1, <3>1, StaleEntry
    <2>6. CASE Refocus(k)
      <3>1. Mount(cache[k], session) \in Entries(A, V)
        BY <2>1, <2>6, MountEntry DEF Refocus
      <3>. QED  BY <2>6, <3>1 DEF Refocus
    <2>7. CASE Collect(k)
      BY <2>7, EmptyEntry DEF Collect
    <2>. QED  BY <2>0, <2>2, <2>3, <2>4, <2>5, <2>6, <2>7
  <1>. QED  OBVIOUS

(* What nobody observes is not asked for, and nobody is logged in where     *)
(* nothing is observed.                                                     *)
LEMMA FormStepCache ==
  ASSUME TabType, FormStep, NEW A, NEW V, session # NoUser => session \in A,
         cache \in [Keys -> Entries(A, V)]
  PROVE  cache' \in [Keys -> Entries(A, V)]
  <1>1. CASE UNCHANGED cache
    BY <1>1
  <1>2. ASSUME NEW s \in Slots, Settle(s), cache' # cache
        PROVE  cache' \in [Keys -> Entries(A, V)]
    <2>1. PICK j \in jobs[s] : LET k == Head(j.todo) IN
            cache' = [c \in Keys |-> IF c = k THEN Invalidate(cache[c], Observed(c), session) ELSE cache[c]]
      BY <1>2 DEF Settle
    <2>. DEFINE k == Head(j.todo)
    <2>2. Observed(k) => session \in A
      BY NothingObserved DEF TabType, Observed
    <2>3. Observed(k) \in BOOLEAN
      BY DEF Observed
    <2>4. k \in Keys => Invalidate(cache[k], Observed(k), session) \in Entries(A, V)
      BY <2>2, <2>3, InvalidateEntry
    <2>. QED  BY <2>1, <2>4
  <1>. QED  BY <1>1, <1>2 DEF FormStep, Apply, Accept, Reject, Submit

LEMMA NobodyStepCache ==
  ASSUME TabType, LogoutForgets, session = NoUser, TabStep
  PROVE  \A k \in Keys : cache'[k] = Empty
  <1>1. \A k \in Keys : cache[k] = Empty
    BY DEF LogoutForgets
  <1>2. ~PageStep
    BY FormPages DEF PageStep, TabType, Navigate, Arrive, OpenInstrument, InstrumentMissing, SwitchTab
  <1>3. ~FetchStep
    <2>1. \A k \in Keys : cache[k].data = {} /\ cache[k].fetch = {}
      BY <1>1 DEF Empty
    <2>2. ASSUME NEW k \in Keys
          PROVE  ~(Serve(k) \/ Receive(k) \/ FetchFails(k) \/ TurnStale(k) \/ Refocus(k) \/ Collect(k))
      BY <2>1 DEF Serve, Receive, Answered, FetchFails, TurnStale, Refocus, Collect
    <2>. QED  BY <2>2 DEF FetchStep
  <1>4. CASE UNCHANGED cache
    BY <1>1, <1>4
  <1>5. ASSUME NEW s \in Slots, Settle(s), cache' # cache
        PROVE  \A k \in Keys : cache'[k] = Empty
    <2>1. PICK j \in jobs[s] : LET h == Head(j.todo) IN
            cache' = [c \in Keys |-> IF c = h THEN Invalidate(cache[c], Observed(c), session) ELSE cache[c]]
      BY <1>5 DEF Settle
    <2>2. ~Observed(Head(j.todo))
      BY NothingObserved DEF TabType, Observed
    <2>3. Observed(Head(j.todo)) = FALSE
      BY <2>2 DEF Observed
    <2>4. Invalidate(Empty, FALSE, session) = Empty
      BY InvalidateEmpty
    <2>5. cache \in [Keys -> Entries(Users, Values)]
      BY DEF TabType
    <2>. QED  BY <1>1, <2>1, <2>3, <2>4, <2>5
  <1>. QED  BY <1>2, <1>3, <1>4, <1>5
       DEF TabStep, FormStep, QuietStep, Apply, Accept, Reject, Submit, SendLogin, LoginFails, SendLogout, LogoutFails

LEMMA PageStepHasUser ==
  ASSUME TabType, PageStep
  PROVE  session \in Users
  BY FormPages DEF PageStep, TabType, Navigate, Arrive, OpenInstrument, InstrumentMissing, SwitchTab

LEMMA TabStepCache ==
  ASSUME TabType, TabStep, NEW A, NEW V, A \subseteq Users, session # NoUser => session \in A,
         \A u \in A : \A n \in Int : [owner |-> u, version |-> n] \in V,
         cache \in [Keys -> Entries(A, V)]
  PROVE  cache' \in [Keys -> Entries(A, V)]
  <1>1. CASE PageStep
    BY <1>1, PageStepHasUser, PageStepCache, NoUserAssumption
  <1>2. CASE FetchStep
    BY <1>2, FetchStepCache
  <1>3. CASE FormStep
    BY <1>3, FormStepCache
  <1>4. CASE QuietStep
    BY <1>4 DEF QuietStep, SendLogin, LoginFails, SendLogout, LogoutFails
  <1>. QED  BY <1>1, <1>2, <1>3, <1>4 DEF TabStep

(* A user's versions only grow. *)
LEMMA LedgerStep ==
  ASSUME TabType, NEW s \in Slots, Apply(s), Keys' = Keys
  PROVE  ledger' \in [Users -> [Keys -> Nat]]
  <1>1. PICK j \in jobs[s] : ledger' = [ledger EXCEPT ![j.by] =
            [k \in Keys |-> IF k \in j.does.sends THEN ledger[j.by][k] + 1 ELSE ledger[j.by][k]]]
    BY DEF Apply
  <1>2. j.by \in Users =>
          [k \in Keys |-> IF k \in j.does.sends THEN ledger[j.by][k] + 1 ELSE ledger[j.by][k]] \in [Keys -> Nat]
    BY DEF TabType
  <1>. QED  BY <1>1, <1>2 DEF TabType

LEMMA TabStepType ==
  ASSUME TabType, TabStep
  PROVE  TabType' /\ session' = session /\ overtaken' = overtaken /\ Keys' = Keys
  <1>1. session' = session /\ overtaken' = overtaken
    BY DEF TabStep, PageStep, FetchStep, FormStep, QuietStep, Navigate, Arrive, OpenInstrument,
           InstrumentMissing, SwitchTab, Serve, Receive, FetchFails, TurnStale, Refocus, Collect,
           Apply, Accept, Reject, Settle, Submit, SendLogin, LoginFails, SendLogout, LogoutFails, Auth
  <1>2. cache' \in [Keys -> Entries(Users, Values)]
    BY TabStepCache DEF TabType, Values
  <1>3. Keys' = Keys
    BY <1>2 DEF Keys, TabType
  <1>4. page' \in Pages /\ nav' \in SUBSET Protected
    <2>1. CASE PageStep
      BY <2>1, FormPages DEF PageStep, TabType, Navigate, Arrive, OpenInstrument, InstrumentMissing,
           SwitchTab, Load, InstrumentTransactions
    <2>2. CASE FetchStep \/ FormStep \/ QuietStep
      BY <2>2 DEF FetchStep, FormStep, QuietStep, TabType, Serve, Receive, FetchFails, TurnStale, Refocus,
           Collect, Apply, Accept, Reject, Settle, Submit, SendLogin, LoginFails, SendLogout, LogoutFails
    <2>. QED  BY <2>1, <2>2 DEF TabStep
  <1>5. session = NoUser => page' = page /\ nav' = nav
    <2>1. CASE PageStep
      BY <2>1, PageStepHasUser, NoUserAssumption
    <2>2. CASE FetchStep \/ FormStep \/ QuietStep
      BY <2>2 DEF FetchStep, FormStep, QuietStep, Serve, Receive, FetchFails, TurnStale, Refocus,
           Collect, Apply, Accept, Reject, Settle, Submit, SendLogin, LoginFails, SendLogout, LogoutFails
    <2>. QED  BY <2>1, <2>2 DEF TabStep
  <1>6. logins' \in SUBSET Users
    BY DEF TabType, TabStep, PageStep, FetchStep, FormStep, QuietStep, Navigate, Arrive, OpenInstrument,
           InstrumentMissing, SwitchTab, Serve, Receive, FetchFails, TurnStale, Refocus, Collect,
           Apply, Accept, Reject, Settle, Submit, SendLogin, LoginFails, SendLogout, LogoutFails, Auth
  <1>7. ledger' \in [Users -> [Keys -> Nat]]
    <2>1. ASSUME NEW s \in Slots, Apply(s) PROVE ledger' \in [Users -> [Keys -> Nat]]
      BY <2>1, <1>3, LedgerStep
    <2>2. CASE UNCHANGED ledger
      BY <2>2 DEF TabType
    <2>. QED
      BY <2>1, <2>2 DEF TabStep, PageStep, FetchStep, FormStep, QuietStep, Navigate, Arrive, OpenInstrument,
           InstrumentMissing, SwitchTab, Serve, Receive, FetchFails, TurnStale, Refocus, Collect,
           Accept, Reject, Settle, Submit, SendLogin, LoginFails, SendLogout, LogoutFails, Server
  <1>8. TabType'
    BY <1>1, <1>2, <1>3, <1>4, <1>5, <1>6, <1>7 DEF TabType
  <1>. QED  BY <1>1, <1>3, <1>8

LEMMA TabStepInv ==
  ASSUME TabInv, TabStep
  PROVE  TabInv'
  <1>. USE DEF TabInv
  <1>1. TabType' /\ session' = session /\ overtaken' = overtaken
    BY TabStepType
  <1>2. Keys' = Keys
    BY TabStepType
  <1>3. CASE session = NoUser
    <2>1. \A k \in Keys : cache'[k] = Empty
      BY <1>3, NobodyStepCache
    <2>2. cache' \in [Keys -> Entries({session}, Mine(session))]
      BY <1>1, <1>2, <2>1, EmptyEntry DEF TabType
    <2>. QED  BY <1>1, <1>2, <2>1, <2>2 DEF LogoutForgets, Owned
  <1>4. CASE session # NoUser
    <2>1. session \in Users
      BY <1>4 DEF TabType
    <2>2. ASSUME ~overtaken
          PROVE  cache' \in [Keys -> Entries({session}, Mine(session))]
      <3>1. \A u \in {session} : \A n \in Int : [owner |-> u, version |-> n] \in Mine(session)
        BY DEF Mine
      <3>2. cache \in [Keys -> Entries({session}, Mine(session))]
        BY <2>2 DEF Owned
      <3>. QED  BY <2>1, <3>1, <3>2, TabStepCache
    <2>. QED  BY <1>1, <1>2, <1>4, <2>2 DEF LogoutForgets, Owned
  <1>. QED  BY <1>3, <1>4

----------------------------------------------------------------------------
(* Logging in and out, and reloading *)

LEMMA EmptyCache ==
  ASSUME NEW A, NEW V
  PROVE  [k \in Keys |-> Empty] \in [Keys -> Entries(A, V)]
  BY EmptyEntry

LEMMA UserOwns ==
  ASSUME NEW u \in Users, NEW c \in [Keys -> Entries({u}, Mine(u))]
  PROVE  c \in [Keys -> Entries(Users, Values)]
  <1>1. Mine(u) \subseteq Values
    BY DEF Mine, Values
  <1>2. Requests({u}, Mine(u)) \subseteq Requests(Users, Values)
    BY <1>1 DEF Requests
  <1>3. Entries({u}, Mine(u)) \subseteq Entries(Users, Values)
    BY <1>1, <1>2, EntryIsRecord
  <1>. QED  BY <1>3

(* Every session begins with an empty cache, so that what the loaders fetch *)
(* for its user is all there is.                                            *)
LEMMA FreshLoad ==
  ASSUME NEW c, c = [k \in Keys |-> Empty], NEW p, NEW u \in Users
  PROVE  /\ Loading(c, p, u) \in [Keys -> Entries({u}, Mine(u))]
         /\ Loading(c, p, u) \in [Keys -> Entries(Users, Values)]
  <1>1. Loading(c, p, u) \in [Keys -> Entries({u}, Mine(u))]
    BY EmptyCache, LoadingEntries
  <1>. QED  BY <1>1, UserOwns

LEMMA ReloadInv ==
  ASSUME TabInv, NEW p \in Protected, Reload(p)
  PROVE  TabInv'
  <1>. USE DEF TabInv
  <1>1. CASE session = NoUser
    <2>1. session' = NoUser /\ page' = "login" /\ nav' = {} /\ cache' = [k \in Keys |-> Empty]
      BY <1>1 DEF Reload
    <2>2. Keys' = Keys
      BY <2>1 DEF Keys
    <2>3. cache' \in [Keys -> Entries(Users, Values)] /\ cache' \in [Keys -> Entries({session'}, Mine(session'))]
      BY <2>1, EmptyCache
    <2>4. TabType'
      BY <2>1, <2>2, <2>3, FormPages DEF TabType, Reload, Server
    <2>5. LogoutForgets' /\ Owned'
      BY <2>1, <2>2, <2>3 DEF LogoutForgets, Owned
    <2>. QED  BY <2>4, <2>5
  <1>2. CASE session # NoUser
    <2>1. session \in Users
      BY <1>2 DEF TabType
    <2>2. session' = session /\ page' = "blank" /\ nav' = {p}
          /\ cache' = Loading([k \in Keys |-> Empty], p, session)
      BY <1>2 DEF Reload
    <2>3. cache' \in [Keys -> Entries({session}, Mine(session))] /\ cache' \in [Keys -> Entries(Users, Values)]
      BY <2>1, <2>2, FreshLoad
    <2>4. Keys' = Keys
      BY <2>3 DEF Keys
    <2>5. TabType'
      BY <1>2, <2>2, <2>3, <2>4, FormPages DEF TabType, Reload, Server
    <2>6. LogoutForgets' /\ Owned'
      BY <1>2, <2>2, <2>3, <2>4 DEF LogoutForgets, Owned
    <2>. QED  BY <2>5, <2>6
  <1>. QED  BY <1>1, <1>2

(* PublicLayout leads whoever has just logged in home. *)
LEMMA EnterInv ==
  ASSUME TabInv, session = NoUser, NEW u \in Users, session' = u, Enter(u),
         page' = page, UNCHANGED ledger, logins' \in SUBSET Users
  PROVE  TabInv'
  <1>. USE DEF TabInv
  <1>1. cache = [k \in Keys |-> Empty]
    BY DEF LogoutForgets, TabType
  <1>2. /\ cache' \in [Keys -> Entries({u}, Mine(u))]
        /\ cache' \in [Keys -> Entries(Users, Values)]
    BY <1>1, FreshLoad DEF Enter
  <1>3. Keys' = Keys
    BY <1>2 DEF Keys
  <1>4. TabType'
    BY <1>2, <1>3, NoUserAssumption, FormPages DEF TabType, Enter
  <1>5. LogoutForgets' /\ Owned'
    BY <1>2, <1>3, NoUserAssumption DEF LogoutForgets, Owned
  <1>. QED  BY <1>4, <1>5

LEMMA DefaultLoginInv ==
  ASSUME TabInv, NEW u \in Users, DefaultLogin(u)
  PROVE  TabInv'
  <1>1. session = NoUser /\ session' = u /\ Enter(u) /\ page' = page
        /\ UNCHANGED ledger /\ logins' \in SUBSET Users
    BY DEF DefaultLogin, Server, TabInv, TabType
  <1>. QED  BY <1>1, EnterInv

(* A late answer: into an empty cache, to the same user, or it overtakes. *)
LEMMA LoginAnswerInv ==
  ASSUME TabInv, NEW u \in Users, LoginAnswer(u)
  PROVE  TabInv'
  <1>1. session' = u /\ overtaken' = (overtaken \/ session \notin {NoUser, u})
        /\ page' = page /\ UNCHANGED ledger /\ logins' = {}
    BY DEF LoginAnswer, login, Server
  <1>2. CASE page = "login" /\ session = NoUser
    <2>1. Enter(u)
      BY <1>2 DEF LoginAnswer
    <2>. QED  BY <1>1, <1>2, <2>1, EnterInv
  <1>3. CASE ~(page = "login" /\ session = NoUser)
    <2>1. cache' = cache /\ nav' = nav
      BY <1>3 DEF LoginAnswer
    <2>2. Keys' = Keys
      BY <2>1 DEF Keys
    <2>3. TabType'
      BY <1>1, <2>1, <2>2, NoUserAssumption DEF TabInv, TabType
    <2>4. LogoutForgets'
      BY <1>1, NoUserAssumption DEF LogoutForgets
    <2>5. CASE session = NoUser
      <3>1. \A k \in Keys : cache[k] = Empty
        BY <2>5 DEF TabInv, LogoutForgets
      <3>2. cache \in [Keys -> Entries({u}, Mine(u))]
        BY <3>1, EmptyEntry DEF TabInv, TabType
      <3>3. Owned'
        BY <1>1, <2>1, <2>2, <3>2 DEF Owned
      <3>. QED  BY <2>3, <2>4, <3>3 DEF TabInv
    <2>6. CASE session = u
      BY <1>1, <2>1, <2>2, <2>3, <2>4, <2>6 DEF TabInv, Owned
    <2>7. CASE session \notin {NoUser, u}
      BY <1>1, <2>3, <2>4, <2>7 DEF TabInv
    <2>. QED  BY <2>5, <2>6, <2>7
  <1>. QED  BY <1>2, <1>3

LEMMA LogoutAnswerInv ==
  ASSUME TabInv, LogoutAnswer
  PROVE  TabInv'
  <1>1. session' = NoUser /\ nav' = {} /\ page' \in {"login", "error"}
        /\ UNCHANGED <<ledger, logins>> /\ cache' = [k \in Keys |-> Empty]
    BY DEF LogoutAnswer, logout, LeadToLogin, LogoutInvalidate, Server
  <1>2. Keys' = Keys
    BY <1>1 DEF Keys
  <1>3. cache' \in [Keys -> Entries(Users, Values)] /\ cache' \in [Keys -> Entries({NoUser}, Mine(NoUser))]
    BY <1>1, EmptyCache
  <1>4. TabType'
    BY <1>1, <1>2, <1>3, FormPages DEF TabInv, TabType
  <1>5. LogoutForgets' /\ Owned'
    BY <1>1, <1>2, <1>3 DEF LogoutForgets, Owned
  <1>. QED  BY <1>4, <1>5 DEF TabInv

----------------------------------------------------------------------------
LEMMA InitInv == Init => TabInv
  <1>. SUFFICES ASSUME Init PROVE TabInv
    OBVIOUS
  <1>1. PICK ks \in DOMAIN Visited :
          cache = [k \in ks |-> Empty] /\ ledger = [u \in Users |-> [k \in ks |-> 0]]
    BY DEF Init
  <1>2. Keys = ks
    BY <1>1 DEF Keys
  <1>3. session = NoUser /\ page = "login" /\ nav = {} /\ logins = {}
    BY DEF Init
  <1>4. cache \in [Keys -> Entries(Users, Values)] /\ cache \in [Keys -> Entries({NoUser}, Mine(NoUser))]
    BY <1>1, <1>2, EmptyCache
  <1>5. TabType
    BY <1>1, <1>2, <1>3, <1>4, FormPages DEF TabType
  <1>6. LogoutForgets /\ Owned
    BY <1>1, <1>2, <1>3, <1>4 DEF LogoutForgets, Owned
  <1>. QED  BY <1>5, <1>6 DEF TabInv

LEMMA NextInv == TabInv /\ [Next]_vars => TabInv'
  <1>. SUFFICES ASSUME TabInv, [Next]_vars PROVE TabInv'
    OBVIOUS
  <1>1. CASE TabStep
    BY <1>1, TabStepInv
  <1>2. CASE \E p \in Protected : Reload(p)
    BY <1>2, ReloadInv
  <1>3. CASE \E u \in Users : DefaultLogin(u)
    BY <1>3, DefaultLoginInv
  <1>4. CASE \E u \in Users : LoginAnswer(u)
    BY <1>4, LoginAnswerInv
  <1>5. CASE LogoutAnswer
    BY <1>5, LogoutAnswerInv
  <1>6. CASE UNCHANGED vars
    BY <1>6 DEF vars, TabInv, TabType, LogoutForgets, Owned, Keys
  <1>. QED
    BY <1>1, <1>2, <1>3, <1>4, <1>5, <1>6
    DEF Next, TabStep, PageStep, FetchStep, FormStep, QuietStep

LEMMA Invariance == Spec => []TabInv
  BY InitInv, NextInv, PTL DEF Spec

(* logoutInvalidateQuery leaves nothing of the customer behind, whatever    *)
(* was loading, being refetched or submitted, and nothing comes after it.   *)
THEOREM LogoutIsComplete == Spec => []LogoutForgets
  <1>1. TabInv => LogoutForgets
    BY DEF TabInv
  <1>. QED  BY <1>1, Invariance, PTL

(* The keys of the cache name no user, and still each page shows the data   *)
(* of the user who is logged in, if no login was answered after another.    *)
THEOREM NobodyElsesData == Spec => []OwnData
  <1>1. TabInv => OwnData
    <2>. SUFFICES ASSUME TabInv, ~overtaken, NEW k \in Keys
                  PROVE  /\ \A d \in cache[k].data : d.owner = session
                         /\ \A r \in cache[k].fetch : r.by = session
      BY DEF OwnData
    <2>1. cache[k] \in Entries({session}, Mine(session))
      BY DEF TabInv, Owned
    <2>2. cache[k].data \in SUBSET Mine(session) /\ cache[k].fetch \in SUBSET Requests({session}, Mine(session))
      BY <2>1, EntryIsRecord
    <2>. QED  BY <2>2 DEF Mine, Requests
  <1>. QED  BY <1>1, Invariance, PTL

----------------------------------------------------------------------------
(* Submissions: one in a slot; a form that is not told owes nothing, and one *)
(* that waits does so for the first key it owes.                             *)

JobOK(j) ==
    /\ j.phase # "settling" => j.todo = << >> /\ ~j.waiting
    /\ j.waiting => j.todo # << >> /\ Head(j.todo) \in Keys

JobsOK ==
    /\ jobs \in [Slots -> SUBSET Job]
    /\ \A s \in Slots : Single(jobs[s]) /\ \A j \in jobs[s] : JobOK(j)

(* The keys still to be invalidated; the one that is waited for has been. *)
Owes(j, k) == \E i \in 1..Len(j.todo) : j.todo[i] = k /\ ~(j.waiting /\ i = 1)

Unsettled(k) == \E s \in Slots : \E j \in jobs[s] : Owes(j, k)

LEMMA UnsettledThen ==
  ASSUME NEW k
  PROVE  Unsettled(k)' <=> \E s \in Slots : \E j \in jobs'[s] : Owes(j, k)
  BY DEF Unsettled, Owes

(* What a step does to the submissions if it ends no wait and begins none. *)
Carried(s) ==
    /\ \A j \in jobs[s], k \in Keys : Owes(j, k) => \E n \in jobs'[s] : Owes(n, k)
    /\ \A n \in jobs'[s] : n.waiting => \E j \in jobs[s] : j.waiting /\ j.todo = n.todo

LEMMA FormFacts ==
  ASSUME NEW d \in Actions
  PROVE  /\ d.onSuccess \in Seq(AllKeys)
         /\ \A k \in Announced(d) : \E i \in 1..Len(d.onSuccess) : d.onSuccess[i] = k
  <1>1. /\ "balance" \in AllKeys /\ "instruments" \in AllKeys /\ "transactions" \in AllKeys
        /\ "balance" # "transactions" /\ "instruments" # "transactions"
    BY DEF AllKeys
  <1>2. CASE d = [sends |-> {"balance"}, onSuccess |-> <<"balance">>]
    BY <1>1, <1>2 DEF Announced, quickBuy
  <1>3. CASE d = [sends |-> {"balance", "instruments", "transactions"},
                  onSuccess |-> <<"balance", "instruments">>]
    <2>1. Announced(d) \subseteq {"balance", "instruments"}
      BY <1>3 DEF Announced, quickBuy
    <2>2. d.onSuccess \in Seq(AllKeys) /\ Len(d.onSuccess) = 2
          /\ d.onSuccess[1] = "balance" /\ d.onSuccess[2] = "instruments"
      BY <1>1, <1>3
    <2>. QED  BY <2>1, <2>2
  <1>4. CASE d = [sends |-> {"transactions"}, onSuccess |-> <<"transactions">>]
    BY <1>1, <1>4 DEF Announced, quickBuy
  <1>. QED
    BY <1>2, <1>3, <1>4 DEF Actions, Forms, TabForms, Form, DepositForm, WithdrawForm, QuickBuyForm,
       QuickSellForm, BuyForm, SellForm, deposit, withdraw, quickBuy, quickSell, buy, sell,
       balanceInvalidateQuery, quickTransactionInvalidateQuery, transactionInvalidateQuery

LEMMA DetachedJob ==
  ASSUME NEW j \in Job
  PROVE  LET n == [j EXCEPT !.shown = FALSE]
         IN  n \in Job /\ n.phase = j.phase /\ n.todo = j.todo /\ n.waiting = j.waiting
  BY DEF Job

LEMMA SettlingJob ==
  ASSUME NEW j \in Job, j.todo # << >>
  PROVE  LET n == [j EXCEPT !.waiting = FALSE, !.todo = Tail(@)]
             m == [j EXCEPT !.todo = Tail(@)]
         IN  /\ n \in Job /\ n.phase = j.phase /\ n.todo = Tail(j.todo) /\ n.waiting = FALSE
             /\ m \in Job /\ m.phase = j.phase /\ m.todo = Tail(j.todo) /\ m.waiting = j.waiting
  <1>1. j.todo \in Seq(AllKeys) /\ Tail(j.todo) \in Seq(AllKeys)
    BY DEF Job
  <1>. QED  BY <1>1 DEF Job

(* The rest of what is owed follows the first key. *)
LEMMA OwesRest ==
  ASSUME NEW j \in Job, NEW k, Owes(j, k), NEW n, n.todo = Tail(j.todo), n.waiting = FALSE,
         j.waiting \/ k # Head(j.todo)
  PROVE  Owes(n, k)
  <1>1. j.todo \in Seq(AllKeys)
    BY DEF Job
  <1>2. PICK i \in 1..Len(j.todo) : j.todo[i] = k /\ ~(j.waiting /\ i = 1)
    BY DEF Owes
  <1>3. i # 1
    BY <1>1, <1>2
  <1>4. /\ i - 1 \in 1..Len(Tail(j.todo)) /\ Tail(j.todo)[i - 1] = j.todo[i]
    BY <1>1, <1>2, <1>3
  <1>. QED  BY <1>2, <1>4 DEF Owes

LEMMA JobsUntouched ==
  ASSUME JobsOK, Keys' = Keys, jobs' = jobs
  PROVE  JobsOK' /\ \A s \in Slots : Carried(s)
  BY DEF JobsOK, JobOK, Carried

LEMMA JobsDetached ==
  ASSUME JobsOK, Keys' = Keys, jobs' = [s \in Slots |-> Detached(jobs[s])]
  PROVE  JobsOK' /\ \A s \in Slots : Carried(s)
  <1>1. ASSUME NEW s \in Slots
        PROVE  /\ jobs'[s] \in SUBSET Job /\ Single(jobs'[s])
               /\ (\A n \in jobs'[s] : JobOK(n)') /\ Carried(s)
    <2>1. \A j \in jobs[s] : j \in Job /\ JobOK(j)
      BY DEF JobsOK
    <2>2. ASSUME NEW n \in jobs'[s]
          PROVE  \E j \in jobs[s] : n \in Job /\ n.phase = j.phase /\ n.todo = j.todo /\ n.waiting = j.waiting
      BY <2>1, DetachedJob DEF Detached
    <2>3. ASSUME NEW j \in jobs[s]
          PROVE  \E n \in jobs'[s] : n.todo = j.todo /\ n.waiting = j.waiting
      <3>1. [j EXCEPT !.shown = FALSE] \in jobs'[s]
        BY DEF Detached
      <3>. QED  BY <2>1, <3>1, DetachedJob
    <2>4. Single(jobs'[s])
      <3>1. \A x, y \in jobs[s] : x = y
        BY DEF JobsOK, Single
      <3>2. jobs'[s] = {[j EXCEPT !.shown = FALSE] : j \in jobs[s]}
        BY DEF Detached
      <3>3. ASSUME NEW x \in jobs'[s], NEW y \in jobs'[s] PROVE x = y
        <4>1. PICK i \in jobs[s] : x = [i EXCEPT !.shown = FALSE]
          BY <3>2
        <4>2. PICK j \in jobs[s] : y = [j EXCEPT !.shown = FALSE]
          BY <3>2
        <4>3. i = j
          BY <3>1
        <4>. QED  BY <4>1, <4>2, <4>3
      <3>. QED  BY <3>3 DEF Single
    <2>5. \A n \in jobs'[s] : JobOK(n)'
      BY <2>1, <2>2 DEF JobOK
    <2>. QED  BY <2>2, <2>3, <2>4, <2>5 DEF Carried, Owes
  <1>. QED  BY <1>1 DEF JobsOK

(* The refetch has ended: those that waited for it owe the rest. *)
LEMMA JobsReleased ==
  ASSUME JobsOK, Keys' = Keys, NEW k, Release(k)
  PROVE  /\ JobsOK' /\ \A s \in Slots : Carried(s)
         /\ \A s \in Slots : \A n \in jobs'[s] : n.waiting => Head(n.todo) # k
  <1>1. ASSUME NEW s \in Slots
        PROVE  /\ jobs'[s] \in SUBSET Job /\ Single(jobs'[s])
               /\ (\A n \in jobs'[s] : JobOK(n)') /\ Carried(s)
               /\ \A n \in jobs'[s] : n.waiting => Head(n.todo) # k
    <2>. DEFINE After(j) == IF j.waiting /\ Head(j.todo) = k
                            THEN [j EXCEPT !.waiting = FALSE, !.todo = Tail(@)] ELSE j
    <2>1. /\ jobs'[s] = {After(j) : j \in jobs[s]}
          /\ \A x, y \in jobs[s] : x = y
          /\ \A j \in jobs[s] : j \in Job /\ JobOK(j)
      BY DEF Release, JobsOK, Single
    <2>2. ASSUME NEW j \in jobs[s]
          PROVE  /\ After(j) \in Job /\ JobOK(After(j))
                 /\ \A h : Owes(j, h) => Owes(After(j), h)
                 /\ After(j).waiting => j.waiting /\ j.todo = After(j).todo /\ Head(j.todo) # k
      <3>1. CASE ~(j.waiting /\ Head(j.todo) = k)
        BY <2>1, <3>1
      <3>2. CASE j.waiting /\ Head(j.todo) = k
        <4>1. j.todo # << >> /\ j.phase = "settling"
          BY <2>1, <3>2 DEF JobOK
        <4>2. PICK n : n = After(j)
          OBVIOUS
        <4>3. n \in Job /\ n.phase = j.phase /\ n.todo = Tail(j.todo) /\ n.waiting = FALSE
          BY <2>1, <3>2, <4>1, <4>2, SettlingJob
        <4>. HIDE DEF After
        <4>4. JobOK(n)
          BY <4>1, <4>3 DEF JobOK
        <4>5. \A h : Owes(j, h) => Owes(n, h)
          BY <2>1, <3>2, <4>3, OwesRest
        <4>. QED  BY <4>2, <4>3, <4>4, <4>5
      <3>. QED  BY <3>1, <3>2
    <2>. HIDE DEF After
    <2>3. \A n \in jobs'[s] : \E j \in jobs[s] : n = After(j)
      BY <2>1
    <2>4. Single(jobs'[s])
      BY <2>1, <2>3 DEF Single
    <2>5. \A n \in jobs'[s] : JobOK(n)'
      BY <2>2, <2>3 DEF JobOK
    <2>. QED  BY <2>1, <2>2, <2>3, <2>4, <2>5 DEF Carried
  <1>. QED  BY <1>1 DEF JobsOK, Release

(* Only the one submission of a slot changes. *)
LEMMA JobReplaced ==
  ASSUME JobsOK, Keys' = Keys, NEW s \in Slots, NEW n \in Job, JobOK(n),
         jobs' = [jobs EXCEPT ![s] = {n}]
  PROVE  JobsOK' /\ jobs'[s] = {n} /\ \A t \in Slots \ {s} : jobs'[t] = jobs[t] /\ Carried(t)
  <1>1. jobs'[s] = {n} /\ \A t \in Slots \ {s} : jobs'[t] = jobs[t]
    BY DEF JobsOK
  <1>2. JobOK(n)' /\ \A j : JobOK(j) => JobOK(j)'
    BY DEF JobOK
  <1>3. JobsOK'
    BY <1>1, <1>2 DEF JobsOK, Single
  <1>. QED  BY <1>1, <1>3 DEF Carried

LEMMA JobGone ==
  ASSUME JobsOK, Keys' = Keys, NEW s \in Slots, jobs' = [jobs EXCEPT ![s] = {}]
  PROVE  JobsOK' /\ jobs'[s] = {} /\ \A t \in Slots \ {s} : jobs'[t] = jobs[t] /\ Carried(t)
  <1>1. jobs'[s] = {} /\ \A t \in Slots \ {s} : jobs'[t] = jobs[t]
    BY DEF JobsOK
  <1>2. \A j : JobOK(j) => JobOK(j)'
    BY DEF JobOK
  <1>3. JobsOK'
    BY <1>1, <1>2 DEF JobsOK, Single
  <1>. QED  BY <1>1, <1>3 DEF Carried

LEMMA NothingOwed ==
  ASSUME NEW j, JobOK(j), j.phase # "settling"
  PROVE  \A k : ~Owes(j, k)
  <1>1. Len(j.todo) = 0
    BY DEF JobOK
  <1>. QED  BY <1>1 DEF Owes

LEMMA JobsSubmitted ==
  ASSUME TabType, JobsOK, Keys' = Keys, NEW s \in Slots,
         (\E f \in Forms : Submit(s, f)) \/ Apply(s) \/ Reject(s)
  PROVE  JobsOK' /\ \A t \in Slots : Carried(t)
  <1>1. ASSUME NEW f \in Forms, Submit(s, f)
        PROVE  JobsOK' /\ Carried(s) /\ \A t \in Slots \ {s} : Carried(t)
    <2>1. PICK n : n = [does |-> f.does, by |-> session, shown |-> TRUE, waiting |-> FALSE,
                        phase |-> "sent", todo |-> <<>>]
      OBVIOUS
    <2>2. n \in Job /\ n.waiting = FALSE /\ JobOK(n)
      <3>1. session \in Users /\ f.does \in Actions
        BY <1>1 DEF Submit, TabType, Actions
      <3>2. << >> \in Seq(AllKeys)
        OBVIOUS
      <3>. QED  BY <2>1, <3>1, <3>2 DEF Job, JobOK
    <2>3. jobs' = [jobs EXCEPT ![s] = {n}] /\ jobs[s] = {}
      BY <1>1, <2>1 DEF Submit
    <2>4. JobsOK' /\ jobs'[s] = {n} /\ \A t \in Slots \ {s} : Carried(t)
      BY <2>2, <2>3, JobReplaced
    <2>. QED  BY <2>2, <2>3, <2>4 DEF Carried
  <1>2. CASE Apply(s)
    <2>1. PICK j \in jobs[s] : j.phase = "sent" /\ jobs' = [jobs EXCEPT ![s] = {[j EXCEPT !.phase = "applied"]}]
      BY <1>2 DEF Apply
    <2>2. PICK n : n = [j EXCEPT !.phase = "applied"]
      OBVIOUS
    <2>3. /\ j \in Job /\ JobOK(j) /\ \A i \in jobs[s] : i = j
          /\ n \in Job /\ n.todo = j.todo /\ n.waiting = j.waiting /\ n.phase = "applied"
      BY <2>1, <2>2 DEF JobsOK, Single, Job
    <2>4. JobOK(n)
      BY <2>1, <2>3 DEF JobOK
    <2>5. JobsOK' /\ jobs'[s] = {n} /\ \A t \in Slots \ {s} : Carried(t)
      BY <2>1, <2>2, <2>3, <2>4, JobReplaced
    <2>6. Carried(s)
      BY <2>3, <2>5 DEF Carried, Owes
    <2>. QED  BY <2>5, <2>6
  <1>3. CASE Reject(s)
    <2>1. PICK j \in jobs[s] : j.phase \in {"sent", "applied"} /\ jobs' = [jobs EXCEPT ![s] = {}]
      BY <1>3 DEF Reject
    <2>2. j \in Job /\ JobOK(j) /\ \A i \in jobs[s] : i = j
      BY DEF JobsOK, Single
    <2>3. \A k : ~Owes(j, k)
      BY <2>1, <2>2, NothingOwed DEF JobOK
    <2>4. JobsOK' /\ jobs'[s] = {} /\ \A t \in Slots \ {s} : Carried(t)
      BY <2>1, JobGone
    <2>. QED  BY <2>2, <2>3, <2>4 DEF Carried
  <1>. QED  BY <1>1, <1>2, <1>3

(* Told of success, a form owes the keys that its customer may expect.      *)
LEMMA JobsTold ==
  ASSUME JobsOK, Keys' = Keys, acked \in [Users -> [Keys -> Nat]], NEW s \in Slots, Accept(s)
  PROVE  /\ JobsOK' /\ \A t \in Slots : Carried(t)
         /\ \A k \in Keys : Unsettled(k)' \/ \A u \in Users : acked'[u][k] = acked[u][k]
  <1>1. PICK j \in jobs[s] :
          /\ j.phase = "applied"
          /\ jobs' = [jobs EXCEPT ![s] = {[j EXCEPT !.phase = "settling", !.todo = j.does.onSuccess]}]
          /\ acked' = [acked EXCEPT ![j.by] =
                [k \in Keys |-> IF k \in Announced(j.does) THEN ledger[j.by][k] ELSE acked[j.by][k]]]
    BY DEF Accept
  <1>2. PICK n : n = [j EXCEPT !.phase = "settling", !.todo = j.does.onSuccess]
    OBVIOUS
  <1>3. /\ j \in Job /\ JobOK(j) /\ \A i \in jobs[s] : i = j
        /\ j.does \in Actions /\ j.waiting = FALSE
    BY <1>1 DEF JobsOK, JobOK, Single, Job
  <1>4. /\ j.does.onSuccess \in Seq(AllKeys)
        /\ \A k \in Announced(j.does) : \E i \in 1..Len(j.does.onSuccess) : j.does.onSuccess[i] = k
    BY <1>3, FormFacts
  <1>5. n \in Job /\ n.todo = j.does.onSuccess /\ n.waiting = FALSE /\ n.phase = "settling"
    BY <1>2, <1>3, <1>4 DEF Job
  <1>6. JobsOK' /\ jobs'[s] = {n} /\ \A t \in Slots \ {s} : Carried(t)
    BY <1>1, <1>2, <1>5, JobReplaced DEF JobOK
  <1>7. Carried(s)
    <2>1. \A k : ~Owes(j, k)
      BY <1>1, <1>3, NothingOwed
    <2>. QED  BY <1>3, <1>5, <1>6, <2>1 DEF Carried
  <1>8. ASSUME NEW k \in Announced(j.does)
        PROVE  Unsettled(k)'
    <2>1. Owes(n, k)
      BY <1>4, <1>5 DEF Owes
    <2>. QED  BY <1>6, <2>1, UnsettledThen
  <1>9. ASSUME NEW k \in Keys, k \notin Announced(j.does), NEW u \in Users
        PROVE  acked'[u][k] = acked[u][k]
    BY <1>1, <1>9
  <1>. QED  BY <1>6, <1>7, <1>8, <1>9

(* One invalidation: of a key that is then owed no more, and waited for if   *)
(* it is observed.                                                           *)
LEMMA JobsSettle ==
  ASSUME JobsOK, Keys' = Keys, cache \in [Keys -> Entries(Users, Values)], NEW s \in Slots, Settle(s)
  PROVE  /\ JobsOK'
         /\ \A k \in Keys : \/ cache'[k] = cache[k] /\ (Unsettled(k) => Unsettled(k)')
                            \/ cache'[k] = Invalidate(cache[k], Observed(k), session)
         /\ \A t \in Slots : \A n \in jobs'[t] : n.waiting =>
                \/ \E j \in jobs[t] : j.waiting /\ j.todo = n.todo
                \/ /\ Observed(Head(n.todo))
                   /\ cache'[Head(n.todo)] = Invalidate(cache[Head(n.todo)], Observed(Head(n.todo)), session)
  <1>1. PICK j \in jobs[s] :
          /\ j.phase = "settling" /\ ~j.waiting
          /\ IF j.todo = <<>>
             THEN jobs' = [jobs EXCEPT ![s] = {}] /\ cache' = cache
             ELSE /\ cache' = [c \in Keys |-> IF c = Head(j.todo) THEN Invalidate(cache[c], Observed(c), session)
                                              ELSE cache[c]]
                  /\ jobs' = [jobs EXCEPT ![s] = {IF Awaited(Head(j.todo)) THEN [j EXCEPT !.waiting = TRUE]
                                                  ELSE [j EXCEPT !.todo = Tail(@)]}]
    BY DEF Settle
  <1>2. /\ j \in Job /\ JobOK(j) /\ \A i \in jobs[s] : i = j
        /\ j.waiting = FALSE /\ j.todo \in Seq(AllKeys)
    BY <1>1 DEF JobsOK, Single, Job
  <1>3. ASSUME NEW k, Unsettled(k) PROVE Owes(j, k) \/ \E t \in Slots \ {s} : \E i \in jobs[t] : Owes(i, k)
    BY <1>2, <1>3 DEF Unsettled
  <1>4. CASE j.todo = << >>
    <2>1. JobsOK' /\ jobs'[s] = {} /\ \A t \in Slots \ {s} : jobs'[t] = jobs[t]
      BY <1>1, <1>4, JobGone
    <2>2. \A k : ~Owes(j, k)
      BY <1>4 DEF Owes
    <2>3. \A k : Unsettled(k) => Unsettled(k)'
      BY <1>3, <2>1, <2>2, UnsettledThen
    <2>. QED  BY <1>1, <1>4, <2>1, <2>3
  <1>5. ASSUME j.todo # << >>, NEW n \in Job, JobOK(n), jobs' = [jobs EXCEPT ![s] = {n}],
               \A k : Owes(j, k) => k = Head(j.todo) \/ Owes(n, k),
               n.waiting => n.todo = j.todo /\ Observed(Head(j.todo)) /\ Head(j.todo) \in Keys
        PROVE  /\ JobsOK'
               /\ \A k \in Keys : \/ cache'[k] = cache[k] /\ (Unsettled(k) => Unsettled(k)')
                                  \/ cache'[k] = Invalidate(cache[k], Observed(k), session)
               /\ \A t \in Slots : \A m \in jobs'[t] : m.waiting =>
                      \/ \E i \in jobs[t] : i.waiting /\ i.todo = m.todo
                      \/ /\ Observed(Head(m.todo))
                         /\ cache'[Head(m.todo)] = Invalidate(cache[Head(m.todo)], Observed(Head(m.todo)), session)
    <2>1. JobsOK' /\ jobs'[s] = {n} /\ \A t \in Slots \ {s} : jobs'[t] = jobs[t]
      BY <1>5, JobReplaced
    <2>2. cache' = [c \in Keys |-> IF c = Head(j.todo) THEN Invalidate(cache[c], Observed(c), session)
                                   ELSE cache[c]]
      BY <1>1, <1>5
    <2>3. ASSUME NEW k \in Keys, k # Head(j.todo), Unsettled(k) PROVE Unsettled(k)'
      BY <1>3, <1>5, <2>1, <2>3, UnsettledThen
    <2>4. \A k \in Keys : \/ cache'[k] = cache[k] /\ (Unsettled(k) => Unsettled(k)')
                          \/ cache'[k] = Invalidate(cache[k], Observed(k), session)
      BY <2>2, <2>3
    <2>. QED  BY <1>5, <2>1, <2>2, <2>4
  <1>6. CASE j.todo # << >> /\ Awaited(Head(j.todo))
    <2>1. PICK n : n = [j EXCEPT !.waiting = TRUE]
      OBVIOUS
    <2>2. n \in Job /\ n.todo = j.todo /\ n.waiting = TRUE /\ n.phase = "settling"
      BY <1>1, <1>2, <2>1 DEF Job
    <2>3. ASSUME NEW k, Owes(j, k) PROVE k = Head(j.todo) \/ Owes(n, k)
      <3>1. PICK i \in 1..Len(j.todo) : j.todo[i] = k
        BY <2>3 DEF Owes
      <3>2. i = 1 => k = Head(j.todo)
        BY <1>2, <1>6, <3>1
      <3>. QED  BY <2>2, <3>1, <3>2 DEF Owes
    <2>4. JobOK(n)
      BY <1>6, <2>2 DEF JobOK, Awaited
    <2>5. jobs' = [jobs EXCEPT ![s] = {n}]
      BY <1>1, <1>6, <2>1
    <2>6. Observed(Head(j.todo)) /\ Head(j.todo) \in Keys
      BY <1>6 DEF Awaited
    <2>. QED  BY <1>5, <1>6, <2>2, <2>3, <2>4, <2>5, <2>6
  <1>7. CASE j.todo # << >> /\ ~Awaited(Head(j.todo))
    <2>1. PICK n : n = [j EXCEPT !.todo = Tail(@)]
      OBVIOUS
    <2>2. n \in Job /\ n.todo = Tail(j.todo) /\ n.waiting = FALSE /\ n.phase = "settling"
      BY <1>1, <1>2, <1>7, <2>1, SettlingJob
    <2>3. \A k : Owes(j, k) => k = Head(j.todo) \/ Owes(n, k)
      BY <1>2, <2>2, OwesRest
    <2>4. JobOK(n)
      BY <2>2 DEF JobOK
    <2>5. jobs' = [jobs EXCEPT ![s] = {n}]
      BY <1>1, <1>7, <2>1
    <2>. QED  BY <1>5, <1>7, <2>2, <2>3, <2>4, <2>5
  <1>. QED  BY <1>4, <1>6, <1>7

(* After a reload and after a logout nobody waits. *)
LEMMA JobsCutOff ==
  ASSUME JobsOK, Keys' = Keys, LogoutAnswer \/ \E p \in Protected : Reload(p)
  PROVE  JobsOK' /\ \A s \in Slots : \A n \in jobs'[s] : ~n.waiting
  <1>1. CASE \E p \in Protected : Reload(p)
    <2>1. jobs' = [s \in Slots |-> {}]
      BY <1>1 DEF Reload
    <2>. QED  BY <2>1 DEF JobsOK, Single
  <1>2. CASE LogoutAnswer
    <2>. DEFINE After(j) == IF j.waiting THEN [j EXCEPT !.waiting = FALSE, !.todo = Tail(@), !.shown = FALSE]
                            ELSE [j EXCEPT !.shown = FALSE]
    <2>1. jobs' = [s \in Slots |-> {After(j) : j \in jobs[s]}]
      BY <1>2 DEF LogoutAnswer
    <2>2. ASSUME NEW j \in Job, JobOK(j)
          PROVE  After(j) \in Job /\ JobOK(After(j)) /\ ~After(j).waiting
      <3>1. j.todo \in Seq(AllKeys) /\ j.waiting \in BOOLEAN
        BY DEF Job
      <3>2. CASE j.waiting
        <4>1. PICK n : n = After(j)
          OBVIOUS
        <4>2. Tail(j.todo) \in Seq(AllKeys) /\ j.phase = "settling"
          BY <2>2, <3>1, <3>2 DEF JobOK
        <4>3. n \in Job /\ n.phase = j.phase /\ n.waiting = FALSE
          BY <3>2, <4>1, <4>2 DEF Job
        <4>. HIDE DEF After
        <4>. QED  BY <4>1, <4>2, <4>3 DEF JobOK
      <3>3. CASE ~j.waiting
        <4>1. PICK n : n = After(j)
          OBVIOUS
        <4>2. n \in Job /\ n.phase = j.phase /\ n.waiting = j.waiting /\ n.todo = j.todo
          BY <3>3, <4>1, DetachedJob
        <4>. HIDE DEF After
        <4>. QED  BY <2>2, <3>3, <4>1, <4>2 DEF JobOK
      <3>. QED  BY <3>2, <3>3
    <2>. HIDE DEF After
    <2>3. ASSUME NEW s \in Slots
          PROVE  /\ jobs'[s] \in SUBSET Job /\ Single(jobs'[s])
                 /\ \A n \in jobs'[s] : JobOK(n)' /\ ~n.waiting
      <3>1. jobs'[s] = {After(j) : j \in jobs[s]} /\ (\A x, y \in jobs[s] : x = y)
            /\ \A j \in jobs[s] : j \in Job /\ JobOK(j)
        BY <2>1 DEF JobsOK, Single
      <3>2. \A n \in jobs'[s] : \E j \in jobs[s] : n = After(j)
        BY <3>1
      <3>3. Single(jobs'[s])
        BY <3>1, <3>2 DEF Single
      <3>4. \A n \in jobs'[s] : JobOK(n)' /\ ~n.waiting
        BY <2>2, <3>1, <3>2 DEF JobOK
      <3>. QED  BY <2>2, <3>1, <3>2, <3>3, <3>4
    <2>. QED  BY <2>1, <2>3 DEF JobsOK
  <1>. QED  BY <1>1, <1>2

----------------------------------------------------------------------------
(* What a step does to an entry of the cache *)

Restarts == LogoutAnswer \/ \E p \in Protected : Reload(p)
Asks(k) == \E u \in Users \union {NoUser} : cache'[k] \in {EnsureData(cache[k], u), Mount(cache[k], u)}
Invalidates(k) == cache'[k] = Invalidate(cache[k], Observed(k), session)
Fetches(k) == Serve(k) \/ Receive(k) \/ FetchFails(k) \/ TurnStale(k) \/ Collect(k)

LEMMA KeysKept ==
  ASSUME TabInv, [Next]_vars
  PROVE  Keys' = Keys
  <1>1. CASE TabStep
    BY <1>1, TabStepType DEF TabInv
  <1>2. CASE UNCHANGED cache
    BY <1>2 DEF Keys
  <1>3. CASE Restarts \/ \E u \in Users : DefaultLogin(u) \/ LoginAnswer(u)
    BY <1>2, <1>3 DEF Restarts, LogoutAnswer, Reload, DefaultLogin, LoginAnswer, Enter, Loading, Keys
  <1>. QED
    BY <1>1, <1>2, <1>3 DEF Next, TabStep, PageStep, FetchStep, FormStep, QuietStep, Restarts, vars

LEMMA EntryStep ==
  ASSUME TabInv, JobsOK, [Next]_vars, NEW k \in Keys
  PROVE  \/ cache'[k] = cache[k] \/ Asks(k) \/ Invalidates(k) \/ Fetches(k) \/ Restarts
  <1>1. session \in Users \union {NoUser} /\ cache \in [Keys -> Entries(Users, Values)]
    BY DEF TabInv, TabType
  <1>2. \A p, u : Loading(cache, p, u)[k] = IF k \in LoaderKeys(p) THEN EnsureData(cache[k], u) ELSE cache[k]
    BY DEF Loading
  <1>3. CASE PageStep
    BY <1>1, <1>2, <1>3 DEF PageStep, Navigate, Arrive, OpenInstrument, InstrumentMissing, SwitchTab, Load, Asks
  <1>4. ASSUME NEW h \in Keys, Serve(h) \/ Receive(h) \/ FetchFails(h) \/ TurnStale(h) \/ Refocus(h) \/ Collect(h)
        PROVE  cache'[k] = cache[k] \/ Asks(k) \/ Fetches(k)
    <2>1. CASE Refocus(h)
      BY <1>1, <2>1 DEF Refocus, Asks
    <2>2. CASE k = h /\ ~Refocus(h)
      BY <1>4, <2>2 DEF Fetches
    <2>3. CASE k # h
      BY <1>1, <1>4, <2>3 DEF Serve, Receive, FetchFails, TurnStale, Refocus, Collect
    <2>. QED  BY <2>1, <2>2, <2>3
  <1>5. ASSUME NEW s \in Slots, Settle(s)
        PROVE  cache'[k] = cache[k] \/ Invalidates(k)
    <2>1. Keys' = Keys
      BY <1>5, KeysKept DEF Next
    <2>. QED  BY <1>1, <1>5, <2>1, JobsSettle DEF Invalidates
  <1>6. CASE UNCHANGED cache
    BY <1>6
  <1>7. CASE \E u \in Users : DefaultLogin(u) \/ LoginAnswer(u)
    BY <1>1, <1>2, <1>6, <1>7 DEF DefaultLogin, LoginAnswer, Enter, Asks
  <1>. QED
    BY <1>3, <1>4, <1>5, <1>6, <1>7
    DEF Next, PageStep, Restarts, Apply, Accept, Reject, Submit, SendLogin, LoginFails, SendLogout, LogoutFails, vars

(* After a logout and after a reload an entry is empty or asked for anew. *)
LEMMA EntryRestarts ==
  ASSUME TabInv, Restarts, NEW k \in Keys
  PROVE  cache'[k] = Empty \/ cache'[k] = EnsureData(Empty, session)
  BY DEF Restarts, LogoutAnswer, LogoutInvalidate, Reload, Loading

(* The answer that lands, or the empty list in its place. *)
LEMMA EntryFails ==
  ASSUME TabInv, NEW k \in Keys, Lone(cache[k]), FetchFails(k)
  PROVE  \/ cache'[k] = Fail(cache[k]) /\ OnFailure[k] = Throws
         \/ \E u \in Users : cache'[k] =
              [data |-> {[owner |-> u, version |-> NoVersion]}, stale |-> FALSE,
               raced |-> cache'[k].raced, fetch |-> {}]
  <1>1. PICK r \in cache[k].fetch : cache' = [cache EXCEPT ![k] =
          IF OnFailure[k] = Throws THEN Fail(cache[k])
          ELSE Land(Answer(cache[k], [owner |-> r.by, version |-> NoVersion]))]
    BY DEF FetchFails
  <1>2. cache[k] \in Entries(Users, Values) /\ cache \in [Keys -> Entries(Users, Values)]
    BY DEF TabInv, TabType
  <1>3. r \in Requests(Users, Values)
    BY <1>2, EntryIsRecord
  <1>4. r.by \in Users
    BY <1>3 DEF Requests
  <1>5. PICK v : v = [owner |-> r.by, version |-> NoVersion]
    OBVIOUS
  <1>6. PICK q : q = [r EXCEPT !.got = {v}]
    OBVIOUS
  <1>7. q.got = {v}
    BY <1>3, <1>6 DEF Requests
  <1>8. q \in Answer(cache[k], v).fetch /\ Lone(Answer(cache[k], v))
    <2>1. q \in {[x EXCEPT !.got = {v}] : x \in cache[k].fetch}
      BY <1>6
    <2>2. Answer(cache[k], v).fetch = {[x EXCEPT !.got = {v}] : x \in cache[k].fetch}
      BY <1>2, EntryIsRecord DEF Answer
    <2>. QED  BY <1>2, <2>1, <2>2, LoneAnswer
  <1>9. Land(Answer(cache[k], v)) = [data |-> {v}, stale |-> FALSE, raced |-> q.raced, fetch |-> {}]
    BY <1>7, <1>8, LandLone
  <1>10. CASE OnFailure[k] = Throws
    BY <1>1, <1>2, <1>10
  <1>11. CASE OnFailure[k] # Throws
    <2>1. cache'[k] = [data |-> {v}, stale |-> FALSE, raced |-> q.raced, fetch |-> {}]
      BY <1>1, <1>2, <1>5, <1>9, <1>11
    <2>2. cache'[k].raced = q.raced
      BY <2>1
    <2>. QED  BY <1>4, <1>5, <2>1, <2>2
  <1>. QED  BY <1>10, <1>11

LEMMA EntryLone ==
  ASSUME TabInv, JobsOK, [Next]_vars, NEW k \in Keys, Lone(cache[k])
  PROVE  Lone(cache'[k])
  <1>1. cache[k] \in Entries(Users, Values) /\ cache \in [Keys -> Entries(Users, Values)]
    BY DEF TabInv, TabType
  <1>2. CASE Asks(k)
    BY <1>1, <1>2, LoneFetch DEF Asks
  <1>3. CASE Invalidates(k)
    BY <1>1, <1>3, LoneInvalidate DEF Invalidates
  <1>4. CASE Restarts
    <2>1. Empty \in Entries(Users, Values)
      BY EmptyEntry
    <2>. QED  BY <1>4, <2>1, EntryRestarts, LoneEmpty, LoneFetch
  <1>5. CASE Serve(k)
    BY <1>1, <1>5, LoneAnswer DEF Serve
  <1>6. CASE Receive(k)
    BY <1>1, <1>6, LoneLand DEF Receive, Answered
  <1>7. CASE FetchFails(k)
    <2>1. CASE cache'[k] = Fail(cache[k])
      <3>1. Fail(cache[k]).data = cache[k].data /\ Fail(cache[k]).fetch = {}
        BY <1>1, EntryIsRecord DEF Fail
      <3>. QED  BY <2>1, <3>1 DEF Lone, Single
    <2>2. ASSUME NEW u \in Users, cache'[k] =
                   [data |-> {[owner |-> u, version |-> NoVersion]}, stale |-> FALSE,
                    raced |-> cache'[k].raced, fetch |-> {}]
          PROVE  Lone(cache'[k])
      BY <2>2 DEF Lone, Single
    <2>. QED  BY <1>7, <2>1, <2>2, EntryFails
  <1>8. CASE TurnStale(k) \/ Collect(k)
    BY <1>1, <1>8, LoneEmpty, EntryIsRecord DEF TurnStale, Collect, Lone
  <1>. QED  BY <1>2, <1>3, <1>4, <1>5, <1>6, <1>7, <1>8, EntryStep DEF Fetches

----------------------------------------------------------------------------
(* Whoever waits for a fetch waits for one that is under way *)

(* The keys that loaders wait for have providers that do not throw. *)
LEMMA LoadersGetAnswers ==
  ASSUME NEW p, NEW k \in LoaderKeys(p)
  PROVE  OnFailure[k] # Throws
  <1>1. k \in {"instruments", "transactions"}
    BY DEF LoaderKeys
  <1>. QED  BY <1>1 DEF OnFailure, Throws, getInstruments, getTransactions

LEMMA EntryGoesOn ==
  ASSUME TabInv, JobsOK, [Next]_vars, NEW k \in Keys, Lone(cache[k]), ~Restarts
  PROVE  /\ cache[k].fetch # {} => cache'[k].fetch # {} \/ Receive(k) \/ FetchFails(k)
         /\ cache[k].data # {} \/ cache[k].fetch # {} =>
                \/ cache'[k].data # {} \/ cache'[k].fetch # {}
                \/ Collect(k)
                \/ FetchFails(k) /\ OnFailure[k] = Throws
  <1>1. cache[k] \in Entries(Users, Values) /\ cache \in [Keys -> Entries(Users, Values)]
    BY DEF TabInv, TabType
  <1>2. CASE Asks(k)
    BY <1>1, <1>2, EntryIsRecord DEF Asks, EnsureData, Mount, Fetch
  <1>3. CASE Invalidates(k)
    <2>1. Overtaken(cache[k].fetch) # {} <=> cache[k].fetch # {}
      BY <1>1, EntryIsRecord, OvertakenRaced
    <2>. QED  BY <1>1, <1>3, <2>1, EntryIsRecord DEF Invalidates, Invalidate
  <1>4. CASE Serve(k)
    <2>1. PICK r \in cache[k].fetch :
            cache' = [cache EXCEPT ![k] = Answer(cache[k], [owner |-> r.by, version |-> ledger[r.by][k]])]
      BY <1>4 DEF Serve
    <2>2. PICK v : v = [owner |-> r.by, version |-> ledger[r.by][k]]
      OBVIOUS
    <2>3. Answer(cache[k], v).fetch = {[x EXCEPT !.got = {v}] : x \in cache[k].fetch}
      BY <1>1, EntryIsRecord DEF Answer
    <2>4. [r EXCEPT !.got = {v}] \in Answer(cache[k], v).fetch
      BY <2>1, <2>3
    <2>. QED  BY <1>1, <2>1, <2>2, <2>4
  <1>5. CASE Receive(k)
    <2>1. PICK r \in cache[k].fetch : r.got # {}
      BY <1>5 DEF Receive, Answered
    <2>2. Land(cache[k]).data = r.got
      BY <2>1, LandLone
    <2>. QED  BY <1>1, <1>5, <2>1, <2>2 DEF Receive
  <1>6. CASE FetchFails(k)
    <2>1. ASSUME NEW u \in Users, cache'[k] = [data |-> {[owner |-> u, version |-> NoVersion]}, stale |-> FALSE,
                                               raced |-> cache'[k].raced, fetch |-> {}]
          PROVE  cache'[k].data # {}
      <3>1. cache'[k].data = {[owner |-> u, version |-> NoVersion]}
        BY <2>1
      <3>. QED  BY <3>1
    <2>. QED  BY <1>6, <2>1, EntryFails
  <1>7. CASE TurnStale(k)
    BY <1>1, <1>7, EntryIsRecord DEF TurnStale
  <1>8. CASE Collect(k)
    BY <1>8 DEF Collect
  <1>. QED  BY <1>2, <1>3, <1>4, <1>5, <1>6, <1>7, <1>8, EntryStep DEF Fetches

LEMMA InvalidatedFetches ==
  ASSUME TabInv, NEW k \in Keys, Observed(k), Invalidates(k)
  PROVE  cache'[k].fetch # {}
  <1>1. cache[k] \in Entries(Users, Values)
    BY DEF TabInv, TabType
  <1>2. Overtaken(cache[k].fetch) # {} <=> cache[k].fetch # {}
    BY <1>1, EntryIsRecord, OvertakenRaced
  <1>. QED  BY <1>1, <1>2, EntryIsRecord DEF Invalidates, Invalidate

(* A page that begins to load asks for what its loaders miss. *)
LEMMA LoadingAsks ==
  ASSUME NEW c \in [Keys -> Entries(Users, Values)], NEW p, NEW u, NEW k \in LoaderKeys(p) \intersect Keys
  PROVE  Loading(c, p, u)[k].data # {} \/ Loading(c, p, u)[k].fetch # {}
  BY EntryIsRecord DEF Loading, EnsureData, Fetch

LEMMA NavStep ==
  ASSUME TabInv, [Next]_vars
  PROVE  \/ nav' = nav /\ ~Restarts
         \/ nav' = {}
         \/ \E p \in Protected, c \in [Keys -> Entries(Users, Values)], u \in Users \union {NoUser} :
                nav' = {p} /\ cache' = Loading(c, p, u)
  <1>1. session \in Users \union {NoUser} /\ cache \in [Keys -> Entries(Users, Values)]
        /\ [k \in Keys |-> Empty] \in [Keys -> Entries(Users, Values)]
    BY EmptyCache DEF TabInv, TabType
  <1>2. CASE Restarts
    BY <1>1, <1>2 DEF Restarts, LogoutAnswer, Reload
  <1>3. ASSUME NEW p \in Protected, NEW u \in Users \union {NoUser}, nav' = {p}, cache' = Loading(cache, p, u)
        PROVE  \E q \in Protected, c \in [Keys -> Entries(Users, Values)], v \in Users \union {NoUser} :
                  nav' = {q} /\ cache' = Loading(c, q, v)
    BY <1>1, <1>3
  <1>4. CASE \/ \E p \in Protected : Navigate(p) \/ Arrive(p)
             \/ OpenInstrument \/ InstrumentMissing
    <2>1. ASSUME NEW p \in Protected, Load(p)
          PROVE  \E q \in Protected, c \in [Keys -> Entries(Users, Values)], v \in Users \union {NoUser} :
                    nav' = {q} /\ cache' = Loading(c, q, v)
      BY <1>1, <1>3, <2>1 DEF Load
    <2>2. "quick-buy" \in Protected /\ "instruments" \in Protected
      BY FormPages
    <2>. QED  BY <1>4, <2>1, <2>2 DEF Navigate, Arrive, OpenInstrument, InstrumentMissing
  <1>5. CASE UNCHANGED nav
    BY <1>2, <1>5
  <1>6. CASE \E u \in Users : DefaultLogin(u) \/ LoginAnswer(u)
    <2>1. ASSUME NEW u \in Users, Enter(u)
          PROVE  \E q \in Protected, c \in [Keys -> Entries(Users, Values)], v \in Users \union {NoUser} :
                    nav' = {q} /\ cache' = Loading(c, q, v)
      BY <1>3, <2>1, FormPages DEF Enter
    <2>. QED  BY <1>5, <1>6, <2>1 DEF DefaultLogin, LoginAnswer
  <1>. QED
    BY <1>2, <1>4, <1>5, <1>6 DEF Next, Restarts, SwitchTab, Serve, Receive, FetchFails, TurnStale, Refocus, Collect,
       Apply, Accept, Reject, Settle, Submit, SendLogin, LoginFails, SendLogout, LogoutFails, vars

LEMMA LoadersGoOn ==
  ASSUME TabInv, JobsOK, [Next]_vars, \A k \in Keys : Lone(cache[k]), NobodyWaitsInVain
  PROVE  \A p \in nav' : \A k \in LoaderKeys(p) \intersect Keys : cache'[k].data # {} \/ cache'[k].fetch # {}
  <1>. SUFFICES ASSUME NEW p \in nav', NEW k \in LoaderKeys(p) \intersect Keys
                PROVE  cache'[k].data # {} \/ cache'[k].fetch # {}
    OBVIOUS
  <1>1. CASE nav' = nav /\ ~Restarts
    <2>1. cache[k].data # {} \/ cache[k].fetch # {}
      BY <1>1 DEF NobodyWaitsInVain
    <2>2. ~Collect(k)
      BY <1>1 DEF Collect
    <2>3. OnFailure[k] # Throws
      BY LoadersGetAnswers
    <2>. QED  BY <1>1, <2>1, <2>2, <2>3, EntryGoesOn
  <1>2. ASSUME NEW q \in Protected, NEW c \in [Keys -> Entries(Users, Values)], NEW u \in Users \union {NoUser},
               nav' = {q}, cache' = Loading(c, q, u)
        PROVE  cache'[k].data # {} \/ cache'[k].fetch # {}
    BY <1>2, LoadingAsks
  <1>. QED  BY <1>1, <1>2, NavStep

----------------------------------------------------------------------------
(* The versions customers were told of, and what counts as fresh *)

AckOK ==
    /\ acked \in [Users -> [Keys -> Nat]]
    /\ \A u \in Users, k \in Keys : acked[u][k] <= ledger[u][k]

Recent(k) == {v \in Values : v.version = NoVersion \/ v.version >= acked[v.owner][k]}

SessionInv ==
    /\ TabInv /\ JobsOK /\ AckOK
    /\ logouts \in 0..MaxLogouts /\ overtaken \in BOOLEAN /\ Keys \in DOMAIN Visited
    /\ NobodyWaitsInVain
    /\ \A k \in Keys : Lone(cache[k]) /\ (Unsettled(k) \/ Sound(cache[k], Recent(k)))

LEMMA CarriedUnsettled ==
  ASSUME \A s \in Slots : Carried(s), NEW k \in Keys, Unsettled(k)
  PROVE  Unsettled(k)'
  BY UnsettledThen DEF Carried, Unsettled

LEMMA JobsStep ==
  ASSUME TabInv, JobsOK, AckOK, [Next]_vars
  PROVE  /\ JobsOK'
         /\ \A k \in Keys : Unsettled(k) => Unsettled(k)' \/ Invalidates(k) \/ Restarts
         /\ \A s \in Slots : \A n \in jobs'[s] : n.waiting =>
                \/ \E j \in jobs[s] : j.waiting /\ j.todo = n.todo
                \/ Observed(Head(n.todo)) /\ Invalidates(Head(n.todo))
  <1>1. Keys' = Keys /\ TabType /\ cache \in [Keys -> Entries(Users, Values)] /\ acked \in [Users -> [Keys -> Nat]]
    BY KeysKept DEF TabInv, TabType, AckOK
  <1>2. CASE JobsOK' /\ \A s \in Slots : Carried(s)
    BY <1>2, CarriedUnsettled DEF Carried
  <1>3. CASE \/ UNCHANGED jobs
             \/ jobs' = [s \in Slots |-> Detached(jobs[s])]
             \/ \E k \in Keys : Release(k)
             \/ \E s \in Slots : (\E f \in Forms : Submit(s, f)) \/ Apply(s) \/ Reject(s) \/ Accept(s)
    BY <1>1, <1>2, <1>3, JobsUntouched, JobsDetached, JobsReleased, JobsSubmitted, JobsTold
  <1>4. CASE \E s \in Slots : Settle(s)
    <2>1. PICK s \in Slots : Settle(s)
      BY <1>4
    <2>. QED  BY <1>1, <2>1, JobsSettle DEF Invalidates
  <1>5. CASE Restarts
    BY <1>1, <1>5, JobsCutOff DEF Restarts
  <1>. QED
    BY <1>3, <1>4, <1>5 DEF Next, Restarts, Navigate, Arrive, OpenInstrument, InstrumentMissing, SwitchTab,
       Serve, Receive, FetchFails, TurnStale, Refocus, Collect, DefaultLogin, SendLogin, LoginAnswer,
       LoginFails, SendLogout, LogoutFails, vars

LEMMA FormsGoOn ==
  ASSUME SessionInv, [Next]_vars, NEW s \in Slots, NEW n \in jobs'[s], n.waiting
  PROVE  n.todo # << >> /\ cache'[Head(n.todo)].fetch # {}
  <1>1. /\ TabInv /\ JobsOK /\ AckOK /\ NobodyWaitsInVain /\ Keys' = Keys
        /\ \A k \in Keys : Lone(cache[k])
    BY KeysKept DEF SessionInv
  <1>2. ~Restarts
    BY <1>1, JobsCutOff DEF Restarts
  <1>3. \A k \in Keys : Release(k) => Head(n.todo) # k
    BY <1>1, JobsReleased
  <1>4. JobsOK' /\ JobOK(n)'
    BY <1>1, JobsStep DEF JobsOK
  <1>5. n.todo # << >> /\ Head(n.todo) \in Keys
    BY <1>1, <1>4 DEF JobOK
  <1>6. ~Receive(Head(n.todo)) /\ ~FetchFails(Head(n.todo))
    BY <1>3, <1>5 DEF Receive, FetchFails
  <1>7. ASSUME NEW j \in jobs[s], j.waiting, j.todo = n.todo
        PROVE  cache'[Head(n.todo)].fetch # {}
    <2>1. cache[Head(n.todo)].fetch # {}
      BY <1>1, <1>7 DEF NobodyWaitsInVain
    <2>. QED  BY <1>1, <1>2, <1>5, <1>6, <2>1, EntryGoesOn
  <1>8. CASE Observed(Head(n.todo)) /\ Invalidates(Head(n.todo))
    BY <1>1, <1>5, <1>8, InvalidatedFetches
  <1>. QED  BY <1>1, <1>5, <1>7, <1>8, JobsStep

(* A customer is told of what the server has by then. *)
LEMMA AckStep ==
  ASSUME TabInv, JobsOK, AckOK, [Next]_vars
  PROVE  AckOK' /\ \A k \in Keys : Unsettled(k)' \/ \A u \in Users : acked'[u][k] = acked[u][k]
  <1>1. Keys' = Keys /\ ledger \in [Users -> [Keys -> Nat]] /\ acked \in [Users -> [Keys -> Nat]]
        /\ \A u \in Users, k \in Keys : acked[u][k] <= ledger[u][k]
    BY KeysKept DEF TabInv, TabType, AckOK
  <1>2. ASSUME NEW s \in Slots, Apply(s)
        PROVE  acked' = acked /\ \A u \in Users, k \in Keys : acked[u][k] <= ledger'[u][k]
    <2>1. PICK j \in jobs[s] : ledger' = [ledger EXCEPT ![j.by] =
              [k \in Keys |-> IF k \in j.does.sends THEN ledger[j.by][k] + 1 ELSE ledger[j.by][k]]]
      BY <1>2 DEF Apply
    <2>2. ASSUME NEW u \in Users, NEW k \in Keys
          PROVE  acked[u][k] <= ledger'[u][k]
      <3>1. ledger[u][k] \in Nat /\ acked[u][k] \in Nat /\ acked[u][k] <= ledger[u][k]
        BY <1>1
      <3>2. ledger'[u][k] = ledger[u][k] \/ ledger'[u][k] = ledger[u][k] + 1
        BY <1>1, <2>1
      <3>. QED  BY <3>1, <3>2
    <2>. QED  BY <1>2, <2>2 DEF Apply
  <1>3. ASSUME NEW s \in Slots, Accept(s)
        PROVE  /\ acked' \in [Users -> [Keys -> Nat]]
               /\ ledger' = ledger /\ \A u \in Users, k \in Keys : acked'[u][k] <= ledger[u][k]
    <2>1. PICK j \in jobs[s] : acked' = [acked EXCEPT ![j.by] =
              [k \in Keys |-> IF k \in Announced(j.does) THEN ledger[j.by][k] ELSE acked[j.by][k]]]
      BY <1>3 DEF Accept
    <2>2. j.by \in Users
      BY DEF JobsOK, Job
    <2>3. [k \in Keys |-> IF k \in Announced(j.does) THEN ledger[j.by][k] ELSE acked[j.by][k]] \in [Keys -> Nat]
      BY <1>1, <2>2
    <2>4. ASSUME NEW u \in Users, NEW k \in Keys
          PROVE  acked'[u][k] <= ledger[u][k]
      <3>1. ledger[u][k] \in Nat /\ acked[u][k] \in Nat /\ acked[u][k] <= ledger[u][k]
        BY <1>1
      <3>2. acked'[u][k] = ledger[u][k] \/ acked'[u][k] = acked[u][k]
        BY <1>1, <2>1
      <3>. QED  BY <3>1, <3>2
    <2>. QED  BY <1>1, <1>3, <2>1, <2>3, <2>4 DEF Accept
  <1>4. CASE UNCHANGED Server
    BY <1>1, <1>4 DEF Server, AckOK
  <1>5. CASE \E s \in Slots : Apply(s)
    BY <1>1, <1>2, <1>5 DEF AckOK
  <1>6. CASE \E s \in Slots : Accept(s)
    BY <1>1, <1>3, <1>6, JobsTold DEF AckOK
  <1>. QED
    BY <1>4, <1>5, <1>6 DEF Next, Navigate, Arrive, OpenInstrument, InstrumentMissing, SwitchTab, Reload,
       Serve, Receive, FetchFails, TurnStale, Refocus, Collect, Submit, Reject, Settle, DefaultLogin,
       SendLogin, LoginAnswer, LoginFails, SendLogout, LogoutAnswer, LogoutFails, vars, Server

(* What an entry holds is recent enough, unless it is still to be invalidated. *)
LEMMA EntrySound ==
  ASSUME SessionInv, [Next]_vars, NEW k \in Keys
  PROVE  Unsettled(k)' \/ Sound(cache'[k], Recent(k)')
  <1>1. /\ TabInv /\ JobsOK /\ AckOK /\ Keys' = Keys /\ Lone(cache[k])
        /\ Unsettled(k) \/ Sound(cache[k], Recent(k))
    BY KeysKept DEF SessionInv
  <1>2. /\ cache[k] \in Entries(Users, Values) /\ cache \in [Keys -> Entries(Users, Values)]
        /\ ledger \in [Users -> [Keys -> Nat]]
    BY <1>1 DEF TabInv, TabType
  <1>3. CASE Restarts
    <2>1. Empty \in Entries(Users, Values)
      BY EmptyEntry
    <2>2. Sound(Empty, Recent(k)') /\ Sound(EnsureData(Empty, session), Recent(k)')
      BY <2>1, SoundEmpty, SoundFetch
    <2>. QED  BY <1>1, <1>3, <2>2, EntryRestarts
  <1>4. CASE Invalidates(k)
    <2>1. Observed(k) \in BOOLEAN
      BY DEF Observed
    <2>2. Sound(Invalidate(cache[k], Observed(k), session), Recent(k)')
      BY <1>2, <2>1, InvalidateMakesSound
    <2>. QED  BY <1>4, <2>2 DEF Invalidates
  <1>5. CASE Unsettled(k)' \/ (Unsettled(k) /\ ~Invalidates(k) /\ ~Restarts)
    BY <1>1, <1>5, JobsStep
  <1>6. CASE ~Unsettled(k)' /\ ~Unsettled(k) /\ ~Invalidates(k) /\ ~Restarts
    <2>1. Recent(k)' = Recent(k)
      <3>1. \A u \in Users : acked'[u][k] = acked[u][k]
        BY <1>1, <1>6, AckStep
      <3>. QED  BY <3>1 DEF Recent, Values
    <2>. DEFINE good == Recent(k)
    <2>. SUFFICES Sound(cache'[k], good)
      BY <2>1
    <2>2. Sound(cache[k], good)
      BY <1>1, <1>6
    <2>3. \A u \in Users : [owner |-> u, version |-> NoVersion] \in good
      BY DEF Recent, Values, NoVersion
    <2>4. ASSUME NEW u \in Users PROVE [owner |-> u, version |-> ledger[u][k]] \in good
      <3>1. ledger[u][k] \in Nat /\ acked[u][k] \in Nat /\ acked[u][k] <= ledger[u][k]
        BY <1>1, <1>2 DEF AckOK
      <3>. QED  BY <3>1 DEF Recent, Values
    <2>. HIDE DEF good
    <2>5. CASE Asks(k)
      BY <1>2, <2>2, <2>5, SoundFetch DEF Asks
    <2>6. CASE Serve(k)
      <3>1. PICK r \in cache[k].fetch :
              cache' = [cache EXCEPT ![k] = Answer(cache[k], [owner |-> r.by, version |-> ledger[r.by][k]])]
        BY <2>6 DEF Serve
      <3>2. r \in Requests(Users, Values)
        BY <1>2, EntryIsRecord
      <3>3. r.by \in Users
        BY <3>2 DEF Requests
      <3>. QED  BY <1>2, <2>2, <2>4, <3>1, <3>3, SoundAnswer
    <2>7. CASE Receive(k)
      BY <1>1, <1>2, <2>2, <2>7, SoundLand DEF Receive, Answered
    <2>8. CASE FetchFails(k)
      <3>1. CASE cache'[k] = Fail(cache[k])
        <4>1. /\ Fail(cache[k]).data = cache[k].data /\ Fail(cache[k]).fetch = {}
              /\ Fail(cache[k]).stale = (cache[k].data # {})
          BY <1>2, EntryIsRecord DEF Fail
        <4>. QED  BY <3>1, <4>1 DEF Sound
      <3>2. ASSUME NEW u \in Users, cache'[k] =
                     [data |-> {[owner |-> u, version |-> NoVersion]}, stale |-> FALSE,
                      raced |-> cache'[k].raced, fetch |-> {}]
            PROVE  Sound(cache'[k], good)
        BY <2>3, <3>2 DEF Sound
      <3>. QED  BY <1>1, <2>8, <3>1, <3>2, EntryFails
    <2>9. CASE TurnStale(k)
      BY <1>2, <2>2, <2>9, SoundStale DEF TurnStale
    <2>10. CASE Collect(k)
      BY <1>2, <2>10, SoundEmpty DEF Collect
    <2>11. CASE cache'[k] = cache[k]
      BY <2>2, <2>11
    <2>. QED  BY <1>1, <1>6, <2>5, <2>6, <2>7, <2>8, <2>9, <2>10, <2>11, EntryStep DEF Fetches
  <1>. QED  BY <1>3, <1>4, <1>5, <1>6

LEMMA CountersStep ==
  ASSUME SessionInv, [Next]_vars
  PROVE  logouts' \in 0..MaxLogouts /\ overtaken' \in BOOLEAN
  <1>1. logouts \in 0..MaxLogouts /\ overtaken \in BOOLEAN /\ MaxLogouts \in Nat
    BY BoundsAssumption DEF SessionInv
  <1>2. CASE SendLogout \/ LogoutAnswer \/ LogoutFails \/ \E p \in Protected : Reload(p)
    <2>1. logouts' \in 0..MaxLogouts
      <3>1. \/ logouts' = logouts + 1 /\ logouts < MaxLogouts
            \/ logouts' = logouts - 1 /\ logouts > 0
            \/ logouts' = 0
        BY <1>2 DEF SendLogout, LogoutAnswer, LogoutFails, Reload
      <3>. QED  BY <1>1, <3>1
    <2>2. overtaken' = overtaken \/ overtaken' = FALSE
      BY <1>2 DEF SendLogout, LogoutAnswer, LogoutFails, Reload, logout
    <2>. QED  BY <1>1, <2>1, <2>2
  <1>3. CASE \E u \in Users : LoginAnswer(u)
    BY <1>1, <1>3 DEF LoginAnswer, login
  <1>4. CASE UNCHANGED <<logouts, overtaken>>
    BY <1>1, <1>4
  <1>. QED
    BY <1>2, <1>3, <1>4 DEF Next, Navigate, Arrive, OpenInstrument, InstrumentMissing, SwitchTab,
       Serve, Receive, FetchFails, TurnStale, Refocus, Collect, Submit, Apply, Accept, Reject, Settle,
       DefaultLogin, SendLogin, LoginFails, vars, Auth

LEMMA InitSession == Init => SessionInv
  <1>. SUFFICES ASSUME Init PROVE SessionInv
    OBVIOUS
  <1>1. PICK ks \in DOMAIN Visited :
          /\ cache = [k \in ks |-> Empty]
          /\ ledger = [u \in Users |-> [k \in ks |-> 0]] /\ acked = [u \in Users |-> [k \in ks |-> 0]]
    BY DEF Init
  <1>2. Keys = ks
    BY <1>1 DEF Keys
  <1>3. JobsOK /\ NobodyWaitsInVain
    BY DEF Init, JobsOK, Single, NobodyWaitsInVain
  <1>4. AckOK
    BY <1>1, <1>2 DEF AckOK
  <1>5. \A k \in Keys : Lone(cache[k]) /\ Sound(cache[k], Recent(k))
    BY <1>1, <1>2, LoneEmpty, SoundEmpty
  <1>6. logouts \in 0..MaxLogouts /\ overtaken \in BOOLEAN
    <2>1. logouts = 0 /\ overtaken = FALSE
      BY DEF Init
    <2>2. 0 \in 0..MaxLogouts
      <3>1. MaxLogouts \in Nat
        BY BoundsAssumption
      <3>. QED  BY <3>1
    <2>. QED  BY <2>1, <2>2
  <1>. QED  BY <1>1, <1>2, <1>3, <1>4, <1>5, <1>6, InitInv DEF SessionInv

LEMMA NextSession == SessionInv /\ [Next]_vars => SessionInv'
  <1>. SUFFICES ASSUME SessionInv, [Next]_vars PROVE SessionInv'
    OBVIOUS
  <1>1. /\ TabInv /\ JobsOK /\ AckOK /\ Keys' = Keys /\ NobodyWaitsInVain /\ Keys \in DOMAIN Visited
        /\ \A k \in Keys : Lone(cache[k])
    BY KeysKept DEF SessionInv
  <1>2. TabInv' /\ JobsOK' /\ AckOK'
    BY <1>1, NextInv, JobsStep, AckStep
  <1>3. NobodyWaitsInVain'
    BY <1>1, LoadersGoOn, FormsGoOn DEF NobodyWaitsInVain
  <1>4. \A k \in Keys : Lone(cache[k])' /\ (Unsettled(k)' \/ Sound(cache'[k], Recent(k)'))
    BY <1>1, EntryLone, EntrySound DEF Lone, Single
  <1>5. logouts' \in 0..MaxLogouts /\ overtaken' \in BOOLEAN
    BY CountersStep
  <1>. QED  BY <1>1, <1>2, <1>3, <1>4, <1>5 DEF SessionInv, Sound, Lone, Single

LEMMA SessionInvariance == Spec => []SessionInv
  BY InitSession, NextSession, PTL DEF Spec

(* The types of the session, the pages, the cache and the submissions.        *)
THEOREM TypeCorrect == Spec => []TypeOK
  <1>1. SessionInv => TypeOK
    BY DEF SessionInv, TabInv, TabType, JobsOK, AckOK, TypeOK
  <1>. QED  BY <1>1, SessionInvariance, PTL

(* Once a form has invalidated what it declares, what counts as fresh shows  *)
(* its effect, for any number of forms under way, users and writes: the       *)
(* invalidation marks what is cached, replaces or marks what is under way,    *)
(* and whatever is fetched later is as recent as the write.                   *)
THEOREM FreshShowsEffects == Spec => []FreshIsRecent
  <1>1. SessionInv => FreshIsRecent
    <2>. SUFFICES ASSUME SessionInv, NEW k \in Keys, NEW d \in cache[k].data
                  PROVE  \/ cache[k].stale \/ cache[k].raced \/ d.version = NoVersion
                         \/ d.version >= acked[d.owner][k]
                         \/ \E s \in Slots : \E j \in jobs[s] : \E i \in DOMAIN j.todo : j.todo[i] = k
      BY DEF FreshIsRecent
    <2>1. CASE Unsettled(k)
      <3>1. PICK s \in Slots : \E j \in jobs[s] : Owes(j, k)
        BY <2>1 DEF Unsettled
      <3>2. PICK j \in jobs[s] : Owes(j, k)
        BY <3>1
      <3>3. j.todo \in Seq(AllKeys)
        BY DEF SessionInv, JobsOK, Job
      <3>4. PICK i \in 1..Len(j.todo) : j.todo[i] = k
        BY <3>2 DEF Owes
      <3>5. i \in DOMAIN j.todo
        BY <3>3, <3>4
      <3>. QED  BY <3>4, <3>5
    <2>2. CASE Sound(cache[k], Recent(k))
      BY <2>2 DEF Sound, Recent
    <2>. QED  BY <2>1, <2>2 DEF SessionInv
  <1>. QED  BY <1>1, SessionInvariance, PTL

(* A page whose loaders run, and a form whose button turns until what it      *)
(* invalidated is fetched, wait for a request that is under way: a fetch that *)
(* ends releases the forms, and what is dropped is waited for by nobody.      *)
THEOREM NobodyWaits == Spec => []NobodyWaitsInVain
  <1>1. SessionInv => NobodyWaitsInVain
    BY DEF SessionInv
  <1>. QED  BY <1>1, SessionInvariance, PTL
=============================================================================
