---------------------------- MODULE CardPages_proofs ----------------------------
(* Invariance proofs for CardPages, for every set of slots, every number of   *)
(* orders, and whatever submissions may overlap or follow a lost answer.      *)
EXTENDS CardPages, QueryCache_proofs

----------------------------------------------------------------------------
(* The inductive invariant *)

CardType ==
    /\ created \in 0..MaxOrders /\ Single(order)
    /\ order \subseteq [id : 1..created, stage : Stages] /\ reported \in BOOLEAN
    /\ page \in Locations \union {"error"} /\ nav \subseteq Locations
    /\ cache \in [Keys -> Entries({Me}, Values)]
    /\ \A k \in Keys : Lone(cache[k])
    /\ jobs \in [Slots -> SUBSET Job]
    /\ \A s \in Slots : Single(jobs[s])
    /\ lost \in BOOLEAN

(* An order has been inserted by one job, and has no status until that job *)
(* inserts the first one; before, nobody reports anything of it.           *)
Numbered ==
    \A s \in Slots : \A j \in jobs[s] : j.phase = "created" =>
        /\ j.id \in 1..created
        /\ \A o \in order : o.id = j.id => o.stage = 0
        /\ \A t \in Slots : \A i \in jobs[t] : i.phase = "created" /\ i.id = j.id => s = t

Reporting ==
    reported =>
        /\ order # {}
        /\ \A s \in Slots : \A j \in jobs[s] : j.phase = "created" => \A o \in order : o.id # j.id

Heard == \A s \in Slots : \A j \in jobs[s] : j.alive

(* What the page may show as the status, and as the history, of the order. *)
StatusNow ==
    {v \in Values : \/ v = Error
                    \/ v = NotFound /\ \A o \in order : o.stage = 0
                    \/ \E o \in order : o.id = v.id /\ o.stage > 0 /\ o.stage >= v.stage}

HistoryNow == {v \in Values : v = Error \/ \E o \in order : o.id = v.id}

HistoryKept == "history" \in Watched(page, cache) => Kept(cache["history"], HistoryNow)

(* Between the moment a submission is done and the moment the tab is told, *)
(* the cache may be behind; at any other time it is not, or not for long.  *)
CacheSound ==
    Unsettled \/ (/\ Sound(cache["status"], StatusNow)
                  /\ Sound(cache["history"], HistoryNow)
                  /\ HistoryKept)

(* A sure revocation finds a delivered order, and keeps to it. *)
SureDelivered ==
    \A s \in Slots : \A j \in jobs[s] : j.sure =>
        /\ j.phase = "sent" => order # {} /\ \A o \in order : o.stage = Delivered
        /\ j.phase = "unstatused" => order # {} /\ \A o \in order : o.id = j.id

(* Only a revocation under way leaves an order to which a status may come back. *)
LateSound ==
    Late => \E s \in Slots : \E j \in jobs[s] : j.phase = "unstatused"

CardInv ==
    /\ CardType /\ Numbered /\ Reporting
    /\ ~lost => Heard /\ CacheSound /\ SureDelivered /\ LateSound

----------------------------------------------------------------------------
(* What a page shows depends on the data in the cache only *)

LEMMA ViewData ==
  ASSUME NEW p, NEW c, NEW d, \A k \in Keys : c[k].data = d[k].data
  PROVE  View(p, c) = View(p, d) /\ Watched(p, c) = Watched(p, d)
  <1>1. c["status"].data = d["status"].data /\ c["history"].data = d["history"].data
    BY DEF Keys
  <1>2. View(p, c) = View(p, d)
    BY <1>1 DEF View
  <1>. QED  BY <1>2 DEF Watched

LEMMA WatchedKeys ==
  ASSUME NEW p, NEW c
  PROVE  /\ Watched(p, c) \subseteq Keys
         /\ Watched("error", c) = {} /\ Watched("other", c) = {}
         /\ "history" \in Watched(p, c) => View(p, c) = "status"
  <1>1. View("error", c) = "error" /\ View("other", c) = "other"
    BY DEF View, Cards
  <1>. QED  BY <1>1 DEF Watched, Keys

(* The history is rendered with a status that is neither an error, nor that  *)
(* of no order or of a card delivered, and with a history that is no error.  *)
LEMMA ViewStatus ==
  ASSUME NEW p, NEW c, View(p, c) = "status", p \in Locations \union {"error"}
  PROVE  /\ p = "status"
         /\ ~Unusable(c["status"].data) /\ ~Unusable(c["history"].data)
         /\ \A v \in c["status"].data : LeadsTo(v, "status") = {}
  <1>1. CASE p \notin Cards
    BY <1>1 DEF View, Cards, Locations
  <1>2. CASE p \in Cards /\ Unusable(c["status"].data)
    BY <1>2 DEF View, Cards
  <1>3. CASE p \in Cards /\ ~Unusable(c["status"].data)
    <2>1. View(p, c) = IF \E v \in c["status"].data : LeadsTo(v, p) # {} THEN "redirect"
                       ELSE IF p = "status" /\ Unusable(c["history"].data) THEN "error" ELSE p
      BY <1>3 DEF View
    <2>. QED  BY <1>3, <2>1
  <1>. QED  BY <1>1, <1>2, <1>3

LEMMA ViewActive ==
  ASSUME NEW p, NEW c, View(p, c) = "active", p \in Locations \union {"error"}
  PROVE  /\ ~Unusable(c["status"].data)
         /\ \A v \in c["status"].data : LeadsTo(v, "active") = {}
  <1>1. CASE p \notin Cards
    BY <1>1 DEF View, Cards, Locations
  <1>2. CASE p \in Cards /\ Unusable(c["status"].data)
    BY <1>2 DEF View, Cards
  <1>3. CASE p \in Cards /\ ~Unusable(c["status"].data)
    <2>1. View(p, c) = IF \E v \in c["status"].data : LeadsTo(v, p) # {} THEN "redirect"
                       ELSE IF p = "status" /\ Unusable(c["history"].data) THEN "error" ELSE p
      BY <1>3 DEF View
    <2>. QED  BY <1>3, <2>1
  <1>. QED  BY <1>1, <1>2, <1>3

LEMMA RenderedType ==
  ASSUME NEW p \in Locations \union {"error"}, NEW c
  PROVE  Rendered(p, c) \in {p, "error"}
  BY DEF Rendered

LEMMA ValueFacts ==
  /\ NotFound \in Values /\ Error \in Values
  /\ NotFound.id = 0 /\ Error.id = -1 /\ NotFound.stage = 0 /\ Error.stage = 0
  /\ \A v \in Values : \/ v = NotFound \/ v = Error
                       \/ v.id \in 1..MaxOrders /\ v.stage \in Stages
  BY OrdersAssumption DEF Values, NotFound, Error, Stages

LEMMA StatusIsOfOrder ==
  ASSUME NEW v \in Values, LeadsTo(v, "status") = {}, v # Error
  PROVE  v.id > 0
  <1>1. v # NotFound
    BY DEF LeadsTo, Cards
  <1>. QED  BY <1>1, ValueFacts, OrdersAssumption

LEMMA ActiveIsDelivered ==
  ASSUME NEW v \in Values, LeadsTo(v, "active") = {}, v # Error
  PROVE  v.id > 0 /\ v.stage = Delivered
  <1>1. v # NotFound
    BY DEF LeadsTo, Cards
  <1>2. v.id > 0
    BY <1>1, ValueFacts, OrdersAssumption
  <1>. QED  BY <1>2 DEF LeadsTo, Cards

----------------------------------------------------------------------------
(* The cache, as every step of the page leaves it *)

LEMMA LoadingSound ==
  ASSUME NEW c \in [Keys -> Entries({Me}, Values)], \A k \in Keys : Lone(c[k]), NEW p
  PROVE  /\ Loading(c, p) \in [Keys -> Entries({Me}, Values)]
         /\ \A k \in Keys : Lone(Loading(c, p)[k]) /\ Loading(c, p)[k].data = c[k].data
         /\ \A good : \A k \in Keys :
              /\ Sound(c[k], good) => Sound(Loading(c, p)[k], good)
              /\ Kept(c[k], good) => Kept(Loading(c, p)[k], good)
  <1>1. \A k \in Keys : /\ EnsureData(c[k], Me) \in Entries({Me}, Values)
                        /\ Lone(EnsureData(c[k], Me))
    BY EnsureEntry, LoneFetch
  <1>2. \A k \in Keys : EnsureData(c[k], Me).data = c[k].data
    BY EntryIsRecord DEF EnsureData, Fetch
  <1>3. \A good : \A k \in Keys :
          /\ Sound(c[k], good) => Sound(EnsureData(c[k], Me), good)
          /\ Kept(c[k], good) => Kept(EnsureData(c[k], Me), good)
    BY SoundFetch, KeptFetch
  <1>. QED  BY <1>1, <1>2, <1>3 DEF Loading

LEMMA MountData ==
  ASSUME NEW e \in Entries({Me}, Values)
  PROVE  Mount(e, Me).data = e.data
  BY EntryIsRecord DEF Mount, Fetch

EmptyCache == [k \in Keys |-> Empty]

LEMMA EmptyCacheType ==
  /\ EmptyCache \in [Keys -> Entries({Me}, Values)]
  /\ \A k \in Keys : Lone(EmptyCache[k]) /\ \A good : Sound(EmptyCache[k], good)
  BY EmptyEntry, LoneEmpty, SoundEmpty DEF EmptyCache

LEMMA KeyNames == "status" \in Keys /\ "history" \in Keys /\ \A k \in Keys : k \in {"status", "history"}
  BY DEF Keys

----------------------------------------------------------------------------
(* Steps of the page: the server and the submissions stay, but for forms     *)
(* that are left and messages that have waited for the status.               *)

Same(i, j) == i.phase = j.phase /\ i.id = j.id /\ i.alive = j.alive /\ i.sure = j.sure

JobsAs(js) ==
    /\ js \in [Slots -> SUBSET Job]
    /\ \A s \in Slots :
         /\ Single(js[s])
         /\ \A i \in js[s] : \E j \in jobs[s] : Same(i, j)
         /\ \A j \in jobs[s] : j.phase # "waiting" => \E i \in js[s] : Same(i, j)

LEMMA DetachedAs ==
  ASSUME NEW f \in SUBSET Job, Single(f)
  PROVE  /\ Detached(f) \in SUBSET Job /\ Single(Detached(f))
         /\ \A i \in Detached(f) : \E j \in f : Same(i, j)
         /\ \A j \in f : \E i \in Detached(f) : Same(i, j)
  <1>. DEFINE d(j) == [j EXCEPT !.shown = FALSE]
  <1>1. \A j \in f : d(j) \in Job /\ Same(d(j), j)
    BY DEF Job, Same
  <1>2. Detached(f) = {d(j) : j \in f}
    BY DEF Detached
  <1>. HIDE DEF d
  <1>. QED  BY <1>1, <1>2 DEF Single

LEMMA DetachedJobs ==
  ASSUME CardType
  PROVE  JobsAs([s \in Slots |-> Detached(jobs[s])])
  BY DetachedAs DEF CardType, JobsAs

LEMMA SameJobs ==
  ASSUME CardType
  PROVE  JobsAs(jobs)
  BY DEF CardType, JobsAs, Same

LEMMA LandedJobs ==
  ASSUME CardType, NEW k, Landed(k)
  PROVE  JobsAs(jobs')
  <1>. DEFINE left == [s \in Slots |-> {j \in jobs[s] : k = "status" => j.phase # "waiting"}]
  <1>1. \A s \in Slots : left[s] \in SUBSET Job /\ Single(left[s])
    BY DEF CardType, Single
  <1>2. jobs' = [s \in Slots |-> IF page' = "error" THEN Detached(left[s]) ELSE left[s]]
    BY DEF Landed
  <1>3. \A s \in Slots : /\ \A i \in left[s] : i \in jobs[s] /\ Same(i, i)
                         /\ \A j \in jobs[s] : j.phase # "waiting" => j \in left[s]
    BY DEF Same
  <1>. HIDE DEF left
  <1>4. CASE page' = "error"
    <2>1. \A s \in Slots : jobs'[s] = Detached(left[s])
      BY <1>2, <1>4
    <2>2. jobs' \in [Slots -> SUBSET Job]
      BY <1>1, <1>2, <1>4, DetachedAs
    <2>. QED  BY <1>1, <1>3, <2>1, <2>2, DetachedAs DEF JobsAs
  <1>5. CASE page' # "error"
    <2>1. jobs' = [s \in Slots |-> left[s]]
      BY <1>2, <1>5
    <2>. QED  BY <1>1, <1>3, <2>1 DEF JobsAs
  <1>. QED  BY <1>4, <1>5

LEMMA QuietJobs ==
  ASSUME CardInv, JobsAs(jobs'), UNCHANGED Server
  PROVE  /\ Numbered' /\ Reporting'
         /\ ~lost => Heard' /\ SureDelivered' /\ LateSound'
         /\ Unsettled => Unsettled'
         /\ StatusNow' = StatusNow /\ HistoryNow' = HistoryNow
  <1>1. created' = created /\ order' = order /\ reported' = reported /\ lost' = lost
    BY DEF Server
  <1>2. Numbered'
    BY <1>1 DEF CardInv, Numbered, JobsAs, Same
  <1>3. Reporting'
    BY <1>1 DEF CardInv, Reporting, JobsAs, Same
  <1>4. ~lost => Heard' /\ SureDelivered' /\ LateSound'
    <2>1. ~lost => Heard' /\ SureDelivered'
      BY <1>1 DEF CardInv, Heard, SureDelivered, JobsAs, Same
    <2>2. ~lost => LateSound'
      BY <1>1 DEF CardInv, LateSound, Late, JobsAs, Same
    <2>. QED  BY <2>1, <2>2
  <1>5. Unsettled => Unsettled'
    BY DEF Unsettled, JobsAs, Same
  <1>. QED  BY <1>1, <1>2, <1>3, <1>4, <1>5 DEF StatusNow, HistoryNow

LEMMA PageStep ==
  ASSUME CardInv, JobsAs(jobs'), UNCHANGED Server,
         page' \in Locations \union {"error"}, nav' \subseteq Locations,
         cache' \in [Keys -> Entries({Me}, Values)], \A k \in Keys : Lone(cache'[k]),
         ~lost /\ ~Unsettled =>
            /\ Sound(cache'["status"], StatusNow)
            /\ Sound(cache'["history"], HistoryNow)
            /\ "history" \in Watched(page', cache') => Kept(cache'["history"], HistoryNow)
  PROVE  CardInv'
  <1>1. /\ Numbered' /\ Reporting'
        /\ ~lost => Heard' /\ SureDelivered' /\ LateSound'
        /\ Unsettled => Unsettled'
        /\ StatusNow' = StatusNow /\ HistoryNow' = HistoryNow
    BY QuietJobs
  <1>2. created' = created /\ order' = order /\ reported' = reported /\ lost' = lost
    BY DEF Server
  <1>3. CardType'
    BY <1>2 DEF CardInv, CardType, JobsAs, Keys
  <1>4. ~lost' => CacheSound'
    BY <1>1, <1>2 DEF CacheSound, HistoryKept
  <1>. QED  BY <1>1, <1>2, <1>3, <1>4 DEF CardInv

LEMMA OpenInv ==
  ASSUME CardInv, NEW p \in Locations, Open(p)
  PROVE  CardInv'
  <1>1. cache' = Loading(cache, p) /\ page' = page /\ jobs' = jobs /\ nav' = {p} /\ UNCHANGED Server
    BY DEF Open
  <1>2. cache \in [Keys -> Entries({Me}, Values)] /\ \A k \in Keys : Lone(cache[k])
    BY DEF CardInv, CardType
  <1>3. /\ cache' \in [Keys -> Entries({Me}, Values)]
        /\ \A k \in Keys : Lone(cache'[k]) /\ cache'[k].data = cache[k].data
        /\ \A good : \A k \in Keys : /\ Sound(cache[k], good) => Sound(cache'[k], good)
                                     /\ Kept(cache[k], good) => Kept(cache'[k], good)
    BY <1>1, <1>2, LoadingSound
  <1>4. Watched(page', cache') = Watched(page, cache)
    BY <1>1, <1>3, ViewData
  <1>5. ~lost /\ ~Unsettled => /\ Sound(cache'["status"], StatusNow)
                               /\ Sound(cache'["history"], HistoryNow)
                               /\ "history" \in Watched(page', cache') => Kept(cache'["history"], HistoryNow)
    <2>1. \A k \in Keys : Sound(cache[k], StatusNow) => Sound(cache'[k], StatusNow)
      BY <1>3
    <2>2. \A k \in Keys : /\ Sound(cache[k], HistoryNow) => Sound(cache'[k], HistoryNow)
                          /\ Kept(cache[k], HistoryNow) => Kept(cache'[k], HistoryNow)
      BY <1>3
    <2>. QED  BY <1>4, <2>1, <2>2, KeyNames DEF CardInv, CacheSound, HistoryKept
  <1>6. JobsAs(jobs')
    BY <1>1, SameJobs DEF CardInv
  <1>. QED  BY <1>1, <1>3, <1>5, <1>6, PageStep DEF CardInv, CardType

LEMMA RedirectInv ==
  ASSUME CardInv, Redirect
  PROVE  CardInv'
  <1>1. PICK p \in Cards : nav' = {p} /\ cache' = Loading(cache, p)
    BY DEF Redirect, LeadsTo
  <1>2. page' = page /\ jobs' = [s \in Slots |-> Detached(jobs[s])] /\ UNCHANGED Server
    BY DEF Redirect
  <1>3. p \in Locations
    BY DEF Locations
  <1>4. cache \in [Keys -> Entries({Me}, Values)] /\ \A k \in Keys : Lone(cache[k])
    BY DEF CardInv, CardType
  <1>5. /\ cache' \in [Keys -> Entries({Me}, Values)]
        /\ \A k \in Keys : Lone(cache'[k]) /\ cache'[k].data = cache[k].data
        /\ \A good : \A k \in Keys : /\ Sound(cache[k], good) => Sound(cache'[k], good)
                                     /\ Kept(cache[k], good) => Kept(cache'[k], good)
    BY <1>1, <1>4, LoadingSound
  <1>6. Watched(page', cache') = Watched(page, cache)
    BY <1>2, <1>5, ViewData
  <1>7. ~lost /\ ~Unsettled => /\ Sound(cache'["status"], StatusNow)
                               /\ Sound(cache'["history"], HistoryNow)
                               /\ "history" \in Watched(page', cache') => Kept(cache'["history"], HistoryNow)
    <2>1. \A k \in Keys : Sound(cache[k], StatusNow) => Sound(cache'[k], StatusNow)
      BY <1>5
    <2>2. \A k \in Keys : /\ Sound(cache[k], HistoryNow) => Sound(cache'[k], HistoryNow)
                          /\ Kept(cache[k], HistoryNow) => Kept(cache'[k], HistoryNow)
      BY <1>5
    <2>. QED  BY <1>6, <2>1, <2>2, KeyNames DEF CardInv, CacheSound, HistoryKept
  <1>8. JobsAs(jobs')
    BY <1>2, DetachedJobs DEF CardInv
  <1>. QED  BY <1>1, <1>2, <1>3, <1>5, <1>7, <1>8, PageStep DEF CardInv, CardType

(* Queries that mount with the components that are rendered. *)
Mounted(c, w) == [k \in Keys |-> IF k \in w THEN Mount(c[k], Me) ELSE c[k]]

LEMMA MountedSound ==
  ASSUME NEW c \in [Keys -> Entries({Me}, Values)], \A k \in Keys : Lone(c[k]), NEW w
  PROVE  /\ Mounted(c, w) \in [Keys -> Entries({Me}, Values)]
         /\ \A k \in Keys : Lone(Mounted(c, w)[k]) /\ Mounted(c, w)[k].data = c[k].data
         /\ \A k \in Keys : k \notin w => Mounted(c, w)[k] = c[k]
         /\ \A good : \A k \in Keys : Sound(c[k], good) =>
              Sound(Mounted(c, w)[k], good) /\ (k \in w => Kept(Mounted(c, w)[k], good))
  <1>1. \A k \in Keys : /\ Mount(c[k], Me) \in Entries({Me}, Values)
                        /\ Lone(Mount(c[k], Me)) /\ Mount(c[k], Me).data = c[k].data
    BY MountEntry, LoneFetch, MountData
  <1>2. \A good : \A k \in Keys : Sound(c[k], good) =>
          Sound(Mount(c[k], Me), good) /\ Kept(Mount(c[k], Me), good)
    BY SoundFetch, KeptMount
  <1>. QED  BY <1>1, <1>2 DEF Mounted

LEMMA ArriveInv ==
  ASSUME CardInv, NEW p \in Locations, Arrive(p)
  PROVE  CardInv'
  <1>1. /\ page' = Rendered(p, cache) /\ nav' = {} /\ UNCHANGED Server
        /\ cache' = Mounted(cache, Watched(p, cache))
        /\ jobs' = [s \in Slots |-> Detached(jobs[s])]
    BY DEF Arrive, Mounted
  <1>2. cache \in [Keys -> Entries({Me}, Values)] /\ \A k \in Keys : Lone(cache[k])
    BY DEF CardInv, CardType
  <1>3. /\ cache' \in [Keys -> Entries({Me}, Values)]
        /\ \A k \in Keys : Lone(cache'[k]) /\ cache'[k].data = cache[k].data
        /\ \A good : \A k \in Keys : Sound(cache[k], good) =>
             Sound(cache'[k], good) /\ (k \in Watched(p, cache) => Kept(cache'[k], good))
    <2>. DEFINE w == Watched(p, cache)
                m == Mounted(cache, w)
    <2>1. /\ m \in [Keys -> Entries({Me}, Values)]
          /\ \A k \in Keys : Lone(m[k]) /\ m[k].data = cache[k].data
          /\ \A good : \A k \in Keys : Sound(cache[k], good) => Sound(m[k], good) /\ (k \in w => Kept(m[k], good))
      <3>. HIDE DEF w
      <3>1. m \in [Keys -> Entries({Me}, Values)]
        BY <1>2, MountedSound
      <3>2. \A k \in Keys : Lone(m[k]) /\ m[k].data = cache[k].data
        BY <1>2, MountedSound
      <3>3. ASSUME NEW k \in Keys, NEW good, Sound(cache[k], good)
            PROVE  Sound(m[k], good) /\ (k \in w => Kept(m[k], good))
        BY <1>2, <3>3, MountedSound
      <3>. QED  BY <3>1, <3>2, <3>3
    <2>2. cache' = m
      BY <1>1
    <2>. HIDE DEF m
    <2>. QED  BY <2>1, <2>2
  <1>4. page' \in {p, "error"} /\ page' \in Locations \union {"error"}
    BY <1>1, RenderedType
  <1>5. "history" \in Watched(page', cache') => "history" \in Watched(p, cache)
    <2>1. Watched(page', cache') = Watched(page', cache)
      BY <1>3, ViewData
    <2>. QED  BY <1>4, <2>1, WatchedKeys
  <1>6. ~lost /\ ~Unsettled => /\ Sound(cache'["status"], StatusNow)
                               /\ Sound(cache'["history"], HistoryNow)
                               /\ "history" \in Watched(page', cache') => Kept(cache'["history"], HistoryNow)
    BY <1>3, <1>5, KeyNames DEF CardInv, CacheSound
  <1>7. JobsAs(jobs')
    BY <1>1, DetachedJobs DEF CardInv
  <1>. QED  BY <1>1, <1>3, <1>4, <1>6, <1>7, PageStep

----------------------------------------------------------------------------
(* Fetches, as they are answered, land, fail, begin or age *)

Good(k) == IF k = "status" THEN StatusNow ELSE HistoryNow

LEMMA SoundNow ==
  ASSUME CardInv, ~lost, ~Unsettled
  PROVE  (\A k \in Keys : Sound(cache[k], Good(k))) /\ HistoryKept
  BY KeyNames DEF CardInv, CacheSound, Good

LEMMA EntryStep ==
  ASSUME CardInv, NEW k \in Keys, NEW e \in Entries({Me}, Values), Lone(e),
         cache' = [cache EXCEPT ![k] = e], UNCHANGED <<Server, page, nav, jobs>>,
         ~lost /\ ~Unsettled => Sound(e, Good(k)),
         "history" \in Watched(page, cache') =>
            /\ "history" \in Watched(page, cache)
            /\ k = "history" /\ Kept(cache[k], HistoryNow) => Kept(e, HistoryNow)
  PROVE  CardInv'
  <1>1. cache \in [Keys -> Entries({Me}, Values)] /\ \A x \in Keys : Lone(cache[x])
    BY DEF CardInv, CardType
  <1>2. cache'[k] = e /\ \A x \in Keys : x # k => cache'[x] = cache[x]
    BY <1>1
  <1>3. cache' \in [Keys -> Entries({Me}, Values)] /\ \A x \in Keys : Lone(cache'[x])
    BY <1>1, <1>2
  <1>4. ~lost /\ ~Unsettled => /\ Sound(cache'["status"], StatusNow)
                               /\ Sound(cache'["history"], HistoryNow)
                               /\ "history" \in Watched(page', cache') => Kept(cache'["history"], HistoryNow)
    <2>. SUFFICES ASSUME ~lost, ~Unsettled
                  PROVE  /\ Sound(cache'["status"], StatusNow)
                         /\ Sound(cache'["history"], HistoryNow)
                         /\ "history" \in Watched(page, cache') => Kept(cache'["history"], HistoryNow)
      OBVIOUS
    <2>1. \A x \in Keys : Sound(cache'[x], Good(x))
      BY <1>2, SoundNow
    <2>2. "history" \in Watched(page, cache') => Kept(cache'["history"], HistoryNow)
      BY <1>2, SoundNow, KeyNames DEF HistoryKept
    <2>. QED  BY <2>1, <2>2, KeyNames DEF Good
  <1>5. JobsAs(jobs')
    BY SameJobs DEF CardInv
  <1>. QED  BY <1>3, <1>4, <1>5, PageStep DEF CardInv, CardType

(* The data stays as it is, and with it what is rendered. *)
LEMMA SameDataStep ==
  ASSUME CardInv, NEW k \in Keys, NEW e \in Entries({Me}, Values), Lone(e), e.data = cache[k].data,
         cache' = [cache EXCEPT ![k] = e], UNCHANGED <<Server, page, nav, jobs>>,
         Sound(cache[k], Good(k)) => Sound(e, Good(k)),
         Kept(cache[k], HistoryNow) => Kept(e, HistoryNow)
  PROVE  CardInv'
  <1>1. \A x \in Keys : cache'[x].data = cache[x].data
    BY DEF CardInv, CardType
  <1>2. Watched(page, cache') = Watched(page, cache)
    BY <1>1, ViewData
  <1>. QED  BY <1>2, EntryStep, SoundNow

(* What the server answers is true of the order when it answers. *)
LEMMA ReplyIsGood ==
  ASSUME CardInv, NEW k \in Keys
  PROVE  Reply(k) \in Good(k) /\ Reply(k) \in Values
  <1>1. /\ Single(order) /\ order \subseteq [id : 1..created, stage : Stages] /\ created \in 0..MaxOrders
    BY DEF CardInv, CardType
  <1>2. order \subseteq Values /\ \A o \in order : o.stage \in Stages
    BY <1>1, OrdersAssumption DEF Values
  <1>3. CASE k = "status"
    <2>1. CASE \E o \in order : o.stage > 0
      <3>1. PICK o \in order : o.stage > 0
        BY <2>1
      <3>2. (CHOOSE x \in order : TRUE) = o
        BY <1>1 DEF Single
      <3>3. o \in StatusNow
        BY <1>2, <3>1 DEF StatusNow, Stages
      <3>. QED  BY <1>2, <1>3, <2>1, <3>2, <3>3 DEF Reply, Good
    <2>2. CASE \A o \in order : ~(o.stage > 0)
      <3>1. NotFound \in StatusNow
        BY <1>2, <2>2, ValueFacts DEF StatusNow, Stages
      <3>. QED  BY <1>3, <2>2, <3>1, ValueFacts DEF Reply, Good
    <2>. QED  BY <2>1, <2>2
  <1>4. CASE k = "history"
    <2>1. CASE order = {}
      <3>1. Error \in HistoryNow
        BY ValueFacts DEF HistoryNow
      <3>. QED  BY <1>4, <2>1, <3>1, ValueFacts DEF Reply, Good
    <2>2. CASE order # {}
      <3>1. PICK o \in order : o = CHOOSE x \in order : TRUE
        BY <2>2
      <3>2. PICK h : h = [id |-> o.id, stage |-> 0]
        OBVIOUS
      <3>3. h \in Values /\ h.id = o.id
        BY <1>1, <3>2, OrdersAssumption DEF Values, Stages
      <3>4. h \in HistoryNow
        BY <3>3 DEF HistoryNow
      <3>. QED  BY <1>4, <2>2, <3>1, <3>2, <3>3, <3>4 DEF Reply, Good
    <2>. QED  BY <2>1, <2>2
  <1>. QED  BY <1>3, <1>4, KeyNames

LEMMA AnswerData ==
  ASSUME NEW e \in Entries({Me}, Values), NEW v, Kept(e, HistoryNow)
  PROVE  Kept(Answer(e, v), HistoryNow)
  <1>. DEFINE f == {[r EXCEPT !.got = {v}] : r \in e.fetch}
  <1>1. f # {} <=> e.fetch # {}
    OBVIOUS
  <1>. HIDE DEF f
  <1>2. [e EXCEPT !.fetch = f].data = e.data /\ [e EXCEPT !.fetch = f].raced = e.raced /\ [e EXCEPT !.fetch = f].fetch = f
    BY EntryIsRecord
  <1>. QED  BY <1>1, <1>2 DEF Answer, Kept, f

LEMMA ServeInv ==
  ASSUME CardInv, NEW k \in Keys, Serve(k)
  PROVE  CardInv'
  <1>. DEFINE v == Reply(k)
              e == Answer(cache[k], v)
  <1>1. v \in Good(k) /\ v \in Values
    BY ReplyIsGood
  <1>. HIDE DEF v
  <1>2. cache[k] \in Entries({Me}, Values) /\ Lone(cache[k])
    BY DEF CardInv, CardType
  <1>3. e \in Entries({Me}, Values) /\ Lone(e)
    BY <1>1, <1>2, AnswerEntry, LoneAnswer
  <1>4. e.data = cache[k].data
    BY <1>2, EntryIsRecord DEF Answer
  <1>5. Sound(cache[k], Good(k)) => Sound(e, Good(k))
    BY <1>1, <1>2, SoundAnswer
  <1>6. Kept(cache[k], HistoryNow) => Kept(e, HistoryNow)
    BY <1>2, AnswerData
  <1>7. cache' = [cache EXCEPT ![k] = e] /\ UNCHANGED <<Server, page, nav, jobs>>
    BY DEF Serve, CardInv, CardType, v
  <1>. HIDE DEF e
  <1>. QED  BY <1>3, <1>4, <1>5, <1>6, <1>7, SameDataStep

LEMMA TurnStaleInv ==
  ASSUME CardInv, NEW k \in Keys, TurnStale(k)
  PROVE  CardInv'
  <1>. DEFINE e == [cache[k] EXCEPT !.stale = TRUE]
  <1>1. cache \in [Keys -> Entries({Me}, Values)] /\ cache[k] \in Entries({Me}, Values) /\ Lone(cache[k])
    BY DEF CardInv, CardType
  <1>2. e \in Entries({Me}, Values) /\ e.data = cache[k].data /\ e.fetch = cache[k].fetch
    BY <1>1, StaleEntry, EntryIsRecord
  <1>3. cache' = [cache EXCEPT ![k] = e] /\ UNCHANGED <<Server, page, nav, jobs>>
    BY DEF TurnStale
  <1>4. /\ Sound(cache[k], Good(k)) => Sound(e, Good(k))
        /\ Kept(cache[k], HistoryNow) => Kept(e, HistoryNow)
    BY <1>1, <1>2, EntryIsRecord DEF Sound, Kept
  <1>. HIDE DEF e
  <1>5. Lone(e)
    BY <1>1, <1>2 DEF Lone
  <1>. QED  BY <1>2, <1>3, <1>4, <1>5, SameDataStep

LEMMA RefocusInv ==
  ASSUME CardInv, NEW k \in Keys, Refocus(k)
  PROVE  CardInv'
  <1>. DEFINE e == Mount(cache[k], Me)
  <1>1. cache[k] \in Entries({Me}, Values) /\ Lone(cache[k])
    BY DEF CardInv, CardType
  <1>2. e \in Entries({Me}, Values) /\ e.data = cache[k].data /\ Lone(e)
    BY <1>1, MountEntry, MountData, LoneFetch
  <1>3. cache' = [cache EXCEPT ![k] = e] /\ UNCHANGED <<Server, page, nav, jobs>>
    BY DEF Refocus
  <1>4. /\ Sound(cache[k], Good(k)) => Sound(e, Good(k))
        /\ Kept(cache[k], HistoryNow) => Kept(e, HistoryNow)
    BY <1>1, SoundFetch, KeptFetch
  <1>. HIDE DEF e
  <1>. QED  BY <1>2, <1>3, <1>4, SameDataStep

(* Nothing observed is collected, and without the data nothing is rendered *)
(* that shows the history.                                                  *)
LEMMA CollectInv ==
  ASSUME CardInv, NEW k \in Keys, Collect(k)
  PROVE  CardInv'
  <1>1. cache \in [Keys -> Entries({Me}, Values)] /\ page \in Locations \union {"error"}
    BY DEF CardInv, CardType
  <1>2. cache' = [cache EXCEPT ![k] = Empty] /\ UNCHANGED <<Server, page, nav, jobs>>
    BY DEF Collect
  <1>3. Unusable(cache'[k].data)
    BY <1>1, <1>2 DEF Unusable, Empty
  <1>4. "history" \notin Watched(page, cache')
    <2>1. View(page, cache') # "status"
      BY <1>1, <1>3, ViewStatus, KeyNames
    <2>. QED  BY <2>1, WatchedKeys
  <1>. QED  BY <1>2, <1>4, EmptyEntry, LoneEmpty, SoundEmpty, EntryStep

(* A fetch ends with the entry e: what mounts with it fetches what is bad. *)
LEMMA RerenderedInv ==
  ASSUME CardInv, NEW k \in Keys, NEW e \in Entries({Me}, Values), Lone(e),
         ~lost /\ ~Unsettled => Sound(e, Good(k)) /\ Kept(e, Good(k)),
         cache' = Rerendered(k, e), Landed(k), UNCHANGED <<Server, nav>>
  PROVE  CardInv'
  <1>. DEFINE c == [cache EXCEPT ![k] = e]
              w == Watched(page, c) \ Watched(page, cache)
              m == Mounted(c, w)
  <1>1. cache' = m
    BY DEF Rerendered, Mounted
  <1>2. /\ c \in [Keys -> Entries({Me}, Values)] /\ \A x \in Keys : Lone(c[x])
        /\ c[k] = e /\ \A x \in Keys : x # k => c[x] = cache[x]
    BY DEF CardInv, CardType
  <1>3. "history" \in Watched(page, c) => "history" \in w \/ "history" \in Watched(page, cache)
    OBVIOUS
  <1>4. page' \in {page, "error"} /\ page' \in Locations \union {"error"}
    BY RenderedType DEF Landed, CardInv, CardType
  <1>. HIDE DEF c, w
  <1>5. m \in [Keys -> Entries({Me}, Values)]
    BY <1>2, MountedSound
  <1>6. \A x \in Keys : Lone(m[x]) /\ m[x].data = c[x].data
    BY <1>2, MountedSound
  <1>7. Watched(page, m) = Watched(page, c)
    BY <1>6, ViewData
  <1>8. \A x \in Keys : x \notin w => m[x] = c[x]
    BY <1>2, MountedSound
  <1>9. ASSUME NEW x \in Keys, NEW good, Sound(c[x], good)
        PROVE  Sound(m[x], good) /\ (x \in w => Kept(m[x], good))
    BY <1>2, <1>9, MountedSound
  <1>. HIDE DEF m
  <1>10. ASSUME ~lost, ~Unsettled
         PROVE  /\ Sound(cache'["status"], StatusNow)
                /\ Sound(cache'["history"], HistoryNow)
                /\ "history" \in Watched(page', cache') => Kept(cache'["history"], HistoryNow)
    <2>1. (\A x \in Keys : Sound(cache[x], Good(x))) /\ HistoryKept
      BY <1>10, SoundNow
    <2>2. \A x \in Keys : Sound(c[x], Good(x))
      BY <1>2, <1>10, <2>1
    <2>3. \A x \in Keys : Sound(m[x], Good(x))
      BY <1>9, <2>2
    <2>4. ASSUME "history" \in Watched(page', m) PROVE Kept(m["history"], HistoryNow)
      <3>1. "history" \in Watched(page, c)
        BY <1>4, <1>7, <2>4, WatchedKeys
      <3>2. Sound(c["history"], HistoryNow)
        BY <2>2, KeyNames DEF Good
      <3>3. CASE "history" \in w
        BY <1>9, <3>2, <3>3, KeyNames
      <3>4. CASE "history" \notin w
        <4>1. Kept(cache["history"], HistoryNow)
          BY <1>3, <2>1, <3>1, <3>4 DEF HistoryKept
        <4>2. m["history"] = c["history"]
          BY <1>8, <3>4, KeyNames
        <4>3. k = "history" => Kept(e, HistoryNow)
          BY <1>10 DEF Good
        <4>. QED  BY <1>2, <4>1, <4>2, <4>3, KeyNames
      <3>. QED  BY <3>3, <3>4
    <2>. QED  BY <1>1, <2>3, <2>4, KeyNames DEF Good
  <1>11. JobsAs(jobs')
    BY LandedJobs DEF CardInv
  <1>12. \A x \in Keys : Lone(m[x])
    BY <1>6
  <1>. QED  BY <1>1, <1>4, <1>5, <1>10, <1>11, <1>12, PageStep DEF CardInv, CardType

LEMMA ReceiveInv ==
  ASSUME CardInv, NEW k \in Keys, Receive(k)
  PROVE  CardInv'
  <1>. DEFINE e == Land(cache[k])
  <1>1. cache[k] \in Entries({Me}, Values) /\ Lone(cache[k])
    BY DEF CardInv, CardType
  <1>2. cache[k].fetch # {}
    BY DEF Receive, Answered
  <1>3. e \in Entries({Me}, Values) /\ Lone(e)
    BY <1>1, <1>2, LandEntry, LoneLand
  <1>4. ~lost /\ ~Unsettled => Sound(e, Good(k)) /\ Kept(e, Good(k))
    BY <1>1, <1>2, SoundNow, SoundLand
  <1>5. cache' = Rerendered(k, e) /\ Landed(k) /\ UNCHANGED <<Server, nav>>
    BY DEF Receive
  <1>. HIDE DEF e
  <1>. QED  BY <1>3, <1>4, <1>5, RerenderedInv

LEMMA FetchFailsInv ==
  ASSUME CardInv, NEW k \in Keys, FetchFails(k)
  PROVE  CardInv'
  <1>. DEFINE a == Answer(cache[k], Error)
              e == Land(a)
  <1>1. cache[k] \in Entries({Me}, Values) /\ Lone(cache[k]) /\ cache[k].fetch # {}
    BY DEF CardInv, CardType, FetchFails
  <1>2. Error \in Good(k) /\ Error \in Values
    BY ValueFacts DEF Good, StatusNow, HistoryNow
  <1>3. a \in Entries({Me}, Values) /\ Lone(a)
    BY <1>1, <1>2, AnswerEntry, LoneAnswer
  <1>4. a.fetch # {}
    <2>1. a.fetch = {[r EXCEPT !.got = {Error}] : r \in cache[k].fetch}
      BY <1>1, EntryIsRecord DEF Answer
    <2>. QED  BY <1>1, <2>1
  <1>5. ~lost /\ ~Unsettled => Sound(a, Good(k))
    BY <1>1, <1>2, SoundNow, SoundAnswer
  <1>6. cache' = Rerendered(k, e) /\ Landed(k) /\ UNCHANGED <<Server, nav>>
    BY DEF FetchFails
  <1>. HIDE DEF a
  <1>7. e \in Entries({Me}, Values) /\ Lone(e)
    BY <1>3, <1>4, LandEntry, LoneLand
  <1>8. ~lost /\ ~Unsettled => Sound(e, Good(k)) /\ Kept(e, Good(k))
    BY <1>3, <1>4, <1>5, SoundLand
  <1>. HIDE DEF e
  <1>. QED  BY <1>6, <1>7, <1>8, RerenderedInv

----------------------------------------------------------------------------
(* The order form and the revocation *)

(* At the active card, a status that is not about to be replaced is true. *)
LEMMA SureAtSubmit ==
  ASSUME CardInv, ~lost, ~Unsettled, Shown = "active", ~Replaced("status")
  PROVE  order # {} /\ \A o \in order : o.stage = Delivered
  <1>1. /\ Single(order) /\ \A o \in order : o.stage \in Stages
        /\ page \in Locations \union {"error"}
    BY DEF CardInv, CardType
  <1>2. /\ ~Unusable(cache["status"].data)
        /\ \A v \in cache["status"].data : LeadsTo(v, "active") = {}
    BY <1>1, ViewActive DEF Shown
  <1>3. cache["status"].data \subseteq StatusNow
    BY SoundNow, KeyNames DEF Sound, Good, Replaced
  <1>4. PICK v \in cache["status"].data : v # Error
    BY <1>2 DEF Unusable
  <1>5. v \in StatusNow /\ v \in Values
    BY <1>3, <1>4 DEF StatusNow
  <1>6. v.id > 0 /\ v.stage = Delivered
    BY <1>2, <1>4, <1>5, ActiveIsDelivered
  <1>7. v # NotFound
    BY <1>6, ValueFacts
  <1>8. PICK o \in order : o.stage >= v.stage
    BY <1>4, <1>5, <1>7 DEF StatusNow
  <1>9. o.stage = Delivered
    BY <1>1, <1>6, <1>8 DEF Stages, Delivered
  <1>. QED  BY <1>1, <1>8, <1>9 DEF Single

LEMMA SubmitInv ==
  ASSUME CardInv, NEW s \in Slots, NEW kind \in {"order", "revoke"}, Submit(s, kind)
  PROVE  CardInv'
  <1>. DEFINE b == /\ kind = "revoke" /\ ~Replaced("status")
                   /\ \A t \in Slots : jobs[t] = {}
              n == [kind |-> kind, alive |-> TRUE, shown |-> TRUE, id |-> 0, phase |-> "sent", sure |-> b]
  <1>1. /\ jobs' = [jobs EXCEPT ![s] = {n}] /\ jobs[s] = {}
        /\ UNCHANGED <<Server, page, nav, cache>>
    BY DEF Submit
  <1>2. created' = created /\ order' = order /\ reported' = reported /\ lost' = lost
    BY <1>1 DEF Server
  <1>3. b \in BOOLEAN
    OBVIOUS
  <1>4. b => kind = "revoke" /\ ~Replaced("status") /\ \A t \in Slots : jobs[t] = {}
    OBVIOUS
  <1>. HIDE DEF b
  <1>5. n \in Job /\ n.phase = "sent" /\ n.alive /\ n.sure = b
    BY <1>3, OrdersAssumption DEF Job
  <1>. HIDE DEF n
  <1>6. /\ jobs'[s] = {n} /\ \A t \in Slots : t # s => jobs'[t] = jobs[t]
        /\ jobs' \in [Slots -> SUBSET Job]
    BY <1>1, <1>5 DEF CardInv, CardType
  <1>7. CardType'
    BY <1>1, <1>2, <1>6 DEF CardInv, CardType, Single
  <1>8. Numbered' /\ Reporting'
    BY <1>1, <1>2, <1>5, <1>6 DEF CardInv, Numbered, Reporting
  <1>9. ASSUME ~lost' PROVE Heard' /\ CacheSound' /\ SureDelivered' /\ LateSound'
    <2>1. Heard'
      BY <1>2, <1>5, <1>6, <1>9 DEF CardInv, Heard
    <2>2. Unsettled => Unsettled'
      BY <1>1, <1>6 DEF Unsettled
    <2>3. CacheSound'
      BY <1>1, <1>2, <1>9, <2>2 DEF CardInv, CacheSound, StatusNow, HistoryNow, HistoryKept
    <2>4. b => order # {} /\ \A o \in order : o.stage = Delivered
      <3>1. b => ~Unsettled /\ Shown = "active"
        BY <1>4 DEF Unsettled, Submit
      <3>. QED  BY <1>2, <1>4, <1>9, <3>1, SureAtSubmit
    <2>5. SureDelivered'
      BY <1>2, <1>5, <1>6, <1>9, <2>4 DEF CardInv, SureDelivered
    <2>6. LateSound'
      BY <1>1, <1>2, <1>6, <1>9 DEF CardInv, LateSound, Late
    <2>. QED  BY <2>1, <2>3, <2>5, <2>6
  <1>. QED  BY <1>7, <1>8, <1>9 DEF CardInv

(* One submission goes on, the others stay as they are. *)
Advanced(s, i) ==
    /\ jobs'[s] = i
    /\ \A t \in Slots : t # s => jobs'[t] = jobs[t]
    /\ jobs' \in [Slots -> SUBSET Job]
    /\ \A t \in Slots : Single(jobs'[t])

LEMMA AdvancedJobs ==
  ASSUME CardType, NEW s \in Slots, NEW i \in SUBSET Job, Single(i), jobs' = [jobs EXCEPT ![s] = i]
  PROVE  Advanced(s, i)
  BY DEF CardType, Advanced

LEMMA SingleOf == ASSUME NEW x PROVE Single({x})
  BY DEF Single

(* One order at the most, by its number and its stage. *)
LEMMA OrderType ==
  ASSUME CardType, NEW o \in [id : 1..created', stage : Stages], order' = {o}, created' \in 0..MaxOrders,
         UNCHANGED <<page, nav, cache, lost>>, reported' \in BOOLEAN,
         jobs' \in [Slots -> SUBSET Job], \A t \in Slots : Single(jobs'[t])
  PROVE  CardType'
  <1>1. Single(order')
    BY SingleOf
  <1>2. order' \subseteq [id : 1..created', stage : Stages]
    OBVIOUS
  <1>. QED  BY <1>1, <1>2 DEF CardType

LEMMA CreateOrderInv ==
  ASSUME CardInv, NEW s \in Slots, CreateOrder(s)
  PROVE  CardInv'
  <1>1. PICK j \in jobs[s] :
          /\ j.kind = "order" /\ j.phase = "sent" /\ order = {} /\ created < MaxOrders
          /\ created' = created + 1 /\ order' = {[id |-> created + 1, stage |-> 0]}
          /\ jobs' = [jobs EXCEPT ![s] = {[j EXCEPT !.phase = "created", !.id = created + 1]}]
          /\ UNCHANGED <<reported, page, nav, cache, lost>>
    BY DEF CreateOrder
  <1>. DEFINE n == [j EXCEPT !.phase = "created", !.id = created + 1]
              o == [id |-> created + 1, stage |-> 0]
  <1>2. j \in Job /\ created \in 0..MaxOrders /\ created + 1 \in 1..MaxOrders /\ created + 1 \in 0..MaxOrders
    BY <1>1, OrdersAssumption DEF CardInv, CardType
  <1>3. n \in Job /\ n.phase = "created" /\ n.id = created + 1 /\ (j.alive => n.alive)
    <2>. DEFINE x == created + 1
    <2>1. x \in 0..MaxOrders
      BY <1>2
    <2>. HIDE DEF x
    <2>2. [j EXCEPT !.phase = "created", !.id = x] \in Job
      BY <1>2, <2>1 DEF Job
    <2>3. /\ [j EXCEPT !.phase = "created", !.id = x].phase = "created"
          /\ [j EXCEPT !.phase = "created", !.id = x].id = x
      BY <1>2 DEF Job
    <2>4. j.alive => [j EXCEPT !.phase = "created", !.id = x].alive
      BY <1>2 DEF Job
    <2>. QED  BY <2>2, <2>3, <2>4 DEF x
  <1>4. o \in [id : 1..created', stage : Stages] /\ o.id = created + 1 /\ o.stage = 0
    BY <1>1, <1>2 DEF Stages
  <1>5. order' = {o} /\ jobs' = [jobs EXCEPT ![s] = {n}]
    BY <1>1
  <1>. HIDE DEF n, o
  <1>6. Advanced(s, {n})
    BY <1>3, <1>5, AdvancedJobs, SingleOf DEF CardInv
  <1>7. CardType'
    <2>1. reported' \in BOOLEAN /\ created' \in 0..MaxOrders
      BY <1>1, <1>2 DEF CardInv, CardType
    <2>. QED  BY <1>1, <1>4, <1>5, <1>6, <2>1, OrderType DEF CardInv, Advanced
  <1>8. Numbered'
    <2>1. ASSUME NEW t \in Slots, NEW k \in jobs'[t], k.phase = "created", ~(t = s)
          PROVE  k \in jobs[t] /\ k.id \in 1..created
      BY <1>6, <2>1 DEF Advanced, CardInv, Numbered
    <2>2. ASSUME NEW k \in jobs'[s] PROVE k = n
      BY <1>6, <2>2 DEF Advanced
    <2>. SUFFICES ASSUME NEW t \in Slots, NEW k \in jobs'[t], k.phase = "created"
                  PROVE  /\ k.id \in 1..created'
                         /\ \A x \in order' : x.id = k.id => x.stage = 0
                         /\ \A u \in Slots : \A i \in jobs'[u] : i.phase = "created" /\ i.id = k.id => t = u
      BY DEF Numbered
    <2>3. CASE t = s
      <3>1. k.id = created + 1
        BY <1>3, <2>2, <2>3
      <3>2. \A u \in Slots : \A i \in jobs'[u] : i.phase = "created" /\ i.id = k.id => t = u
        BY <1>2, <2>1, <2>3, <3>1
      <3>. QED  BY <1>1, <1>2, <1>4, <1>5, <3>1, <3>2
    <2>4. CASE t # s
      <3>1. k \in jobs[t] /\ k.id \in 1..created
        BY <2>1, <2>4
      <3>2. \A u \in Slots : \A i \in jobs'[u] : i.phase = "created" /\ i.id = k.id => t = u
        BY <1>2, <1>3, <2>1, <2>2, <2>4, <3>1 DEF CardInv, Numbered
      <3>. QED  BY <1>1, <1>2, <1>4, <1>5, <3>1, <3>2
    <2>. QED  BY <2>3, <2>4
  <1>9. ~reported /\ Reporting'
    BY <1>1 DEF CardInv, Reporting
  <1>10. ASSUME ~lost' PROVE Heard' /\ CacheSound' /\ SureDelivered' /\ LateSound'
    <2>1. Heard'
      BY <1>1, <1>3, <1>6, <1>10 DEF CardInv, Heard, Advanced
    <2>2. Unsettled => Unsettled'
      <3>1. \A i \in jobs[s] : i = j
        BY <1>1 DEF CardInv, CardType, Single
      <3>. QED  BY <1>1, <1>6, <3>1 DEF Unsettled, Advanced
    <2>3. StatusNow \subseteq StatusNow' /\ HistoryNow \subseteq HistoryNow'
      BY <1>1, <1>4, <1>5 DEF StatusNow, HistoryNow
    <2>4. CacheSound'
      BY <1>1, <1>10, <2>2, <2>3, SoundMore DEF CardInv, CacheSound, HistoryKept
    <2>5. SureDelivered'
      BY <1>1, <1>3, <1>6, <1>10 DEF CardInv, SureDelivered, Advanced
    <2>6. LateSound'
      BY <1>1, <1>9 DEF LateSound, Late
    <2>. QED  BY <2>1, <2>4, <2>5, <2>6
  <1>. QED  BY <1>7, <1>8, <1>9, <1>10 DEF CardInv

LEMMA CreateStatusInv ==
  ASSUME CardInv, NEW s \in Slots, CreateStatus(s)
  PROVE  CardInv'
  <1>1. PICK j \in jobs[s] :
          /\ j.phase = "created" /\ \E o \in order : o.id = j.id
          /\ order' = {[o EXCEPT !.stage = 1] : o \in order}
          /\ jobs' = [jobs EXCEPT ![s] = {[j EXCEPT !.phase = "applied", !.id = 0]}]
          /\ UNCHANGED <<created, reported, page, nav, cache, lost>>
    BY DEF CreateStatus
  <1>2. PICK o \in order : o.id = j.id
    BY <1>1
  <1>. DEFINE n == [j EXCEPT !.phase = "applied", !.id = 0]
              m == [o EXCEPT !.stage = 1]
  <1>3. j \in Job /\ o \in [id : 1..created, stage : Stages] /\ order = {o}
    BY <1>1, <1>2 DEF CardInv, CardType, Single
  <1>4. n \in Job /\ n.phase = "applied" /\ (j.alive => n.alive)
    <2>1. 0 \in 0..MaxOrders
      BY OrdersAssumption
    <2>2. n \in Job
      BY <1>3, <2>1 DEF Job
    <2>3. n.phase = "applied" /\ (j.alive => n.alive)
      BY <1>3 DEF Job
    <2>. QED  BY <2>2, <2>3
  <1>5. m \in [id : 1..created, stage : Stages] /\ m.id = o.id /\ m.stage = 1
    BY <1>3 DEF Stages
  <1>6. order' = {m} /\ jobs' = [jobs EXCEPT ![s] = {n}]
    BY <1>1, <1>3
  <1>. HIDE DEF n, m
  <1>7. Advanced(s, {n})
    BY <1>4, <1>6, AdvancedJobs, SingleOf DEF CardInv
  <1>8. CardType'
    <2>1. CardType /\ created' = created /\ created \in 0..MaxOrders /\ reported' \in BOOLEAN
      BY <1>1 DEF CardInv, CardType
    <2>. QED  BY <1>1, <1>5, <1>6, <1>7, <2>1, OrderType DEF Advanced
  <1>9. Numbered'
    <2>1. ASSUME NEW t \in Slots, NEW k \in jobs'[t], k.phase = "created"
          PROVE  t # s /\ k \in jobs[t] /\ k.id # o.id
      BY <1>1, <1>2, <1>4, <1>7, <2>1 DEF Advanced, CardInv, Numbered
    <2>. QED  BY <1>1, <1>5, <1>6, <2>1 DEF CardInv, Numbered
  <1>10. ~reported /\ Reporting'
    BY <1>1 DEF CardInv, Reporting
  <1>11. Unsettled'
    BY <1>4, <1>7 DEF Unsettled, Advanced
  <1>12. ASSUME ~lost' PROVE Heard' /\ SureDelivered' /\ LateSound'
    <2>1. Heard'
      BY <1>1, <1>4, <1>7, <1>12 DEF CardInv, Heard, Advanced
    <2>2. o.stage = 0
      BY <1>1, <1>2 DEF CardInv, Numbered
    <2>3. SureDelivered'
      <3>1. ASSUME NEW t \in Slots, NEW k \in jobs'[t], k.sure, k.phase \in {"sent", "unstatused"}
            PROVE  /\ k.phase = "unstatused" /\ k \in jobs[t]
                   /\ \A x \in order : x.id = k.id
        BY <1>1, <1>2, <1>4, <1>7, <1>12, <2>2, <3>1 DEF CardInv, SureDelivered, Advanced, Delivered
      <3>. QED  BY <1>5, <1>6, <1>2, <3>1 DEF SureDelivered
    <2>4. LateSound'
      BY <1>1, <1>10 DEF LateSound, Late
    <2>. QED  BY <2>1, <2>3, <2>4
  <1>. QED  BY <1>8, <1>9, <1>10, <1>11, <1>12 DEF CardInv, CacheSound

(* A job of which nothing is sure any more. *)
LEMMA UnsureJob ==
  ASSUME NEW j \in Job, NEW i, i = [j EXCEPT !.sure = FALSE]
  PROVE  /\ i \in Job /\ i.phase = j.phase /\ i.id = j.id /\ i.alive = j.alive /\ ~i.sure
  BY DEF Job

(* One revocation goes on as n, and of the others nothing is sure any more. *)
LEMMA RevokingJobs ==
  ASSUME CardType, NEW s \in Slots, NEW j \in jobs[s], NEW n \in Job, Revoking(s, n),
         n.alive = j.alive
  PROVE  /\ jobs' \in [Slots -> SUBSET Job] /\ \A t \in Slots : Single(jobs'[t])
         /\ n \in jobs'[s]
         /\ \A t \in Slots : \A k \in jobs'[t] :
              \/ t = s /\ k = n
              \/ /\ ~k.sure
                 /\ \E i \in jobs[t] : k.phase = i.phase /\ k.id = i.id /\ k.alive = i.alive
  <1>. DEFINE u(i) == [i EXCEPT !.sure = FALSE]
  <1>1. \A i \in Job : u(i) \in Job /\ u(i).phase = i.phase /\ u(i).id = i.id /\ u(i).alive = i.alive /\ ~u(i).sure
    BY UnsureJob
  <1>2. jobs' = [t \in Slots |-> IF t = s THEN {n} ELSE {u(i) : i \in jobs[t]}]
    BY DEF Revoking
  <1>3. jobs \in [Slots -> SUBSET Job] /\ \A t \in Slots : Single(jobs[t])
    BY DEF CardType
  <1>. HIDE DEF u
  <1>4. jobs' \in [Slots -> SUBSET Job] /\ \A t \in Slots : Single(jobs'[t])
    BY <1>1, <1>2, <1>3 DEF Single
  <1>5. ASSUME NEW t \in Slots, NEW k \in jobs'[t], t # s
        PROVE  /\ ~k.sure
               /\ \E i \in jobs[t] : k.phase = i.phase /\ k.id = i.id /\ k.alive = i.alive
    <2>1. PICK i \in jobs[t] : k = u(i)
      BY <1>2, <1>5
    <2>. QED  BY <1>1, <1>3, <2>1
  <1>6. jobs'[s] = {n}
    BY <1>2
  <1>. QED  BY <1>4, <1>5, <1>6

LEMMA DeleteStatusesInv ==
  ASSUME CardInv, NEW s \in Slots, DeleteStatuses(s)
  PROVE  CardInv'
  <1>1. PICK j \in jobs[s] : \E x \in IF order = {} THEN {0} ELSE {o.id : o \in order} :
          /\ j.kind = "revoke" /\ j.phase = "sent"
          /\ order' = {[o EXCEPT !.stage = 0] : o \in order}
          /\ Revoking(s, [j EXCEPT !.phase = "unstatused", !.id = x])
          /\ UNCHANGED <<created, reported, page, nav, cache, lost>>
    BY DEF DeleteStatuses
  <1>2. PICK x \in IF order = {} THEN {0} ELSE {o.id : o \in order} :
          /\ j.kind = "revoke" /\ j.phase = "sent"
          /\ order' = {[o EXCEPT !.stage = 0] : o \in order}
          /\ Revoking(s, [j EXCEPT !.phase = "unstatused", !.id = x])
          /\ UNCHANGED <<created, reported, page, nav, cache, lost>>
    BY <1>1
  <1>3. j \in Job /\ Single(order) /\ order \subseteq [id : 1..created, stage : Stages] /\ created \in 0..MaxOrders
    BY DEF CardInv, CardType
  <1>4. x \in 0..MaxOrders /\ \A o \in order : o.id = x
    BY <1>2, <1>3, OrdersAssumption DEF Single
  <1>5. PICK n : n = [j EXCEPT !.phase = "unstatused", !.id = x]
    OBVIOUS
  <1>6. n \in Job /\ n.phase = "unstatused" /\ n.id = x /\ n.alive = j.alive /\ n.sure = j.sure
    <2>1. n \in Job
      BY <1>3, <1>4, <1>5 DEF Job
    <2>2. n.phase = "unstatused" /\ n.id = x
      BY <1>3, <1>5 DEF Job
    <2>3. n.alive = j.alive /\ n.sure = j.sure
      BY <1>3, <1>5 DEF Job
    <2>. QED  BY <2>1, <2>2, <2>3
  <1>7. /\ jobs' \in [Slots -> SUBSET Job] /\ \A t \in Slots : Single(jobs'[t])
        /\ n \in jobs'[s]
        /\ \A t \in Slots : \A k \in jobs'[t] :
              \/ t = s /\ k = n
              \/ /\ ~k.sure
                 /\ \E i \in jobs[t] : k.phase = i.phase /\ k.id = i.id /\ k.alive = i.alive
    BY <1>2, <1>5, <1>6, RevokingJobs DEF CardInv
  <1>8. /\ \A m \in order' : m.stage = 0 /\ \E o \in order : m.id = o.id
        /\ order' \subseteq [id : 1..created, stage : Stages] /\ Single(order')
        /\ order # {} => order' # {}
    <2>. DEFINE z(o) == [o EXCEPT !.stage = 0]
    <2>1. \A o \in order : z(o) \in [id : 1..created, stage : Stages] /\ z(o).id = o.id /\ z(o).stage = 0
      BY <1>3 DEF Stages
    <2>2. order' = {z(o) : o \in order}
      BY <1>2
    <2>. HIDE DEF z
    <2>. QED  BY <1>3, <2>1, <2>2 DEF Single
  <1>9. CardType'
    BY <1>2, <1>7, <1>8 DEF CardInv, CardType
  <1>10. \A t \in Slots : \A k \in jobs'[t] : k.phase = "created" =>
           \E i \in jobs[t] : i.phase = "created" /\ k.id = i.id
    BY <1>6, <1>7
  <1>11. Numbered'
    BY <1>2, <1>8, <1>10 DEF CardInv, Numbered
  <1>12. Reporting'
    BY <1>2, <1>8, <1>10 DEF CardInv, Reporting
  <1>13. Unsettled' /\ LateSound'
    BY <1>6, <1>7 DEF Unsettled, LateSound
  <1>14. ASSUME ~lost' PROVE Heard' /\ SureDelivered'
    <2>1. Heard'
      BY <1>2, <1>6, <1>7, <1>14 DEF CardInv, Heard
    <2>2. j.sure => order # {}
      BY <1>2, <1>14 DEF CardInv, SureDelivered
    <2>3. \A m \in order' : m.id = x
      BY <1>4, <1>8
    <2>4. SureDelivered'
      BY <1>6, <1>7, <1>8, <2>2, <2>3 DEF SureDelivered
    <2>. QED  BY <2>1, <2>4
  <1>. QED  BY <1>9, <1>11, <1>12, <1>13, <1>14 DEF CardInv, CacheSound

LEMMA DeleteRowInv ==
  ASSUME CardInv, NEW s \in Slots, DeleteRow(s)
  PROVE  CardInv'
  <1>1. PICK j \in jobs[s] :
          /\ j.phase = "unstatused" /\ order' = {} /\ reported' = FALSE
          /\ \A o \in order : o.stage = 0
          /\ Revoking(s, [j EXCEPT !.phase = "applied", !.id = 0, !.sure = FALSE])
          /\ UNCHANGED <<created, page, nav, cache, lost>>
    BY DEF DeleteRow
  <1>2. j \in Job
    BY DEF CardInv, CardType
  <1>3. PICK n : n = [j EXCEPT !.phase = "applied", !.id = 0, !.sure = FALSE]
    OBVIOUS
  <1>4. n \in Job /\ n.phase = "applied" /\ n.alive = j.alive /\ ~n.sure
    <2>1. 0 \in 0..MaxOrders
      BY OrdersAssumption
    <2>2. n \in Job
      BY <1>2, <1>3, <2>1 DEF Job
    <2>3. n.phase = "applied" /\ n.alive = j.alive /\ ~n.sure
      BY <1>2, <1>3 DEF Job
    <2>. QED  BY <2>2, <2>3
  <1>5. /\ jobs' \in [Slots -> SUBSET Job] /\ \A t \in Slots : Single(jobs'[t])
        /\ n \in jobs'[s]
        /\ \A t \in Slots : \A k \in jobs'[t] :
              \/ t = s /\ k = n
              \/ /\ ~k.sure
                 /\ \E i \in jobs[t] : k.phase = i.phase /\ k.id = i.id /\ k.alive = i.alive
    BY <1>1, <1>3, <1>4, RevokingJobs DEF CardInv
  <1>6. CardType'
    BY <1>1, <1>5 DEF CardInv, CardType, Single
  <1>7. \A t \in Slots : \A k \in jobs'[t] : k.phase = "created" =>
           \E i \in jobs[t] : i.phase = "created" /\ k.id = i.id
    BY <1>4, <1>5
  <1>8. Numbered'
    BY <1>1, <1>7 DEF CardInv, Numbered
  <1>9. Reporting' /\ LateSound'
    BY <1>1 DEF Reporting, LateSound, Late
  <1>10. Unsettled'
    BY <1>4, <1>5 DEF Unsettled
  <1>11. ASSUME ~lost' PROVE Heard' /\ SureDelivered'
    <2>1. Heard'
      BY <1>1, <1>4, <1>5, <1>11 DEF CardInv, Heard
    <2>2. SureDelivered'
      BY <1>4, <1>5 DEF SureDelivered
    <2>. QED  BY <2>1, <2>2
  <1>. QED  BY <1>6, <1>8, <1>9, <1>10, <1>11 DEF CardInv, CacheSound

LEMMA AcceptStatusInv ==
  ASSUME CardInv, AcceptStatus
  PROVE  CardInv'
  <1>1. PICK o \in order : o.stage = 1
    BY DEF AcceptStatus
  <1>2. order = {o}
    BY <1>1 DEF CardInv, CardType, Single
  <1>3. reported' = TRUE /\ UNCHANGED <<order, created, page, nav, cache, jobs, lost>>
    BY DEF AcceptStatus
  <1>4. CardType'
    BY <1>3 DEF CardInv, CardType
  <1>5. Numbered'
    BY <1>3 DEF CardInv, Numbered
  <1>6. Reporting'
    BY <1>1, <1>2, <1>3 DEF CardInv, Numbered, Reporting
  <1>7. ASSUME ~lost' PROVE Heard' /\ CacheSound' /\ SureDelivered' /\ LateSound'
    <2>1. Heard' /\ SureDelivered'
      BY <1>3, <1>7 DEF CardInv, Heard, SureDelivered
    <2>2. CacheSound'
      BY <1>3, <1>7 DEF CardInv, CacheSound, Unsettled, StatusNow, HistoryNow, HistoryKept
    <2>3. LateSound'
      BY <1>1, <1>2, <1>3 DEF LateSound, Late
    <2>. QED  BY <2>1, <2>2, <2>3
  <1>. QED  BY <1>4, <1>5, <1>6, <1>7 DEF CardInv

(* The status comes late only while a revocation is under way, and then the *)
(* cache may be behind; at any other time the order goes forward.           *)
LEMMA InsertNewStatusInv ==
  ASSUME CardInv, InsertNewStatus
  PROVE  CardInv'
  <1>1. reported /\ reported' = FALSE /\ UNCHANGED <<created, page, nav, cache, jobs, lost>>
    BY DEF InsertNewStatus
  <1>2. CASE \E n \in {1, Delivered} :
               /\ \A i \in order : i.stage <= n
               /\ order' = {[i EXCEPT !.stage = n] : i \in order}
    <2>1. PICK x \in {1, Delivered} :
            /\ \A i \in order : i.stage <= x
            /\ order' = {[i EXCEPT !.stage = x] : i \in order}
      BY <1>2
    <2>2. reported /\ reported' = FALSE /\ UNCHANGED <<created, page, nav, cache, jobs, lost>>
      BY <1>1
    <2>3. PICK o \in order : TRUE
      BY <2>2 DEF CardInv, Reporting
    <2>4. o \in [id : 1..created, stage : Stages] /\ order = {o}
      BY <2>3 DEF CardInv, CardType, Single
    <2>5. PICK m : m = [o EXCEPT !.stage = x]
      OBVIOUS
    <2>6. /\ m \in [id : 1..created, stage : Stages] /\ m.id = o.id /\ m.stage = x
          /\ x \in {1, 2} /\ o.stage \in {0, 1, 2} /\ o.stage <= x
      BY <2>1, <2>4, <2>5 DEF Stages, Delivered
    <2>7. order' = {m}
      BY <2>1, <2>4, <2>5
    <2>8. CardType'
      <3>1. /\ CardType /\ created' = created /\ created \in 0..MaxOrders /\ reported' \in BOOLEAN
            /\ jobs' \in [Slots -> SUBSET Job] /\ \A t \in Slots : Single(jobs'[t])
        BY <2>2 DEF CardInv, CardType
      <3>. QED  BY <2>2, <2>6, <2>7, <3>1, OrderType
    <2>9. Numbered'
      <3>1. \A t \in Slots : \A k \in jobs[t] : k.phase = "created" => k.id # m.id
        BY <2>2, <2>3, <2>6 DEF CardInv, Reporting
      <3>. QED  BY <2>2, <2>7, <3>1 DEF CardInv, Numbered
    <2>10. Reporting' /\ LateSound'
      BY <2>2 DEF Reporting, LateSound, Late
    <2>11. ASSUME ~lost' PROVE Heard' /\ CacheSound' /\ SureDelivered'
      <3>1. Heard'
        BY <2>2, <2>11 DEF CardInv, Heard
      <3>2. SureDelivered'
        BY <2>2, <2>4, <2>6, <2>7, <2>11 DEF CardInv, SureDelivered, Delivered
      <3>3. CASE o.stage = 0
        <4>1. Late
          BY <2>2, <2>3, <3>3 DEF Late
        <4>2. Unsettled
          BY <2>2, <2>11, <4>1 DEF CardInv, LateSound, Unsettled
        <4>. QED  BY <2>2, <3>1, <3>2, <4>2 DEF CacheSound, Unsettled
      <3>4. CASE o.stage > 0
        <4>1. StatusNow \subseteq StatusNow'
          <5>1. \A v \in Values : v.stage \in Stages
            BY ValueFacts DEF Stages
          <5>. QED  BY <2>4, <2>6, <2>7, <3>4, <5>1 DEF StatusNow, Stages
        <4>2. HistoryNow \subseteq HistoryNow'
          BY <2>4, <2>6, <2>7 DEF HistoryNow
        <4>3. CacheSound'
          BY <2>2, <2>11, <4>1, <4>2, SoundMore DEF CardInv, CacheSound, HistoryKept, Unsettled
        <4>. QED  BY <3>1, <3>2, <4>3
      <3>. QED  BY <2>6, <3>3, <3>4
    <2>. QED  BY <2>8, <2>9, <2>10, <2>11 DEF CardInv
  <1>3. CASE order' = order
    <2>1. CardType' /\ Numbered'
      BY <1>1, <1>3 DEF CardInv, CardType, Numbered
    <2>2. Reporting' /\ LateSound'
      BY <1>1 DEF Reporting, LateSound, Late
    <2>3. ASSUME ~lost' PROVE Heard' /\ CacheSound' /\ SureDelivered'
      <3>1. Heard' /\ SureDelivered'
        BY <1>1, <1>3, <2>3 DEF CardInv, Heard, SureDelivered
      <3>2. CacheSound'
        BY <1>1, <1>3, <2>3 DEF CardInv, CacheSound, Unsettled, StatusNow, HistoryNow, HistoryKept
      <3>. QED  BY <3>1, <3>2
    <2>. QED  BY <2>1, <2>2, <2>3 DEF CardInv
  <1>. QED  BY <1>2, <1>3 DEF InsertNewStatus

(* A submission that has changed the status counts as lost, and one that has *)
(* not leaves at most an order without a status, of which nobody reports.    *)
LEMMA RejectInv ==
  ASSUME CardInv, NEW s \in Slots, Reject(s)
  PROVE  CardInv'
  <1>1. PICK j \in jobs[s] : lost' = (lost \/ j.phase \in {"unstatused", "applied"})
    BY DEF Reject
  <1>2. jobs' = [jobs EXCEPT ![s] = {}] /\ UNCHANGED <<order, created, reported, page, nav, cache>>
    BY DEF Reject
  <1>3. \A i \in jobs[s] : i = j
    BY <1>1 DEF CardInv, CardType, Single
  <1>4. Advanced(s, {})
    <2>1. CardType /\ Single({}) /\ {} \in SUBSET Job
      BY DEF CardInv, Single
    <2>. QED  BY <1>2, <2>1, AdvancedJobs
  <1>5. \A t \in Slots : \A i \in jobs'[t] : t # s /\ i \in jobs[t]
    BY <1>4 DEF Advanced
  <1>6. lost' \in BOOLEAN /\ (~lost' => ~lost /\ j.phase \notin {"unstatused", "applied"})
    BY <1>1 DEF CardInv, CardType
  <1>7. CardType'
    BY <1>2, <1>4, <1>6 DEF CardInv, CardType, Advanced
  <1>8. Numbered'
    BY <1>2, <1>5 DEF CardInv, Numbered
  <1>9. Reporting'
    BY <1>2, <1>5 DEF CardInv, Reporting
  <1>10. ASSUME ~lost' PROVE Heard' /\ CacheSound' /\ SureDelivered' /\ LateSound'
    <2>1. Heard' /\ SureDelivered'
      BY <1>2, <1>5, <1>6, <1>10 DEF CardInv, Heard, SureDelivered
    <2>2. \A t \in Slots : \A i \in jobs[t] : i.phase \in {"unstatused", "applied"} => i \in jobs'[t]
      BY <1>3, <1>4, <1>6, <1>10 DEF Advanced
    <2>3. Unsettled => Unsettled'
      BY <2>2 DEF Unsettled
    <2>4. LateSound'
      BY <1>2, <1>6, <1>10, <2>2 DEF CardInv, LateSound, Late
    <2>5. CacheSound'
      BY <1>2, <1>6, <1>10, <2>3 DEF CardInv, CacheSound, StatusNow, HistoryNow, HistoryKept
    <2>. QED  BY <2>1, <2>4, <2>5
  <1>. QED  BY <1>7, <1>8, <1>9, <1>10 DEF CardInv

LEMMA SettleInv ==
  ASSUME CardInv, NEW s \in Slots, Settle(s)
  PROVE  CardInv'
  <1>1. PICK j \in jobs[s] :
          /\ j.phase = "applied" /\ j.alive
          /\ cache' = [k \in Keys |-> IF k \in InvalidateQueries(j.kind)
                                      THEN Invalidate(cache[k], Observed(k), Me) ELSE cache[k]]
          /\ jobs' = [jobs EXCEPT ![s] = IF Observed("status") THEN {[j EXCEPT !.phase = "waiting"]} ELSE {}]
          /\ UNCHANGED <<Server, page, nav>>
    BY DEF Settle
  <1>2. cache' = [k \in Keys |-> Invalidate(cache[k], Observed(k), Me)]
    BY <1>1 DEF InvalidateQueries
  <1>3. created' = created /\ order' = order /\ reported' = reported /\ lost' = lost /\ page' = page /\ nav' = nav
    BY <1>1 DEF Server
  <1>. DEFINE n == [j EXCEPT !.phase = "waiting"]
              f == IF Observed("status") THEN {n} ELSE {}
  <1>4. j \in Job /\ \A i \in jobs[s] : i = j
    BY <1>1 DEF CardInv, CardType, Single
  <1>5. n \in Job /\ n.phase = "waiting" /\ (j.alive => n.alive)
    <2>1. n \in Job
      BY <1>4 DEF Job
    <2>2. n.phase = "waiting" /\ (j.alive => n.alive)
      BY <1>4 DEF Job
    <2>. QED  BY <2>1, <2>2
  <1>. HIDE DEF n
  <1>6. f \subseteq {n} /\ Single(f) /\ f \in SUBSET Job
    BY <1>5 DEF Single
  <1>7. jobs' = [jobs EXCEPT ![s] = f]
    BY <1>1 DEF n
  <1>. HIDE DEF f
  <1>8. Advanced(s, f)
    BY <1>6, <1>7, AdvancedJobs DEF CardInv
  <1>9. \A t \in Slots : \A i \in jobs'[t] : i = n \/ (t # s /\ i \in jobs[t])
    BY <1>6, <1>8 DEF Advanced
  <1>10. \A k \in Keys : cache[k] \in Entries({Me}, Values) /\ Lone(cache[k]) /\ Observed(k) \in BOOLEAN
    <2>1. \A k \in Keys : Observed(k) \in BOOLEAN
      BY DEF Observed
    <2>. QED  BY <2>1 DEF CardInv, CardType
  <1>11. /\ cache' \in [Keys -> Entries({Me}, Values)]
         /\ \A k \in Keys : Lone(cache'[k])
    <2>1. \A k \in Keys : Invalidate(cache[k], Observed(k), Me) \in Entries({Me}, Values)
      BY <1>10, InvalidateEntry
    <2>2. \A k \in Keys : Lone(Invalidate(cache[k], Observed(k), Me))
      BY <1>10, LoneInvalidate
    <2>. QED  BY <1>2, <2>1, <2>2
  <1>12. CardType'
    BY <1>3, <1>8, <1>11 DEF CardInv, CardType, Advanced
  <1>13. Numbered'
    BY <1>3, <1>5, <1>9 DEF CardInv, Numbered
  <1>14. Reporting'
    BY <1>3, <1>5, <1>9 DEF CardInv, Reporting
  <1>15. ASSUME ~lost' PROVE Heard' /\ SureDelivered' /\ LateSound'
    <2>1. Heard' /\ SureDelivered'
      BY <1>1, <1>3, <1>5, <1>9, <1>15 DEF CardInv, Heard, SureDelivered
    <2>2. LateSound'
      BY <1>1, <1>3, <1>4, <1>8, <1>15 DEF CardInv, LateSound, Late, Advanced
    <2>. QED  BY <2>1, <2>2
  <1>16. CacheSound'
    <2>1. \A good : \A k \in Keys : /\ Sound(cache'[k], good)
                                    /\ Observed(k) => Kept(cache'[k], good)
      BY <1>2, <1>10, InvalidateMakesSound
    <2>2. \A k \in Keys : cache'[k].data = cache[k].data
      <3>1. \A k \in Keys : Invalidate(cache[k], Observed(k), Me).data = cache[k].data
        BY <1>10, EntryIsRecord DEF Invalidate
      <3>. QED  BY <1>2, <3>1
    <2>3. Watched(page', cache') = Watched(page, cache)
      BY <1>3, <2>2, ViewData
    <2>4. \A good : /\ Sound(cache'["status"], good) /\ Sound(cache'["history"], good)
                    /\ "history" \in Watched(page, cache) => Kept(cache'["history"], good)
      BY <2>1, KeyNames DEF Observed
    <2>5. HistoryKept'
      BY <2>3, <2>4 DEF HistoryKept
    <2>. QED  BY <2>4, <2>5 DEF CacheSound
  <1>. QED  BY <1>12, <1>13, <1>14, <1>15, <1>16 DEF CardInv

(* A reload leaves nobody to hear an answer, and nothing in the cache. *)
LEMMA ReloadInv ==
  ASSUME CardInv, NEW p \in Locations, Reload(p)
  PROVE  CardInv'
  <1>. DEFINE u(i) == [i EXCEPT !.alive = FALSE, !.shown = FALSE, !.sure = FALSE]
              left(t) == {i \in jobs[t] : i.phase \in {"sent", "created", "unstatused"}}
  <1>1. /\ page' = "other" /\ nav' = {p} /\ order' = order /\ created' = created /\ reported' = reported
        /\ cache' = Loading(EmptyCache, p)
        /\ jobs' = [t \in Slots |-> {u(i) : i \in left(t)}]
        /\ lost' = (Late \/ \E t \in Slots : jobs'[t] # {})
    BY DEF Reload, EmptyCache
  <1>2. jobs \in [Slots -> SUBSET Job] /\ \A t \in Slots : Single(jobs[t])
    BY DEF CardInv, CardType
  <1>3. \A i \in Job : u(i) \in Job /\ u(i).phase = i.phase /\ u(i).id = i.id
    BY DEF Job
  <1>4. \A t \in Slots : left(t) \subseteq jobs[t]
    OBVIOUS
  <1>. HIDE DEF u, left
  <1>5. jobs' \in [Slots -> SUBSET Job] /\ \A t \in Slots : Single(jobs'[t])
    BY <1>1, <1>2, <1>3, <1>4 DEF Single
  <1>6. /\ cache' \in [Keys -> Entries({Me}, Values)]
        /\ \A k \in Keys : Lone(cache'[k]) /\ \A good : Sound(cache'[k], good)
    BY <1>1, EmptyCacheType, LoadingSound
  <1>7. CardType'
    BY <1>1, <1>5, <1>6 DEF CardInv, CardType, Locations
  <1>8. \A t \in Slots : \A k \in jobs'[t] : \E i \in jobs[t] : k.phase = i.phase /\ k.id = i.id
    BY <1>1, <1>2, <1>3, <1>4
  <1>10. Numbered'
    BY <1>1, <1>8 DEF CardInv, Numbered
  <1>11. Reporting'
    BY <1>1, <1>8 DEF CardInv, Reporting
  <1>12. ASSUME ~lost' PROVE Heard' /\ CacheSound' /\ SureDelivered' /\ LateSound'
    <2>1. (\A t \in Slots : jobs'[t] = {}) /\ ~Late'
      BY <1>1, <1>12 DEF Late
    <2>2. HistoryKept'
      BY <1>1, WatchedKeys DEF HistoryKept
    <2>3. CacheSound'
      BY <1>6, <2>2, KeyNames DEF CacheSound
    <2>. QED  BY <2>1, <2>3 DEF Heard, SureDelivered, LateSound
  <1>. QED  BY <1>7, <1>10, <1>11, <1>12 DEF CardInv

----------------------------------------------------------------------------
(* Invariance *)

LEMMA InitInv == Init => CardInv
  <1>. SUFFICES ASSUME Init PROVE CardInv
    OBVIOUS
  <1>1. cache = EmptyCache
    BY DEF Init, EmptyCache
  <1>2. CardType
    <2>1. cache \in [Keys -> Entries({Me}, Values)] /\ \A k \in Keys : Lone(cache[k])
      BY <1>1, EmptyCacheType
    <2>2. created \in 0..MaxOrders
      BY OrdersAssumption DEF Init
    <2>3. jobs \in [Slots -> SUBSET Job] /\ \A s \in Slots : Single(jobs[s])
      BY DEF Init, Single
    <2>. QED  BY <2>1, <2>2, <2>3 DEF Init, CardType, Locations, Single
  <1>3. Numbered /\ Reporting /\ Heard /\ SureDelivered /\ LateSound
    BY DEF Init, Numbered, Reporting, Heard, SureDelivered, LateSound, Late
  <1>4. CacheSound
    BY <1>1, EmptyCacheType, WatchedKeys, KeyNames DEF Init, CacheSound, HistoryKept
  <1>. QED  BY <1>2, <1>3, <1>4 DEF CardInv

LEMMA StutterInv == CardInv /\ UNCHANGED vars => CardInv'
  <1>. SUFFICES ASSUME CardInv, UNCHANGED vars PROVE CardInv'
    OBVIOUS
  <1>1. JobsAs(jobs')
    BY SameJobs DEF CardInv, vars
  <1>2. ~lost /\ ~Unsettled => /\ Sound(cache'["status"], StatusNow)
                               /\ Sound(cache'["history"], HistoryNow)
                               /\ "history" \in Watched(page', cache') => Kept(cache'["history"], HistoryNow)
    BY DEF CardInv, CacheSound, HistoryKept, vars
  <1>. QED  BY <1>1, <1>2, PageStep DEF CardInv, CardType, vars, Server

LEMMA NextInv == CardInv /\ [Next]_vars => CardInv'
  <1>. SUFFICES ASSUME CardInv, [Next]_vars PROVE CardInv'
    OBVIOUS
  <1>1. ASSUME NEW p \in Locations, Open(p) \/ Arrive(p) \/ Reload(p) PROVE CardInv'
    BY <1>1, OpenInv, ArriveInv, ReloadInv
  <1>2. ASSUME Redirect \/ AcceptStatus \/ InsertNewStatus PROVE CardInv'
    BY <1>2, RedirectInv, AcceptStatusInv, InsertNewStatusInv
  <1>3. ASSUME NEW k \in Keys, Serve(k) \/ Receive(k) \/ FetchFails(k) \/ TurnStale(k) \/ Refocus(k) \/ Collect(k)
        PROVE  CardInv'
    BY <1>3, ServeInv, ReceiveInv, FetchFailsInv, TurnStaleInv, RefocusInv, CollectInv
  <1>4. ASSUME NEW s \in Slots, NEW kind \in {"order", "revoke"}, Submit(s, kind) PROVE CardInv'
    BY <1>4, SubmitInv
  <1>5. ASSUME NEW s \in Slots, \/ CreateOrder(s) \/ CreateStatus(s) \/ DeleteStatuses(s) \/ DeleteRow(s)
                               \/ Reject(s) \/ Settle(s)
        PROVE  CardInv'
    BY <1>5, CreateOrderInv, CreateStatusInv, DeleteStatusesInv, DeleteRowInv, RejectInv, SettleInv
  <1>6. ASSUME UNCHANGED vars PROVE CardInv'
    BY <1>6, StutterInv
  <1>7. Tab => CardInv'
    BY <1>1, <1>2, <1>3, <1>4, <1>5 DEF Tab
  <1>8. Service => CardInv'
    BY <1>2, <1>5 DEF Service
  <1>. QED  BY <1>6, <1>7, <1>8 DEF Next

LEMMA Invariance == Spec => []CardInv
  BY InitInv, NextInv, PTL DEF Spec

----------------------------------------------------------------------------
(* Theorems *)

(* At most one order of the account at a time, one value cached and one    *)
(* request under way for each of the two queries (the ONE table row per     *)
(* account of createCreditCardOrder, and the deduplication of fetches).     *)
THEOREM TypeCorrect == Spec => []TypeOK
  <1>1. CardInv => TypeOK
    BY SingleCardinality DEF CardInv, CardType, TypeOK
  <1>. QED  BY <1>1, Invariance, PTL

(* The history page does not rest on the history of an earlier order: the   *)
(* invalidation of ["credit-card", "status"] by the forms covers the        *)
(* history, and a component that is rendered anew fetches what is stale.    *)
THEOREM HistoryOfTheOrder == Spec => []OldHistoryIsReplaced
  <1>1. ASSUME CardInv PROVE OldHistoryIsReplaced
    <2>. SUFFICES ASSUME Shown = "status", ~lost, ~Unsettled, ~Replaced("status"),
                         NEW v \in cache["status"].data, NEW h \in cache["history"].data,
                         cache["history"].fetch = {}, ~cache["history"].raced
                  PROVE  v.id = h.id
      BY DEF OldHistoryIsReplaced
    <2>1. page \in Locations \union {"error"} /\ Lone(cache["status"]) /\ Lone(cache["history"]) /\ Single(order)
      BY <1>1, KeyNames DEF CardInv, CardType
    <2>2. View(page, cache) = "status"
      BY DEF Shown
    <2>3. "history" \in Watched(page, cache)
      BY <2>2 DEF Watched, Keys
    <2>4. cache["status"].data \subseteq StatusNow /\ cache["history"].data \subseteq HistoryNow
      BY <1>1, <2>3, SoundNow, KeyNames DEF Sound, Kept, Good, Replaced, HistoryKept
    <2>5. v # Error /\ h # Error /\ LeadsTo(v, "status") = {}
      <3>1. /\ ~Unusable(cache["status"].data) /\ ~Unusable(cache["history"].data)
            /\ \A x \in cache["status"].data : LeadsTo(x, "status") = {}
        BY <2>1, <2>2, ViewStatus
      <3>. QED  BY <2>1, <3>1 DEF Unusable, Lone, Single
    <2>6. v \in Values /\ v.id > 0
      BY <2>4, <2>5, StatusIsOfOrder DEF StatusNow
    <2>7. PICK o \in order : o.id = v.id
      BY <2>4, <2>5, <2>6, ValueFacts DEF StatusNow
    <2>8. PICK m \in order : m.id = h.id
      BY <2>4, <2>5 DEF HistoryNow
    <2>. QED  BY <2>1, <2>7, <2>8 DEF Single
  <1>. QED  BY <1>1, Invariance, PTL

(* With no submission under way, and none that changed the status without   *)
(* the tab being told, the status in the cache is that of the account's      *)
(* order, or about to be fetched again; no status is shown only if there is  *)
(* none, though a creation that failed after its first insert may have left  *)
(* the order itself.                                                         *)
THEOREM StatusOfTheOrder == Spec => []StatusIsCurrent
  <1>1. ASSUME CardInv PROVE StatusIsCurrent
    <2>. SUFFICES ASSUME \A s \in Slots : jobs[s] = {}, ~lost, ~Replaced("status"),
                         NEW v \in cache["status"].data, v # Error
                  PROVE  \/ v = NotFound /\ \A o \in order : o.stage = 0
                         \/ \E o \in order : o.id = v.id /\ o.stage > 0 /\ o.stage >= v.stage
      BY DEF StatusIsCurrent
    <2>1. ~Unsettled
      BY DEF Unsettled
    <2>2. v \in StatusNow
      BY <1>1, <2>1, SoundNow, KeyNames DEF Sound, Good, Replaced
    <2>. QED  BY <2>2 DEF StatusNow
  <1>. QED  BY <1>1, Invariance, PTL

(* A revocation that was sent alone, from a page with a settled status, and *)
(* with no answer lost before, deletes the statuses of a delivered order and *)
(* then the row of that one: deleteOrder looks at the account only, in each  *)
(* of its statements, and the page is all that guards it.                    *)
THEOREM RevokesDelivered == Spec => OnlyDeliveredRevoked
  <1>. DEFINE A == \A s \in Slots : ~lost /\ (\A j \in jobs[s] : j.sure) =>
                     /\ DeleteStatuses(s) => \A o \in order : o.stage = Delivered
                     /\ DeleteRow(s) => \A j \in jobs[s], o \in order : o.id = j.id
  <1>1. CardInv => A
    <2>. SUFFICES ASSUME CardInv, NEW s \in Slots, ~lost, \A j \in jobs[s] : j.sure
                  PROVE  /\ DeleteStatuses(s) => \A o \in order : o.stage = Delivered
                         /\ DeleteRow(s) => \A j \in jobs[s], o \in order : o.id = j.id
      OBVIOUS
    <2>1. ASSUME DeleteStatuses(s) PROVE \A o \in order : o.stage = Delivered
      BY <2>1 DEF DeleteStatuses, CardInv, SureDelivered
    <2>2. ASSUME DeleteRow(s), NEW j \in jobs[s] PROVE \A o \in order : o.id = j.id
      <3>1. PICK i \in jobs[s] : i.phase = "unstatused"
        BY <2>2 DEF DeleteRow
      <3>2. i = j
        BY DEF CardInv, CardType, Single
      <3>. QED  BY <3>1, <3>2 DEF CardInv, SureDelivered
    <2>. QED  BY <2>1, <2>2
  <1>. QED  BY <1>1, Invariance, PTL DEF OnlyDeliveredRevoked, A
============================================================================
