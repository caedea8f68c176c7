------------------------------ MODULE WebSession ------------------------------
(***************************************************************************)
(* A browser tab of the frontend: who is logged in, which page is shown    *)
(* and which one is loading, the query cache the pages read, and the forms *)
(* that deposit, withdraw and trade. The tab's callbacks run one at a time *)
(* (JavaScript); requests, answers and clicks interleave freely.           *)
(*                                                                         *)
(* The keys of the cache do not name the user. The server is a version     *)
(* number for each user and key: a write of the user raises it. A behaviour *)
(* tracks some of the keys; what is done to the others leaves no trace.    *)
(***************************************************************************)
EXTENDS Integers, Sequences, Frontend, QueryCache

CONSTANTS
    Users,      \* customers of this browser
    NoUser,     \* nobody is logged in
    Visited,    \* for each set of keys to track, the pages the customer goes to
    Slots,      \* bounds the forms that are being submitted at a time
    MaxWrites,  \* bounds the writes of a user to a key
    MaxLogouts, \* bounds the logout requests under way at a time
    Mixed       \* bounds the orders: may a form be submitted with a login late

ASSUME NoUserAssumption == NoUser \notin Users
ASSUME VisitedAssumption ==
    /\ DOMAIN Visited \subseteq SUBSET AllKeys
    /\ \A ks \in DOMAIN Visited : Visited[ks] \subseteq Protected
ASSUME BoundsAssumption == MaxWrites \in Nat /\ MaxLogouts \in Nat \ {0} /\ Mixed \in BOOLEAN

VARIABLES
    session,   \* user-id of sessionStorage
    page,      \* what is shown; blank while a reload fetches
    nav,       \* the page whose loaders are running, as a set
    cache,     \* queryClient: an entry of QueryCache for each key
    jobs,      \* the submission in each slot, as a set
    logins,    \* users whose login request is under way
    logouts,   \* number of logout requests under way
    ledger,    \* server: version of each user's data under each key
    acked,     \* history: version the user was told of, as far as announced
    overtaken  \* history: a late login answer replaced a user without logout

vars == <<session, page, nav, cache, jobs, logins, logouts, ledger, acked, overtaken>>

-----------------------------------------------------------------------------
(* The keys this behaviour tracks, and the pages it goes to. *)
Keys == DOMAIN cache
Links == Visited[Keys]

Observed(k) == k \in PageKeys(page)

-----------------------------------------------------------------------------
(* Submissions. *)

Actions == {f.does : f \in Forms}

(* What its customer may expect to see: the list of transactions is left *)
(* alone by a quick trade.                                               *)
Announced(does) ==
    IF does.sends = quickBuy THEN does.sends \ {"transactions"} ELSE does.sends

Job == [does : Actions, by : Users, shown : BOOLEAN, waiting : BOOLEAN,
        phase : {"sent", "applied", "settling"}, todo : Seq(AllKeys)]

(* The form on display is the one that is pending. *)
Pending == \E s \in Slots : \E j \in jobs[s] : j.shown

Detached(js) == {[j EXCEPT !.shown = FALSE] : j \in js}

(* The refetch of k that a job waits for has ended, however it ended. *)
Release(k) ==
    jobs' = [s \in Slots |->
               {IF j.waiting /\ Head(j.todo) = k
                THEN [j EXCEPT !.waiting = FALSE, !.todo = Tail(@)] ELSE j : j \in jobs[s]}]

-----------------------------------------------------------------------------
Values == [owner : Users, version : Int]

Init ==
    /\ session = NoUser
    /\ page = "login"
    /\ nav = {}
    /\ \E ks \in DOMAIN Visited :
         /\ cache = [k \in ks |-> Empty]
         /\ ledger = [u \in Users |-> [k \in ks |-> 0]]
         /\ acked = [u \in Users |-> [k \in ks |-> 0]]
    /\ jobs = [s \in Slots |-> {}]
    /\ logins = {}
    /\ logouts = 0
    /\ overtaken = FALSE

Server == <<ledger, acked>>
Auth == <<session, logins, logouts, overtaken>>

(* Mutant: the loaders run without a user. *)
LoadingForNobody(c, p, u) ==
    [k \in Keys |-> IF k \in LoaderKeys(p) THEN EnsureData(c[k], NoUser) ELSE c[k]]

(* The loaders of page p, run for user u on the entries c of the cache. *)
Loading(c, p, u) ==
    [k \in Keys |-> IF k \in LoaderKeys(p) THEN EnsureData(c[k], u) ELSE c[k]]

(* loadWithUser: a loader that finds nobody leads to the login instead. *)
Load(p) ==
    /\ nav' = {p}
    /\ cache' = Loading(cache, p, session)

(* The navigation bar. *)
Navigate(p) ==
    /\ session # NoUser /\ page \in Protected
    /\ p \in Links \ InstrumentTransactions /\ p # page /\ p \notin nav
    /\ Load(p)
    /\ UNCHANGED <<page, jobs, Auth, Server>>

(* The card of an instrument: its page begins with the first tab. *)
OpenInstrument ==
    /\ session # NoUser /\ page = "instruments"
    /\ "quick-buy" \in Links \ nav
    /\ Load("quick-buy")
    /\ UNCHANGED <<page, jobs, Auth, Server>>

(* All loaders have answered: the old page unmounts, the new one mounts. *)
Arrive(p) ==
    /\ p \in nav
    /\ \A k \in LoaderKeys(p) \intersect Keys : cache[k].data # {}
    /\ page' = p
    /\ nav' = {}
    /\ cache' = [k \in Keys |-> IF k \in PageKeys(p) THEN Mount(cache[k], session) ELSE cache[k]]
    /\ jobs' = [s \in Slots |-> Detached(jobs[s])]
    /\ UNCHANGED <<Auth, Server>>

(* The page of an instrument that is not in the list leads to the list. *)
InstrumentMissing ==
    /\ page \in InstrumentTransactions /\ "instruments" \notin nav
    /\ "instruments" \in Keys
    /\ \E v \in cache["instruments"].data : v.version = NoVersion
    /\ Load("instruments")
    /\ UNCHANGED <<page, jobs, Auth, Server>>

(* Another tab: its form mounts, the other unmounts and its job stays. *)
SwitchTab(f) ==
    /\ page \in InstrumentTransactions /\ f.at \in Links \ {page}
    /\ page' = f.at
    /\ cache' = [k \in Keys |-> IF k \in f.observes THEN Mount(cache[k], session) ELSE cache[k]]
    /\ jobs' = [s \in Slots |-> Detached(jobs[s])]
    /\ UNCHANGED <<nav, Auth, Server>>

(* The page is loaded anew: everything but the session storage is gone. *)
Reload(p) ==
    /\ page \in Protected \union {"error"}
    /\ CASE page = "error" -> p \in Links \ (InstrumentTransactions \ {"quick-buy"})
         [] page \in InstrumentTransactions -> p = "quick-buy"
         [] OTHER -> p = page
    /\ jobs' = [s \in Slots |-> {}]
    /\ logins' = {} /\ logouts' = 0 /\ overtaken' = FALSE
    /\ IF session = NoUser
       THEN page' = "login" /\ nav' = {} /\ cache' = [k \in Keys |-> Empty]
       ELSE page' = "blank" /\ nav' = {p} /\ cache' = Loading([k \in Keys |-> Empty], p, session)
    /\ UNCHANGED <<session, Server>>

-----------------------------------------------------------------------------
(* Fetches. *)

(* The server answers with what it has now. *)
Serve(k) ==
    /\ \E r \in cache[k].fetch :
         /\ r.got = {}
         /\ cache' = [cache EXCEPT ![k] =
                Answer(@, [owner |-> r.by, version |-> ledger[r.by][k]])]
    /\ UNCHANGED <<page, nav, jobs, Auth, Server>>

(* The answer reaches the tab. *)
Receive(k) ==
    /\ Answered(cache[k])
    /\ cache' = [cache EXCEPT ![k] = Land(@)]
    /\ Release(k)
    /\ UNCHANGED <<page, nav, Auth, Server>>

(* It does not, or says error: the provider makes a list of it, or throws. *)
FetchFails(k) ==
    /\ \E r \in cache[k].fetch :
         cache' = [cache EXCEPT ![k] =
             IF OnFailure[k] = Throws THEN Fail(@)
             ELSE Land(Answer(@, [owner |-> r.by, version |-> NoVersion]))]
    /\ Release(k)
    /\ UNCHANGED <<page, nav, Auth, Server>>

(* Data turns stale after a minute; while a fetch is under way it makes no *)
(* difference, as the next observer waits for that fetch.                  *)
TurnStale(k) ==
    /\ cache[k].data # {} /\ ~cache[k].stale /\ cache[k].fetch = {}
    /\ cache' = [cache EXCEPT ![k].stale = TRUE]
    /\ UNCHANGED <<page, nav, jobs, Auth, Server>>

(* The window gets the focus, or the network is back. *)
Refocus(k) ==
    /\ Observed(k) /\ session # NoUser
    /\ cache[k].fetch = {} /\ (cache[k].data = {} \/ cache[k].stale)
    /\ cache' = [cache EXCEPT ![k] = Mount(@, session)]
    /\ UNCHANGED <<page, nav, jobs, Auth, Server>>

(* Data nobody has observed for five minutes is dropped. *)
Collect(k) ==
    /\ ~Observed(k) /\ \A p \in nav : k \notin LoaderKeys(p)
    /\ cache[k].data # {} /\ cache[k].fetch = {}
    /\ cache' = [cache EXCEPT ![k] = Empty]
    /\ UNCHANGED <<page, nav, jobs, Auth, Server>>

-----------------------------------------------------------------------------
(* Submitting a form. *)

(* The button of the form on display is disabled while it is pending. *)
Submit(s, f) ==
    /\ session # NoUser
    /\ page = f.at /\ jobs[s] = {} /\ ~Pending
    /\ Mixed \/ (logins = {} /\ ~overtaken)
    /\ jobs' = [jobs EXCEPT ![s] =
          {[does |-> f.does, by |-> session, shown |-> TRUE, waiting |-> FALSE,
            phase |-> "sent", todo |-> <<>>]}]
    /\ UNCHANGED <<page, nav, cache, Auth, Server>>

(* The server does what the form asks for. *)
Apply(s) ==
    \E j \in jobs[s] :
    /\ j.phase = "sent"
    /\ \A k \in j.does.sends \intersect Keys : ledger[j.by][k] < MaxWrites
    /\ \A u \in Users \ {j.by}, k \in Keys : ledger[u][k] = 0   \* bounds the writers
    /\ ledger' = [ledger EXCEPT ![j.by] =
                    [k \in Keys |-> IF k \in j.does.sends THEN @[k] + 1 ELSE @[k]]]
    /\ jobs' = [jobs EXCEPT ![s] = {[j EXCEPT !.phase = "applied"]}]
    /\ UNCHANGED <<page, nav, cache, acked, Auth>>

(* The form is told: the invalidations of onSuccess begin, mounted or not. *)
Accept(s) ==
    \E j \in jobs[s] :
    /\ j.phase = "applied"
    /\ jobs' = [jobs EXCEPT ![s] = {[j EXCEPT !.phase = "settling", !.todo = j.does.onSuccess]}]
    /\ acked' = [acked EXCEPT ![j.by] =
                   [k \in Keys |-> IF k \in Announced(j.does) THEN ledger[j.by][k] ELSE @[k]]]
    /\ UNCHANGED <<page, nav, cache, ledger, Auth>>

(* The request is refused, or its answer lost after the server has acted: *)
(* the form reports an error and nothing is invalidated.                  *)
Reject(s) ==
    /\ \E j \in jobs[s] : j.phase \in {"sent", "applied"}
    /\ jobs' = [jobs EXCEPT ![s] = {}]
    /\ UNCHANGED <<page, nav, cache, Auth, Server>>

(* Mutant: a refetch is awaited of a query nobody observes. *)
AwaitedUnseen(k) == k \in Keys

(* onSuccess awaits the refetch only of a query that is observed. *)
Awaited(k) == k \in Keys /\ Observed(k)

Settle(s) ==
    \E j \in jobs[s] :
    /\ j.phase = "settling" /\ ~j.waiting
    /\ IF j.todo = <<>>
       THEN /\ jobs' = [jobs EXCEPT ![s] = {}]
            /\ UNCHANGED cache
       ELSE LET k == Head(j.todo) IN
            /\ cache' = [c \in Keys |-> IF c = k THEN Invalidate(cache[c], Observed(c), session) ELSE cache[c]]
            /\ jobs' = [jobs EXCEPT ![s] =
                 {IF Awaited(k) THEN [j EXCEPT !.waiting = TRUE]
                                ELSE [j EXCEPT !.todo = Tail(@)]}]
    /\ UNCHANGED <<page, nav, Auth, Server>>

-----------------------------------------------------------------------------
(* Logging in and out. *)

(* AuthContext: whoever is logged in by now. *)
login(u) ==
    /\ session' = u
    /\ overtaken' = (overtaken \/ session \notin {NoUser, u})

logout ==
    /\ session' = NoUser
    /\ overtaken' = FALSE

(* PublicLayout: who is logged in is led home. *)
Enter(u) ==
    /\ nav' = {"home"}
    /\ cache' = Loading(cache, "home", u)

(* Mutant: a user is chosen although another is logged in. *)
DefaultLoginAgain(u) ==
    /\ page = "login"
    /\ session' = u /\ Enter(u)
    /\ UNCHANGED <<page, jobs, logins, logouts, Server, overtaken>>

(* The list of preset users: no request is needed. *)
DefaultLogin(u) ==
    /\ page = "login" /\ session = NoUser
    /\ session' = u /\ Enter(u)
    /\ UNCHANGED <<page, jobs, logins, logouts, Server, overtaken>>

SendLogin(u) ==
    /\ page = "login" /\ session = NoUser /\ logins = {}
    /\ logins' = {u}
    /\ UNCHANGED <<session, page, nav, cache, jobs, logouts, Server, overtaken>>

LoginAnswer(u) ==
    /\ u \in logins
    /\ logins' = {}
    /\ login(u)
    /\ IF page = "login" /\ session = NoUser THEN Enter(u) ELSE UNCHANGED <<nav, cache>>
    /\ UNCHANGED <<page, jobs, logouts, Server>>

LoginFails ==
    /\ logins # {}
    /\ logins' = {}
    /\ UNCHANGED <<session, page, nav, cache, jobs, logouts, Server, overtaken>>

(* The menu of the user panel does not wait for an earlier logout. *)
SendLogout ==
    /\ session # NoUser /\ page \notin {"blank", "error"}
    /\ logouts < MaxLogouts
    /\ logouts' = logouts + 1
    /\ UNCHANGED <<session, page, nav, cache, jobs, logins, Server, overtaken>>

(* Mutant: a logout drops the data and leaves the requests under way. *)
LogoutDropData(e) == [Empty EXCEPT !.fetch = e.fetch]

(* logoutInvalidateQuery removes the queries, requests under way included. *)
LogoutInvalidate(e) == Empty

(* ProtectedLayout leads to the login, unless a loader whose request is     *)
(* cancelled has failed before that and the router shows its error page.    *)
LeadToLogin ==
    \/ page' = IF page = "error" THEN "error" ELSE "login"
    \/ /\ \E p \in nav : \E k \in LoaderKeys(p) \intersect Keys : cache[k].data = {}
       /\ page' = "error"

LogoutAnswer ==
    /\ logouts > 0
    /\ logouts' = logouts - 1
    /\ logout
    /\ cache' = [k \in Keys |-> LogoutInvalidate(cache[k])]
    /\ jobs' = [s \in Slots |->
          {IF j.waiting THEN [j EXCEPT !.waiting = FALSE, !.todo = Tail(@), !.shown = FALSE]
                        ELSE [j EXCEPT !.shown = FALSE] : j \in jobs[s]}]
    /\ nav' = {} /\ LeadToLogin
    /\ UNCHANGED <<logins, Server>>

LogoutFails ==
    /\ logouts > 0
    /\ logouts' = logouts - 1
    /\ UNCHANGED <<session, page, nav, cache, jobs, logins, Server, overtaken>>

-----------------------------------------------------------------------------
Next ==
    \/ \E p \in Protected : Navigate(p) \/ Arrive(p) \/ Reload(p)
    \/ OpenInstrument \/ InstrumentMissing \/ \E f \in TabForms : SwitchTab(f)
    \/ \E k \in Keys : Serve(k) \/ Receive(k) \/ FetchFails(k) \/ TurnStale(k) \/ Refocus(k) \/ Collect(k)
    \/ \E s \in Slots : Apply(s) \/ Accept(s) \/ Reject(s) \/ Settle(s)
    \/ \E s \in Slots, f \in Forms : Submit(s, f)
    \/ \E u \in Users : DefaultLogin(u) \/ SendLogin(u) \/ LoginAnswer(u)
    \/ LoginFails \/ SendLogout \/ LogoutAnswer \/ LogoutFails

Spec == Init /\ [][Next]_vars

-----------------------------------------------------------------------------
TypeOK ==
    /\ session \in Users \union {NoUser}
    /\ Keys \in DOMAIN Visited
    /\ page \in Pages /\ nav \in SUBSET Protected
    /\ cache \in [Keys -> Entries(Users, Values)]
    /\ jobs \in [Slots -> SUBSET Job]
    /\ logins \in SUBSET Users /\ logouts \in 0..MaxLogouts
    /\ ledger \in [Users -> [Keys -> Nat]] /\ acked \in [Users -> [Keys -> Nat]]
    /\ overtaken \in BOOLEAN
    /\ session = NoUser => page \in {"login", "error"} /\ nav = {}

(* After a logout nothing of the customer is cached or on its way into the  *)
(* cache, whatever was loading or being submitted: the keys name no user,   *)
(* so the next one to log in would be shown it.                             *)
LogoutForgets == session = NoUser => \A k \in Keys : cache[k] = Empty

(* What the cache holds or is fetching is the data of the user logged in,   *)
(* unless a login answer overtook another login (AuthContext.login replaces *)
(* the user without emptying the cache).                                    *)
OwnData ==
    ~overtaken => \A k \in Keys :
        /\ \A d \in cache[k].data : d.owner = session
        /\ \A r \in cache[k].fetch : r.by = session

(* Once a form has settled, what counts as fresh shows its effect: the      *)
(* entry is stale, or read after the write the customer was told of, but    *)
(* for an answer that raced the invalidation and for the empty list.        *)
FreshIsRecent ==
    \A k \in Keys : \A d \in cache[k].data :
        \/ cache[k].stale \/ cache[k].raced \/ d.version = NoVersion
        \/ d.version >= acked[d.owner][k]
        \/ \E s \in Slots : \E j \in jobs[s] : \E i \in DOMAIN j.todo : j.todo[i] = k

(* Whoever waits for a fetch waits for one that is under way: a page whose  *)
(* loaders run, and a form whose button turns until its refetches are done. *)
NobodyWaitsInVain ==
    /\ \A p \in nav : \A k \in LoaderKeys(p) \intersect Keys :
         cache[k].data # {} \/ cache[k].fetch # {}
    /\ \A s \in Slots : \A j \in jobs[s] :
         j.waiting => j.todo # <<>> /\ cache[Head(j.todo)].fetch # {}
=============================================================================
