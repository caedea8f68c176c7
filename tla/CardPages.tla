------------------------------- MODULE CardPages -------------------------------
(***************************************************************************)
(* The credit card pages of the frontend, in one tab of one customer, over *)
(* the orders of credit-card-order-service (CreditCardOrders) reduced to   *)
(* the one order the account may have. A layout leads from the latest      *)
(* status of the order to the page that fits it: the order form, the       *)
(* history of the order, or the active card with its revocation. Both      *)
(* answers are cached; nothing polls.                                      *)
(***************************************************************************)
EXTENDS Integers, FiniteSets, QueryCache

CONSTANTS
    Slots,      \* bounds the submissions under way at a time
    MaxOrders,  \* bounds the orders of the account; no submission follows the last
    Overlapping,\* bounds the submissions: <<j, k>> if k may follow with j under way
    AfterLoss,  \* bounds the submissions: may one follow a lost answer
    Opened      \* the locations the customer goes to; redirects lead to others

ASSUME OrdersAssumption == MaxOrders \in Nat

VARIABLES
    order,    \* server: the account's order, as a set; at stage 0 it has no status
    created,  \* server: number of orders so far
    reported, \* server: a new status was accepted, and is still to be inserted
    page,     \* the location; "other" is outside of the credit card pages
    nav,      \* the location whose loaders are running, as a set
    cache,    \* queryClient: entries of status and of its history
    jobs,     \* the submission in each slot, as a set
    lost      \* history: a submission changed the status, and the tab was not told so

vars == <<order, created, reported, page, nav, cache, jobs, lost>>

Cards == {"card", "order", "status", "active"}
Locations == Cards \union {"other"}
Keys == {"status", "history"}
Stages == 0..2
Delivered == 2

NotFound == [id |-> 0, stage |-> 0]
Error == [id |-> -1, stage |-> 0]   \* data as well: the provider does not throw
Values == [id : 1..MaxOrders, stage : Stages] \union {NotFound, Error}
Me == "customer"

(* A reload leaves the request to the server, and nobody hears the answer:   *)
(* the job is not alive. created: the order is inserted, its first status is *)
(* not; unstatused: a revocation has deleted the statuses, not the order.    *)
(* id is the order it has inserted, or found (a history variable); sure (one *)
(* more): a revocation that was sent with nothing else under way, at a        *)
(* status that was not about to be replaced, and no other one was at work     *)
(* since.                                                                     *)
Job == [kind : {"order", "revoke"}, alive : BOOLEAN, shown : BOOLEAN, id : 0..MaxOrders,
        phase : {"sent", "created", "unstatused", "applied", "waiting"}, sure : BOOLEAN]

-----------------------------------------------------------------------------
(* What the layout makes of a status on a location: the redirects. *)

(* Mutant: the card of an order still under way is taken for active. *)
LeadsToActive(v, p) ==
    {q \in Cards \ {p} :
        \/ v = NotFound /\ q = "order"
        \/ v.id > 0 /\ q = "active"}

LeadsTo(v, p) ==
    {q \in Cards \ {p} :
        \/ v = NotFound /\ q = "order"
        \/ v.id > 0 /\ v.stage = Delivered /\ q = "active"
        \/ v.id > 0 /\ v.stage # Delivered /\ q = "status"}

Unusable(data) == data \subseteq {Error}

(* What is rendered at location p with the entries c: a location, the error *)
(* page, or a redirect, which renders nothing.                              *)
View(p, c) ==
    CASE p \notin Cards -> p
      [] p \in Cards /\ Unusable(c["status"].data) -> "error"
      [] p \in Cards /\ ~Unusable(c["status"].data) ->
           IF \E v \in c["status"].data : LeadsTo(v, p) # {} THEN "redirect"
           ELSE IF p = "status" /\ Unusable(c["history"].data) THEN "error"
           ELSE p

Shown == View(page, cache)

(* The queries observed there: a render that throws mounts nothing. *)
Watched(p, c) ==
    CASE View(p, c) = "status" -> Keys
      [] View(p, c) \in {"redirect", "card", "order", "active"} -> {"status"}
      [] OTHER -> {}

Observed(k) == k \in Watched(page, cache)

LoaderKeys(p) ==
    CASE p = "status" -> Keys [] p \in Cards \ {"status"} -> {"status"} [] OTHER -> {}

Loading(c, p) == [k \in Keys |-> IF k \in LoaderKeys(p) THEN EnsureData(c[k], Me) ELSE c[k]]

(* What the entry of a key says may be old, but is about to be replaced. *)
Replaced(k) == cache[k].fetch # {} \/ cache[k].stale \/ cache[k].raced

Detached(js) == {[j EXCEPT !.shown = FALSE] : j \in js}

(* A layout or a page that throws is replaced by the error page. *)
Rendered(p, c) == IF View(p, c) = "error" THEN "error" ELSE p

(* The page renders with a new entry of k: a component that was not rendered *)
(* before the redirect was called off mounts, and with it its query.         *)
Rerendered(k, e) ==
    LET c == [cache EXCEPT ![k] = e]
    IN  [q \in Keys |-> IF q \in Watched(page, c) \ Watched(page, cache) THEN Mount(c[q], Me) ELSE c[q]]

(* A fetch of k has ended: onSuccess awaits that of the status, however it  *)
(* ends; the forms unmount if the page throws at what the cache holds now.  *)
Landed(k) ==
    /\ page' = Rendered(page, cache')
    /\ LET left == [s \in Slots |-> {j \in jobs[s] : k = "status" => j.phase # "waiting"}]
       IN  jobs' = [s \in Slots |-> IF page' = "error" THEN Detached(left[s]) ELSE left[s]]

-----------------------------------------------------------------------------
Init ==
    /\ order = {} /\ created = 0 /\ reported = FALSE
    /\ page = "other" /\ nav = {}
    /\ cache = [k \in Keys |-> Empty]
    /\ jobs = [s \in Slots |-> {}]
    /\ lost = FALSE

Server == <<order, created, reported, lost>>

(* A link, or the back button; from the error page as well. *)
Open(p) ==
    /\ p \in Opened /\ (p # page \/ page = "error")
    /\ nav = {} /\ Shown # "redirect"
    /\ nav' = {p}
    /\ cache' = Loading(cache, p)
    /\ UNCHANGED <<Server, page, jobs>>

(* The loaders have answered, the new location renders. *)
Arrive(p) ==
    /\ p \in nav
    /\ \A k \in LoaderKeys(p) : cache[k].data # {}
    /\ page' = Rendered(p, cache)
    /\ nav' = {}
    /\ cache' = [k \in Keys |-> IF k \in Watched(p, cache) THEN Mount(cache[k], Me) ELSE cache[k]]
    /\ jobs' = [s \in Slots |-> Detached(jobs[s])]
    /\ UNCHANGED Server

(* The status does not fit the location: Navigate, instead of the page. *)
Redirect ==
    /\ Shown = "redirect"
    /\ \E v \in cache["status"].data : \E p \in LeadsTo(v, page) :
         /\ nav # {p}
         /\ nav' = {p}
         /\ cache' = Loading(cache, p)
    /\ jobs' = [s \in Slots |-> Detached(jobs[s])]
    /\ UNCHANGED <<Server, page>>

(* A status is still to come for an order that lost those it had. *)
Late == reported /\ \E o \in order : o.stage = 0

(* The page is loaded anew: the cache is empty, the requests go on. *)
Reload(p) ==
    /\ IF page = "error" THEN p \in Opened ELSE p = page
    /\ page' = "other"
    /\ nav' = {p}
    /\ cache' = Loading([k \in Keys |-> Empty], p)
    /\ jobs' = [s \in Slots |-> {[j EXCEPT !.alive = FALSE, !.shown = FALSE, !.sure = FALSE] :
                                   j \in {i \in jobs[s] : i.phase \in {"sent", "created", "unstatused"}}}]
    /\ lost' = (Late \/ \E s \in Slots : jobs'[s] # {})
    /\ UNCHANGED <<order, created, reported>>

-----------------------------------------------------------------------------
(* Fetches. *)

(* A 404 is a status, but an error for the history; of a history, only whose *)
(* it is matters here.                                                        *)
Reply(k) ==
    CASE k = "status" -> IF \E o \in order : o.stage > 0 THEN CHOOSE o \in order : TRUE ELSE NotFound
      [] k = "history" -> IF order # {} THEN [id |-> (CHOOSE o \in order : TRUE).id, stage |-> 0] ELSE Error

Serve(k) ==
    /\ \E r \in cache[k].fetch : r.got = {}
    /\ cache' = [cache EXCEPT ![k] = Answer(@, Reply(k))]
    /\ UNCHANGED <<Server, page, nav, jobs>>

Receive(k) ==
    /\ Answered(cache[k])
    /\ cache' = Rerendered(k, Land(cache[k]))
    /\ Landed(k)
    /\ UNCHANGED <<Server, nav>>

FetchFails(k) ==
    /\ cache[k].fetch # {}
    /\ cache' = Rerendered(k, Land(Answer(cache[k], Error)))
    /\ Landed(k)
    /\ UNCHANGED <<Server, nav>>

TurnStale(k) ==
    /\ cache[k].data # {} /\ ~cache[k].stale /\ cache[k].fetch = {}
    /\ cache' = [cache EXCEPT ![k].stale = TRUE]
    /\ UNCHANGED <<Server, page, nav, jobs>>

Refocus(k) ==
    /\ Observed(k) /\ cache[k].stale
    /\ cache[k].fetch = {}
    /\ cache' = [cache EXCEPT ![k] = Mount(@, Me)]
    /\ UNCHANGED <<Server, page, nav, jobs>>

Collect(k) ==
    /\ ~Observed(k) /\ \A p \in nav : k \notin LoaderKeys(p)
    /\ cache[k].data # {} /\ cache[k].fetch = {}
    /\ cache' = [cache EXCEPT ![k] = Empty]
    /\ UNCHANGED <<Server, page, nav, jobs>>

-----------------------------------------------------------------------------
(* The order form and the revocation. *)

Submit(s, kind) ==
    /\ Shown = IF kind = "order" THEN "order" ELSE "active"
    /\ jobs[s] = {} /\ created < MaxOrders /\ (lost => AfterLoss)
    /\ \A t \in Slots : \A j \in jobs[t] : <<j.kind, kind>> \in Overlapping
    /\ \A t \in Slots : \A j \in jobs[t] : ~j.shown
    /\ jobs' = [jobs EXCEPT ![s] =
          {[kind |-> kind, alive |-> TRUE, shown |-> TRUE, id |-> 0, phase |-> "sent",
            sure |-> /\ kind = "revoke" /\ ~Replaced("status")
                     /\ \A t \in Slots : jobs[t] = {}]}]
    /\ UNCHANGED <<Server, page, nav, cache>>

(* Mutant: the account may order a second card. *)
CreateOrderAgain(s) ==
    \E j \in jobs[s] :
    /\ j.kind = "order" /\ j.phase = "sent"
    /\ created < MaxOrders
    /\ created' = created + 1
    /\ order' = order \union {[id |-> created + 1, stage |-> 0]}
    /\ jobs' = [jobs EXCEPT ![s] = {[j EXCEPT !.phase = "created", !.id = created + 1]}]
    /\ UNCHANGED <<reported, page, nav, cache, lost>>

(* createCreditCardOrder inserts the order, then its first status: each a     *)
(* commit of its own, so either may be the last thing that the handler does. *)
CreateOrder(s) ==
    \E j \in jobs[s] :
    /\ j.kind = "order" /\ j.phase = "sent"
    /\ order = {} /\ created < MaxOrders
    /\ created' = created + 1
    /\ order' = {[id |-> created + 1, stage |-> 0]}
    /\ jobs' = [jobs EXCEPT ![s] = {[j EXCEPT !.phase = "created", !.id = created + 1]}]
    /\ UNCHANGED <<reported, page, nav, cache, lost>>

CreateStatus(s) ==
    \E j \in jobs[s] :
    /\ j.phase = "created"
    /\ \E o \in order : o.id = j.id
    /\ order' = {[o EXCEPT !.stage = 1] : o \in order}
    /\ jobs' = [jobs EXCEPT ![s] = {[j EXCEPT !.phase = "applied", !.id = 0]}]
    /\ UNCHANGED <<created, reported, page, nav, cache, lost>>

(* The job of s goes on as j, and the other revocations are no longer sure. *)
Revoking(s, j) ==
    jobs' = [t \in Slots |-> IF t = s THEN {j} ELSE {[i EXCEPT !.sure = FALSE] : i \in jobs[t]}]

(* deleteOrder names the account: it deletes the statuses of whatever order *)
(* the account has by now, then its cards (which no page shows), and then    *)
(* the order; each delete commits on its own.                                *)
DeleteStatuses(s) ==
    \E j \in jobs[s] :
    /\ j.kind = "revoke" /\ j.phase = "sent"
    /\ order' = {[o EXCEPT !.stage = 0] : o \in order}
    /\ \E n \in IF order = {} THEN {0} ELSE {o.id : o \in order} :
          Revoking(s, [j EXCEPT !.phase = "unstatused", !.id = n])
    /\ UNCHANGED <<created, reported, page, nav, cache, lost>>

(* The foreign key refuses it if the order has got a status meanwhile. *)
DeleteRow(s) ==
    \E j \in jobs[s] :
    /\ j.phase = "unstatused"
    /\ \A o \in order : o.stage = 0
    /\ order' = {} /\ reported' = FALSE
    /\ Revoking(s, [j EXCEPT !.phase = "applied", !.id = 0, !.sure = FALSE])
    /\ UNCHANGED <<created, page, nav, cache, lost>>

(* A report of the third party has found a status that may precede its own, *)
(* or the WorkScheduler one to be followed by CARD_ORDERED.                  *)
AcceptStatus ==
    /\ ~reported /\ \E o \in order : o.stage = 1
    /\ reported' = TRUE
    /\ UNCHANGED <<order, created, page, nav, cache, jobs, lost>>

(* The status is inserted, whatever statuses the order has by now, or the *)
(* statement fails.                                                        *)
InsertNewStatus ==
    /\ reported /\ reported' = FALSE
    /\ \/ UNCHANGED order
       \/ \E n \in {1, Delivered} :
            /\ \A o \in order : o.stage <= n
            /\ order' = {[o EXCEPT !.stage = n] : o \in order}
    /\ UNCHANGED <<created, page, nav, cache, jobs, lost>>

(* Refused, failed at any statement, or done and the answer lost: an error,  *)
(* and nothing is invalidated. What was inserted or deleted before stays so:  *)
(* an order may be left without a status, for good.                          *)
Reject(s) ==
    /\ \E j \in jobs[s] :
         /\ j.phase # "waiting"
         /\ lost' = (lost \/ j.phase \in {"unstatused", "applied"})
    /\ jobs' = [jobs EXCEPT ![s] = {}]
    /\ UNCHANGED <<order, created, reported, page, nav, cache>>

(* Mutant: only the key itself is invalidated, not the history under it. *)
StatusOnly(kind) == {"status"}

(* Mutant: the revocation leaves the cache alone. *)
NewOrderOnly(kind) == IF kind = "order" THEN Keys ELSE {}

(* The prefix ["credit-card", "status"] covers the history as well. *)
InvalidateQueries(kind) == Keys

(* The tab is told, and onSuccess invalidates, whether the form is there or not. *)
Settle(s) ==
    \E j \in jobs[s] :
    /\ j.phase = "applied" /\ j.alive
    /\ cache' = [k \in Keys |-> IF k \in InvalidateQueries(j.kind)
                                THEN Invalidate(cache[k], Observed(k), Me) ELSE cache[k]]
    /\ jobs' = [jobs EXCEPT ![s] = IF Observed("status") THEN {[j EXCEPT !.phase = "waiting"]} ELSE {}]
    /\ UNCHANGED <<Server, page, nav>>

-----------------------------------------------------------------------------
Tab ==
    \/ \E p \in Locations : Open(p) \/ Arrive(p) \/ Reload(p)
    \/ Redirect
    \/ \E k \in Keys : Serve(k) \/ Receive(k) \/ FetchFails(k) \/ TurnStale(k) \/ Refocus(k) \/ Collect(k)
    \/ \E s \in Slots, kind \in {"order", "revoke"} : Submit(s, kind)
    \/ \E s \in Slots : Settle(s)

Service ==
    \/ \E s \in Slots : CreateOrder(s) \/ CreateStatus(s) \/ DeleteStatuses(s) \/ DeleteRow(s) \/ Reject(s)
    \/ AcceptStatus \/ InsertNewStatus

Next ==
    \/ Tab
    \/ Service

Spec == Init /\ [][Next]_vars

-----------------------------------------------------------------------------
TypeOK ==
    /\ created \in 0..MaxOrders /\ Cardinality(order) <= 1
    /\ order \subseteq [id : 1..created, stage : Stages] /\ reported \in BOOLEAN
    /\ page \in Locations \union {"error"} /\ nav \subseteq Locations
    /\ cache \in [Keys -> Entries({Me}, Values)]
    /\ jobs \in [Slots -> SUBSET Job]
    /\ \A s \in Slots : Cardinality(jobs[s]) <= 1
    /\ lost \in BOOLEAN

(* A submission has changed the status, and its answer is still to *)
(* invalidate the cache.                                           *)
Unsettled == \E s \in Slots : \E j \in jobs[s] : j.phase \in {"unstatused", "applied"}

(* The history page never rests on the history of another order than the  *)
(* status: loaders hand out the previous order's history from the cache,  *)
(* and only the invalidation of the prefix makes the page fetch it again, *)
(* once the tab has been told of the submissions that are done.           *)
OldHistoryIsReplaced ==
    Shown = "status" /\ ~lost =>
        \A v \in cache["status"].data, h \in cache["history"].data :
            \/ v.id = h.id
            \/ Unsettled
            \/ cache["history"].fetch # {} \/ cache["history"].raced
            \/ Replaced("status")

(* When no submission is under way, and none changed the status without    *)
(* the tab being told, the cached status is that of the account's order, or *)
(* will be fetched again. No active card that is revoked; and the order     *)
(* form only if the account has no order, or one without a status: what is  *)
(* left of a submission that failed between two statements stays so, and no *)
(* scheduler or late report gives it a status behind the back of the form.  *)
StatusIsCurrent ==
    (\A s \in Slots : jobs[s] = {}) /\ ~lost =>
        \A v \in cache["status"].data :
            \/ v = Error \/ Replaced("status")
            \/ v = NotFound /\ \A o \in order : o.stage = 0
            \/ \E o \in order : o.id = v.id /\ o.stage > 0 /\ o.stage >= v.stage

(* A revocation deletes the statuses of an order that is delivered, as the   *)
(* page says it is, and then the row of that order and of no other, unless    *)
(* another submission was under way (the second of two revocations takes an   *)
(* order made after the first), or the page showed a status that was about    *)
(* to be replaced (loaders hand out what is cached).                          *)
OnlyDeliveredRevoked ==
    [][\A s \in Slots : ~lost /\ (\A j \in jobs[s] : j.sure) =>
          /\ DeleteStatuses(s) => \A o \in order : o.stage = Delivered
          /\ DeleteRow(s) => \A j \in jobs[s], o \in order : o.id = j.id]_vars
=============================================================================
