# EasyTrade: verification project

EasyTrade (`src/easytrade`) is a stock broker made of about twenty small
services over one SQL Server database.  The repository's other files
(`src/utils.py`, `src/docs`, `src/easytrade/helm`, `src/easytrade/monaco`, ...)
deploy and observe it.  This directory holds TLA+ models of the services that
keep state or coordinate with each other, TLC configurations that check them on
small instances, and TLAPS proofs.  `PROJECT.json` maps every definition to the
source lines it stands for.

## 1. The system

Paths are relative to `src/easytrade/src`.

| component | state it keeps | operations that change it | talks to | what is hard |
|---|---|---|---|---|
| credit-card-order-service (Java) | tables CreditCardOrders, CreditCardOrderStatus, CreditCards | create order, delete order, take a status report; `WorkScheduler` sends new orders to the manufacturer | third-party-service (HTTP, both ways), SQL | every statement is its own transaction; check-then-act; latest status by a one-second timestamp |
| third-party-service (Java) | two in-memory lists of processes | add a process; two scheduler threads walk the lists and report each step | credit-card-order-service, feature-flag-service | lists appended to while iterated; state changed before it is reported; lost on restart |
| broker-service (C#) | tables Balance, BalanceHistory, Ownedinstruments, Trades; flag cache in memory | deposit, withdraw, quick buy/sell, create long trade, process long trades | pricing, account, engine (notifications), feature flags | reads before the transaction, absolute writes, the shared owner account, one transaction over many HTTP calls |
| engine (Java) | a scheduled future | start, stop, and each minute: process long trades | broker-service | no timeout; overlapping runs after a restart |
| feature-flag-service (Java) | in-memory map of flags | set a flag | all | not persisted; every reader is behind by an answer under way |
| problem-operator (Go) | annotations and pod template of a deployment | reconcile flag and deployment | Kubernetes API, feature flags | optimistic updates, retries, rollback to "the previous" replica set |
| contentcreator (Java) | tables Pricing, Trades, BalanceHistory, Accounts | insert a minute of prices, back-fill, prune daily | SQL | SQL errors swallowed between insert and delete; two threads |
| aggregator-service (Go) | a failure counter per platform, clocks | check offers, sign up, pause | offerservice | counter not reset by the pause; slow and failed checks counted together |
| offerservice (TypeScript) | slowdown state (active, platforms) | activate, deactivate | manager, loginservice, feature flags | flag awaited, then applied to shared state |
| loginservice (C#) | tables Accounts, Balance | sign up, create account | SQL | two commits; check-then-insert |
| manager (C#) | table Accounts | modify account | SQL | whole-row overwrite |
| accountservice (Java), pricing-service (Go), calculationservice (C++) | none | | manager, SQL, RabbitMQ | acknowledge before processing |
| frontend (TypeScript, React) | user id in the session storage, the query cache, pending forms, the page and the one that loads | log in and out, navigate, load, refetch, submit a form, invalidate | all services, over HTTP | cache keys that name no user; callbacks between every request and its answer; loaders that hand out what is cached, however old |
| loadgen (TypeScript) | what each visit read, which visit is due | nine kinds of visit, each a sequence of clicks | the frontend, in a browser | amounts computed from what a page showed earlier; steps that go on whatever became of a request |
| rabbitmq, frontendreverseproxy, db | | | | configuration, schema |

What makes each correct: an account has one card order, its statuses follow the
sequence and agree with the tables, and an accepted order is delivered; money
and instruments are neither lost nor overdrawn by concurrent trades, each fee
reaches the owner, a long trade is executed at most once and closed eventually;
a flag switched off is off everywhere within the time to live; the deployment
converges to the flag; the pricing table is never empty; a platform is paused
when and only when it failed often enough; an account has a balance; a page
shows the data of whoever is logged in, and what a customer was told of shows
once it is fresh; a visit does what its name says and ends.

## 2. Plan

Modules in the order in which they are written; each is parameterised by
CONSTANTS with named assumptions, uses no RECURSIVE operator, and gets an MC
module, its runs and, from the same invariants, its theorems.

| no. | module | models | composes with | state of the work |
|---|---|---|---|---|
| 1 | `CreditCardOrders`, abstract `OrderLifecycle` | credit-card-order-service and third-party-service | one module, since they share every step: the reports in flight are calls from one into the other | modelled, checked, every safety property of the passing runs and the refinement proved |
| 2 | `BrokerTrading`, abstract `AtomicExchange` | deposits, withdrawals, quick trades of broker-service | `LongTrades` | modelled, checked, every property of the passing run proved, the refinement included |
| 3 | `LongTrades` | long trades, their batch and notifications, and the scheduler of engine | the tables of `BrokerTrading` | next |
| 4 | `FlagCache` | feature-flag-service and the cached flag reads of broker-service | | |
| 5 | `ProblemOperator` | reconciliation, retries on conflict, rollback to a previous replica set | a cluster with a deployment controller (external) | |
| 6 | `PricingData` | contentcreator: minute prices, back-fill thread, daily refill and delete | | |
| 7 | `Accounts` | sign-up in two commits, account updates that overwrite a row | | |
| 8 | `WebSession` over `Frontend` and `QueryCache` | session, pages, loaders, forms and cache of one tab of the frontend | versions of the users' data stand for the services | modelled, checked, every property proved |
| 9 | `CardPages` over `QueryCache` | the credit card pages | one order, an abstraction of `CreditCardOrders` | modelled, checked, every property proved |
| 10 | `OfferService` | slowdown middleware of offerservice, offer checks, counter and pause of aggregator-service | `FlagPage` | modelled, checked in `FlagPage` |
| 11 | `FlagPage` | the page of the feature flags, and the flag service | composes `OfferService` and `QueryCache` | modelled, checked, the safety properties proved |
| 12 | `LoadVisits` | the visits of the load generator | the forms' validation and the services, reduced to one account | modelled, checked, the safety properties proved |

Abstract specifications still worth stating: a long trade that is executed at
most once and closed (module 3); a flag whose every reader agrees with the
registry within the time to live (module 4).  Still to prove is what the
modules to come will promise.

## 3. The modules and the code

### CreditCardOrders

| state | code |
|---|---|
| `orders`, `owner`, `shipped` | rows of CreditCardOrders, their AccountId, whether ShippingId is set |
| `cards`, `history` | rows of CreditCards per order; statuses of CreditCardOrderStatus per order, in the order of Id |
| `client` | where each POST or DELETE of `OrderController` is |
| `work` | where the run of `WorkScheduler` is, and what its query returned |
| `processes` | `syncList` of `ManufactureScheduler` and of `CourierScheduler` |
| `scan` | position and expected size of each scheduler's iterator, and the processes it will remove |
| `report` | the status report each of the two workers has in flight in the order service |
| `crisis` | the feature flag `factory_crisis` |

The connections are in autocommit mode, so each SQL statement that writes is a
step; a statement that only reads is joined with the step that acts on what it
read unless something may come between them (`CountOrders`, `AcceptStatus`).
A create is `CountOrders`, `InsertNewOrder`, `InsertOrderCreated`; a delete is
`DeleteStatuses`, `DeleteCards`, `DeleteOrders`.  `WorkList`,
`IssueCreditCard`, `RecordCardOrdered` are a run of the `WorkScheduler`.  The
two third-party threads walk their lists (`StartScan`, the `Manufacture...`
steps, `ShipCard`, `DeliverCard`, ..., `FinishScan`, `RemoveRetired`), call the order service
synchronously (`SetAndReport` to `Answer`), and end a run early when the list
was appended to (`AbortScan`, the ConcurrentModificationException of the
iterator).  `ClientRequestFails`, `WorkFails`, `ReportFails`, `AddressFails` and the two
restarts are the faults, `MaxFaults` in all.

What is abstracted: a status carries its type only; the row and its timestamp
are one step; card numbers, names and addresses are left out; `MaxTies` says how many
rows may share the second of the last one, of which `TOP 1 ... ORDER BY
Timestamp DESC` may return any.  Processes are removed from the highest
position to the lowest, which gives the list the code's loop gives.  A
restarted third-party service starts its first run only when the report of its former
life has been handled (`StartScan` waits for it).  The crisis flag is off at the start, its default.
The manufacturer answers every request it accepts with OK, and anything else than its
answer does not parse and ends the run (`WorkFails`), so the branch in which a run goes on
after another status is left out.

`OrderLifecycle` is what the two services promise of one order: its stage goes
from absent to placed, made, shipped and delivered, one at a time and never
back.  The refinement maps the furthest milestone recorded (`Stage`), not the
latest row: CARD_ORDERED may be recorded late, and a failed attempt is no milestone.

### BrokerTrading

| state | code |
|---|---|
| `balance` | table Balance |
| `entries` | table BalanceHistory per account, in the order of insertion |
| `owned` | table Ownedinstruments: the quantities of the rows of an account and instrument, of which there may be several |
| `trades` | table Trades (quick trades) |
| `request` | the request of each client with the objects its DbContext tracks: the balance, the owner's balance, the row of the instrument |

Every read of a row another request may write is a step: `ModifyBalance`,
`BuyAssets` and `SellAssets` read the balance (and check it),
`FindOwnedInstrument` reads the row, in a sale before the transaction and in a
purchase within it, `CollectFee` reads the owner's balance; `CommitTransfer`
and `CommitTrade` write what follows from these reads.  A commit is one step:
the rows it writes stay locked until it ends, and readers wait (READ
COMMITTED); what no lock covers is the time between a request's reads and its
commit.  `Rollback` ends a request anywhere: an error, a deadlock victim, a
refused sale, the trade with the invalid id of `db_not_responding`, a restart.
An account in `Newcomers` has no rows, as after a sign-up, so two first
purchases may add two.  Prices come from pricing-service and are any member of
`Prices`; the product and its fee never change.  Rounding to eight decimals and
overflow of DECIMAL(18,8) are left out.

`AtomicExchange` has one step for each deposit, withdrawal, purchase and sale,
with its condition on the balance and holding at that moment.

### QueryCache and Frontend

`QueryCache` is one entry of the cache of @tanstack/react-query as a value:
`data`, `stale`, and the request under way with the user it was sent for and
what the server has answered.  Its operators are what the frontend's calls do
to an entry: `EnsureData` is `ensureQueryData` of a loader, `Mount` a component
with `useQuery`, `Invalidate` is `invalidateQueries`, `Land` and `Fail` end a
request.  The library is not part of the repository, so these operators are
modelled from its use: an invalidation marks every query under the key,
fetches only those that are observed, and cancels a request under way only if
there is data to keep.  `raced` is a history variable of the one case that
follows: a request that is left under way lands as fresh although the server
had answered it before the invalidation.

`Frontend` is a table of what the components declare: which keys a page
observes, which ones its loaders wait for, and for each form the location, the
keys its request changes and the keys `onSuccess` invalidates, in order.
`OnFailure` says which API functions throw and which return an empty list.
The loaders of the user and of the balance hand out functions, which the
components take for initial data: what is rendered until the first answer lands
is a placeholder of nobody's data, and the entry holds no data in the model.

### WebSession

| state | code |
|---|---|
| `session` | `userId` of `AuthProvider`, in the session storage |
| `page`, `nav` | the location of the router and the one whose loaders run |
| `cache` | the entries of `queryClient` under the tracked keys |
| `jobs` | mutations of the forms: sent, done by the server, invalidating |
| `logins`, `logouts` | requests of `LoginForm` and of `UserPanel` under way |
| `ledger` | the services: a version of each user's data under each key |
| `acked`, `overtaken` | history: what a customer was told of; a late login answer replaced a user |

A step is what JavaScript runs between two awaits: a click, an answer, a
mount with its effects.  `Navigate`, `OpenInstrument`, `Arrive`, `SwitchTab`,
`InstrumentMissing` and `Reload` are the router and the tabs; `Serve`, `Receive`, `FetchFails`,
`TurnStale`, `Refocus` and `Collect` a request and the cache's timers; `Submit`, `Apply`,
`Accept`, `Reject` and `Settle` a form from the click through the invalidations
of `onSuccess`, which run whether or not the form is still mounted, one key
after another, each awaited if somebody observes it; keys outside `Keys` are
passed over.  A logout empties the
cache, cancels requests and leads to the login, or to the router's error page
when it cancels a request a loader waits for.

The number of requests a form may need, amounts and validation are abstracted
to versions; the order of awaits, guards of buttons, and who is mounted are
kept.

### CardPages

The layout of the credit card pages redirects by the latest status; `View` is
that decision, `Redirect` the `<Navigate>` it renders.  `order` is the row of
the account and its stage: without a status, ordered, or delivered.  `jobs` are
orders and revocations; those of `Overlapping` may be sent while another is under
way.  After a `Reload` they go on at the server and nobody hears of them.  A
component newly rendered when a redirect is called off mounts its query
(`Rerendered`).  A 404 is data for the status and an error for the history, and
the error of either is data as well, which makes the page throw.  Of a history,
only whose it is is kept.

Each statement of the service commits on its own.  `CreateOrder` and
`CreateStatus` are the two inserts of `createCreditCardOrder`; `DeleteStatuses`
and `DeleteRow` are the deletes of `deleteOrderForAccountId` (the one of the
cards, between them, no page shows), and `DeleteRow` is refused by the foreign
key if the order has a status again.  `AcceptStatus` is the check of a report, or
the list of the `WorkScheduler`, `InsertNewStatus` the insert that follows, when the
order may be about to go.  `Reject` is an error answered at any of these
points: a creation that failed half-way leaves an order without a status, and a
customer with the order form and the answer that the order exists, for good.
`lost` records that a submission changed the status and its tab was told of
nothing, or of an error: a revocation that failed half-way counts.  `sure` marks a
revocation sent alone, at a status that is not about to be replaced; `Unsettled` is a
submission that has changed the status and is not yet answered.

### OfferService and FlagPage

`request[p]` is where platform `p` of the aggregator is: waiting for its clock,
in the middleware before and after the flag's answer (`asked`, `on`, `off`),
`delayed`, gathering `offers`, or `paused`.  `isActive` and
`affectedPlatforms` are the object `slowdownState` that all requests share.
The flag's value is read in `ResolveFlag` and applied in `ApplyEnabled` or
`ApplyDisabled`, with other requests in between.  `consecutiveFailCounter`
counts failed and slow checks alike and is capped at its limit, as only the
comparison with it matters.  `Trouble`, `ResolveFails` and `Restart` are faults.
A request whose connection breaks while the middleware waits for the flag is not modelled: the
middleware would go on without a platform to answer.

`FlagPage` adds the page: `patterns` is the cached list, reduced to the flag's
chip, `toggle` the button's last press.  The button sends the opposite of what
is cached; the message of success is shown after the refetch it awaits.
`SetElsewhere` is anybody else's request to the flag service, for which the page
prints the curl command.

### LoadVisits

`Run(name)` lists the steps of each visit's `run()`; an action is a step.
`shown` is what the page of a worker shows, brought up to date by `Refetch` at
any moment, the balance and the instruments together or apart, or never; `seen`, `order` and `typed` are what the visit read,
computed and typed.  The calculators are functions of that, with the ends of
the random ranges as the amounts (`Floored`), and the forms' schemas decide
whether a click on the button sends anything.  `requests` are applied or
refused in any order.  `StartRare` and `StartRegular` are the priority provider;
`due` is its interval.

## 4. Runs

| run | instance | shows |
|---|---|---|
| `orders_flow` | one account, two clients (symmetric), two orders, no deletes, two statuses may tie | each order gets one card and is manufactured once; `CreditCardOrders` implements `OrderLifecycle` |
| `orders_live` | as before with factory crises, without ties | an order is delivered, both lists drain; a status descends only by a late CARD_ORDERED |
| `orders_faults` | one client, one order of one of two accounts, deletes for one of them, one fault of any kind at any step | what the statuses say of an order agrees with the tables |
| `orders_one_per_account`, `orders_statuses_ascend`, `orders_deleted_whole` | smallest that shows it | the code violates what its messages and API documentation say, see `findings` |
| `broker_trades` | three accounts, the owner included; the requests of ann overlap with each other, those of bob do not; two clients, three requests, prices 1 and 2, amounts -1 to 2 | bounds on what overlapping requests do to balances and holdings; `BrokerTrading` implements `AtomicExchange` for the accounts whose requests do not overlap |
| `broker_fees` | two clients of different accounts | a fee is lost |
| `web_session` | two users, one form under way per slot, one write per key, two logout requests; three sets of keys with the pages that use them | a logout forgets, nobody sees another's data, what is fresh shows what was announced, nobody waits in vain |
| `web_cards` | two orders one after the other, two submissions at a time of which the first is a revocation | the pages end up with the account's order, and with the form only for none or one without a status; only a delivered card is revoked |
| `flags_offers` | two platforms, one of them affected, two failures to a pause, switches and faults without bound | message and list agree; a slowdown keeps its platforms, takes effect and passes |
| `loadgen_visits` | one worker, all nine visits, amounts up to 2, market and account change at any moment | orders are as named, only active cards are revoked, every visit ends, a rare one starts |

Why the bounds suffice.  Credit cards: two orders are what a scheduler can
confuse, skip or remove wrongly; both lists then hold two processes and are
appended to during a run, and the `WorkScheduler` has a second order to
interrupt it.  One fault at every step covers each partial failure by itself,
not combinations of two.  Broker: a lost update takes two requests, a third reads
what they left (a duplicate row takes two purchases and shows in a sale); the
negative amount only exercises the refusal.

Frontend: two users are one whose data may leak and one who may see it.  Keys
interact only through a form that writes several and through a page that needs
several, so each set of keys of `MCVisited` is explored with all pages that use
it: the balance and the instruments of quick trades, the transactions, and the
user with the balance.  A second write of one key adds nothing to "fresh and older than
announced"; two logout requests are the second one answered in the next user's
session.  `Mixed = FALSE` leaves out submissions while a login is late or has
overtaken a session, for which no property promises anything.  The user who writes is the
only one who does (`Apply`), as a version of another user's data would only
rename the first.  In `CardPages` two orders are the cached one and the present
one; a revocation or an order may follow while a revocation is under way
(`Overlapping`), and after the last order nothing is submitted, as after a lost
answer (`AfterLoss`), when the properties promise nothing.  The theorems hold
for every value of these.
Offers: with
two platforms one is affected and one is not; a limit of two
separates a failure from the last one.  Visits: one worker, because all that
another visit of the same user does to the account is among
`LongTradesClose`, `PriceMoves` and `DeliverCard`, at any moment and in any amount; orders of cards
are the exception and come from rare visits only.  `IntervalElapsed` assumes that the time
between two of them (30 minutes by default, `loadgen` accepts any number) is longer than a visit
with its requests: with a shorter one, rare visits overlap and `RevokesActive` is not promised.

`CHECK_DEADLOCK FALSE` in the configurations of the order service, the broker, `WebSession` and
`CardPages`: orders, requests and faults are bounded, and a system with nothing
to do is at rest.  `FlagPage` and `LoadVisits` never rest and are checked for
deadlock.

Fairness (`orders_live`) is weak fairness of each thread: `scheduleAtFixedRate`
starts the runs of the `WorkScheduler`, the manufacturer and the courier for
ever, and an HTTP request accepted is worked on.  It is strong for
`ManufactureSucceeds` only: each attempt outside a crisis succeeds with a
probability of 80 % and is repeated on the next run.  Neither
clients nor the crisis flag are assumed fair; `OrderDelivered` promises
delivery only if the crises end.  The broker has no liveness property: a
request that is rolled back is not repeated.

`OfferFairness` is weak fairness of each platform: its clock ticks for ever, a
check is one request at a time (a blocking clock) and `time.Sleep` returns.
Whoever sets the flag is not assumed fair, and the properties ask that faults stop.
`LoadVisits` assumes that a worker whose context is free asks for the next
visit, that a step is taken or times out (puppeteer's default), and that a
request does not stay under way for ever.  `WebSession` and `CardPages` state
no fairness: a customer may leave at any moment, and `NobodyWaitsInVain` is the
safety part of "a form settles".

## 5. Proofs

| module | theorem | says |
|---|---|---|
| `CreditCardTables_proofs` | `TypeCorrect` | `Spec => []TypeOK` |
| | `ShippedIsShipped`, `StartsWithCreation`, `CreatedIsStored` | `[]ShippedHasShippingId`, `[]HistoryStartsWithCreation`, `[]CreatedHasCard` |
| `CreditCardFlow_proofs` | `OneCard` | `[](faults = 0 => OneCardPerOrder)` |
| | `ManufactureOnce` | `[](faults = 0 => ManufacturedOnce)`, if no order is deleted |
| | `OnlyLateDescends` | `[](faults = 0 => OnlyLateOrderedDescends)`, if no order is deleted and no timestamps tie |
| | `ImplementsLifecycle` | `FollowsLifecycle`, the refinement of `OrderLifecycle`, without deletes and faults |
| `BrokerTrading_proofs` | `TypeCorrect`, `NeverShort`, `NeverOverdrawn` | `[]TypeOK`, `[]NoShortSelling`, `[]NobodyOverdrawn` |
| | `LossesShow`, `NothingMadeUp`, `OneRow` | `[]LossIsVisible`, `[]NothingInvented`, `[]OneRowEach` |
| | `TradesAreAtomic` | `ImplementsExchange`, the refinement of `AtomicExchange` |
| `WebSession_proofs` | `LogoutIsComplete`, `NobodyElsesData` | `[]LogoutForgets`, `[]OwnData` |
| | `TypeCorrect`, `FreshShowsEffects`, `NobodyWaits` | `[]TypeOK`, `[]FreshIsRecent`, `[]NobodyWaitsInVain` |
| `CardPages_proofs` | `TypeCorrect`, `HistoryOfTheOrder`, `StatusOfTheOrder` | `[]TypeOK`, `[]OldHistoryIsReplaced`, `[]StatusIsCurrent` |
| | `RevokesDelivered` | `OnlyDeliveredRevoked`, an action property |
| `FlagPage_proofs` | `TypeCorrect`, `MessageTellsTruth` | `[]TypeOK`, `[]SuccessIsShown` |
| | `DrawnOnce` | `AffectedStay`, an action property |
| `LoadVisits_proofs` | `TypeCorrect` | `[]TypeOK` |
| | `OrdersNamed`, `ActiveIsRevoked` | `OrdersAreAsNamed`, `RevokesActive`, action properties |

All for every value of the constants that satisfies the named ASSUMEs of the
modules, which TLC evaluates on every run, and the hypotheses in the table.
`QueryCache_proofs` holds what the frontend's three modules share.

### Credit cards

`TypeInv` is `TypeOK` and `HoldsOrder`: a client or worker between two
statements of one order holds an order and not `None`, without which the
functional updates of `history` and `cards` say nothing.  `ShipInv` adds to it
`Drawn` (every order held anywhere has been drawn, so a fresh GUID is no one's)
and `Stored` (a report of a shipped card whose details are stored is about an
order that has its shipping id, or that is deleted): a worker that is about to
insert CARD_SHIPPED stored the shipping id one step earlier, and without
`Drawn` the order inserted now might be the one a stale report is about.

`HistInv` is the same argument for the history and the cards: what a client
that deletes (`Deleting`) or creates (`Creating`) has done so far, that only an
order with a status is commissioned (`Commissioned`) or reported on
(`Reported`), and that a report of a created card that is about to insert its
status has stored the card (`CardStored`).

`FlowInv` follows an order from table to table.  It adds `RowsKept` (an order
that nobody may delete keeps its row) and, until something fails, `Calm`: an
order whose first status is still to come has none and is not listed by the
scheduler (`NewIsBlank`), one that the scheduler has still to commission has
nothing but its creation to it (`PendingIsFresh`), no status or card is left
without the row of its order (`NoDangling`), each worker works on its own
statuses (`Kinds`) and waits exactly while its report of the current process is in flight
(`Synchronous`), the manufacturer has an order once (`Distinct`), no card is
made before its process says so and each only once (`UnmadeYet`, `MadeOnce`),
and what a process and a recorded milestone presuppose is recorded
(`AllBacked`, `Chained`).
The hypothesis `faults = 0` is what the code needs: after a commission that
failed halfway the scheduler issues the order again, as `orders_faults` and its
finding show.  `ManufactureOnce` and the refinement ask for no deletes, since
an order that is deleted leaves its processes behind.  For
`OnlyLateDescends` two parts more: the manufacturer and the courier never have
the same order to report on (`Apart`), so what `actOnNewStatus` read as the
last status is still the last one when it inserts (`Ahead`) — unless the
scheduler inserts CARD_ORDERED late, which is the exception the property names.

### The broker

`NoShortSelling` and `NobodyOverdrawn` rest on what requests hold while other
requests commit.  `StockInv` adds `RowChecked` to `TypeOK`: a sale tracks a
row, and the quantity it has read is at least the amount it sells.  `CashInv`
adds `BalanceChecked`: a balance that was read is not negative, unless its
account had sold at a loss by then, and covers what the request spends.
Neither compares what a request holds with the tables' present values, and a
sale at a loss, once recorded, stays recorded (`LossRemains`); so both survive
every interleaving.  That is the argument of the code, too: a request checks
the very values it will overwrite, which loses updates but overdraws nothing.

`LossIsVisible` and `NothingInvented` speak of sums over sequences, defined by
folds.  What a fold computes is proved without induction over data: were it
not the sum of all terms, there would be a least prefix on which it is not
(`NatMin`, from the set form of well-founded induction), and one term less
is a smaller one.  `ToldInv` then says that the entries of an account lead
from its opening to its balance; `RangeInv` that every balance, stored or held by
a request, lies in the range its entries allow, which more entries only widen.

`OneRowEach` and the refinement concern the accounts of one client whose
requests do not overlap (`Exclusive`).  `AloneInv`: the account has one request
at a time, what it has read is still what the tables hold (`UpToDate`), and an
instrument has one row at most.  So a commit that the tables see in several
statements is, for these accounts, one step of `AtomicExchange`, and every
other step of it leaves them alone.

### The frontend

`QueryCache_proofs` proves of each operation on an entry that it keeps the entry within
the users and values it is given, with one request at most (`Lone`), and when
data may be relied on: an entry is `Sound` for a set of good values if its data
is good, or stale, or raced an invalidation, and what a request under way has
been answered is good or raced one; `Kept` is the same of an entry that is
observed and does not stay stale.

`TabInv` is the argument of `WebSession` in one formula: with nobody logged in
the cache is empty, nothing loads, and the page is one that observes nothing;
with a user, if no login came late, every entry is an entry of that user.  One
lemma about a step serves both the typing of the cache and its ownership.  The
page must be part of it: a form that settles after the logout still
invalidates, and refetches only what is observed, which on the login page is
nothing.

`SessionInv` adds what `FreshIsRecent` and `NobodyWaitsInVain` need, again
for any number of forms under way at a time.  A slot has one submission; one
that has not been told of its success owes no invalidation, and one whose
button still turns waits for the first of the keys it owes (`JobsOK`).  What a
customer was told of is in the ledger (`AckOK`).  And each key is either still
owed by some form (`Unsettled`) or its entry is sound for the versions at
least as recent as what was told (`Recent`).  The key a form waits for no longer
counts as owed, since its invalidation is done and only the fetch is to come.

`CardInv` says who will insert the first status of an order without one
(`Numbered`), that no report is under way of an order still being created
(`Reporting`) and, while nothing is lost, that somebody hears of every submission
(`Heard`), that except between a submission that has changed the status and its
answer both entries are sound for the order the account has now
(`CacheSound`), that a status may still come to an order that lost its own only as
long as its revocation is under way (`LateSound`), and that a revocation sent
alone, at a status that is not about to be replaced, finds a delivered card and
keeps to that order between its deletes (`SureDelivered`).  An order left without a status by a
failed creation needs no clause of its own: nobody reports of it, and to the
cache it is no order (`StatusNow`).  The proof for every set of
submissions that may overlap found the model wrong where the runs did not look: a
component newly rendered because a redirect is called off mounts its query and
fetches, which `Rerendered` now models as the library does.

`PageInv` of the feature flags: a toggle that is done holds until somebody else
sets the flag (`DoneHolds`), the list a button was pressed on stays
(`ListStays`), so the invalidation replaces the request under way and the
answer that the message waits for has what was asked for (`AnswersShow`).
`SlowdownType` counts the platforms drawn, which `AffectedStay` needs.

### The load generator

`WellRun` holds of each run of a visit: it starts with the login, a step is
followed by another unless it is the logout, and what a step relies on is what
the one before it leaves.  `VisitsInv` is `TypeOK` with the shape of a visit
and, of each worker, that a visit which looks or calculates has a price on its
page (a page that shows units shows their price), and that one about to
schedule has typed the amount of an order that is as its name says (`AsNamed`).
So a refetch between two steps changes what is shown, and not what was
computed.  `MoneyAssumption` lets the account start within its bounds, and
`VisitsAssumption` names the visits that have a run.

`RareInv` is for `RevokesActive`, with any number of workers where the run has
one: no rare visit is under way when the next is due, hence one at a time
(`Rare`), and with nobody else to order or revoke, a card that the visit has
seen active stays so until its request is applied (`RareOK`).  It rests on
`IntervalElapsed`: the time between rare visits outlasts a visit and its
requests.

### Out of reach

Left to TLC: the liveness properties (`OrderDelivered`, `ListsDrain`,
`SlowdownTakesEffect`, `SlowdownPasses`, `VisitsEnd`, `RareVisitsStart`), which
need fairness.  Every other property of the passing runs is a theorem, under the
hypotheses in the table; the four findings are disagreements, which TLC shows.

## 6. Not modelled

`PROJECT.json` lists the components with reasons.  Out of scope for good: the
servers' configuration, deployment and dashboards; of the frontend the sign-up form, the version
page, prices and their charts, tables, formatting, themes, business events,
auto-fill, mock data and tests; of the load generator its configuration, its statistics and
the browser pool of a library.  pricing-service and calculationservice keep no
state of their own.  SQL Server, the Kubernetes API, the query cache's library
and the HTTP libraries are external and enter as assumptions named above.  The
remaining services are modules 3 to 7 of the plan.

Met while modelling, and not the subject of a run:

* `frontend/src/components/forms/DepositForm.tsx:138` resets the form after a
  success, and the watcher of the form's values clears the message of success
  with it.
* The calculators of `loadgen/src/visits/depositAndLongBuy.ts:139` and `:161`
  document an amount "between 1 and maximum", and floor to 0 when the deposit is less than the price;
  the form then refuses the order (`Floored`, `LongValid`).
* `sellAndWithdraw.ts` withdraws at least a minimum that the balance may not
  cover, and the request is refused (`Withdraw`, `Apply`).
* `aggregator-service/offer/offerprovider.go:52` encodes the query of the
  filter and does not store it in the URL.
* `getConfig` of the frontend answers that flags may be managed when it cannot be reached, and
  feature-flag-service does not enforce the setting (`ManagementShown`, `ApplyToggle`).
* An order whose first status could not be inserted is shown as no order, and
  a new one is refused (`CreateStatus`, `Reject`, `Reply`, `StatusIsCurrent`).
* A quick trade does not invalidate the list of transactions (`Announced`).
