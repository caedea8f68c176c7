-------------------------- MODULE CreditCardOrders --------------------------
(***************************************************************************)
(* The credit card pipeline of EasyTrade: credit-card-order-service (the   *)
(* order API over an SQL database, and its WorkScheduler) together with    *)
(* third-party-service (an in-memory manufacturer and courier, each run by *)
(* a scheduler thread of its own).                                         *)
(*                                                                         *)
(* Every SQL statement of the order service is its own transaction (the    *)
(* connections are in autocommit), so each statement that changes a table  *)
(* is a step of its own, and what a handler read may be stale when it      *)
(* writes.  The two schedulers of the third party call the order service   *)
(* synchronously: a worker has at most one status report in flight.        *)
(***************************************************************************)
EXTENDS Integers, Sequences, FiniteSets

CONSTANTS
    Accounts,     \* accounts that may order a card
    OrderIds,     \* the GUIDs insertNewOrder may draw; bounds the orders
    Clients,      \* concurrent users of the order API
    None,         \* no account, no order
    Deletable,    \* accounts for which DELETE /v1/orders/{accountId} is called
    Modifiable,   \* whether factory_crisis may be switched (ENABLE_MODIFY)
    MaxTies,      \* how many status rows share their second with the last one
    MaxFaults     \* bound on SQL errors, lost replies and restarts

ASSUME ModifiableIsBoolean  == Modifiable \in BOOLEAN
ASSUME BoundsAreNaturals    == MaxTies \in Nat /\ MaxFaults \in Nat
ASSUME DeletableAreAccounts == Deletable \subseteq Accounts
ASSUME NoneIsNoValue        == None \notin Accounts /\ None \notin OrderIds

VARIABLES
    orders,     \* table CreditCardOrders: ids of the rows present
    owner,      \* AccountId of each order ever inserted (a GUID is drawn once)
    shipped,    \* orders whose ShippingId column is set
    cards,      \* table CreditCards: number of rows of each order
    history,    \* table CreditCardOrderStatus: the statuses of each order, by Id
    client,     \* the request each client has in flight
    work,       \* the run of the WorkScheduler
    processes,  \* ManufactureScheduler.syncList and CourierScheduler.syncList
    scan,       \* the run of each third-party scheduler over its list
    report,     \* the POST /v1/orders/{id}/status each worker has in flight
    crisis,     \* the feature flag factory_crisis
    faults      \* faults so far (bounded by MaxFaults)

tables    == <<orders, owner, shipped, cards, history>>
thirdParty == <<processes, scan>>
budget    == <<crisis, faults>>
vars == <<tables, client, work, thirdParty, report, budget>>

----------------------------------------------------------------------------
(* StatusType: every status with its place in the sequence.  SEQUENCE_ERROR *)
(* (99) is never sent or stored.                                            *)
StatusSequence ==
    [ORDER_CREATED |-> 10, CARD_ORDERED |-> 20, CARD_ERROR |-> 30,
     CARD_CREATED |-> 39, CARD_SHIPPED |-> 40, CARD_DELIVERED |-> 50]
StatusType == DOMAIN StatusSequence

Workers == {"manufacturer", "courier"}

ManufactureStatus == {"ISSUING", "MANUFACTURE_ERROR", "CARD_CREATED"}
CourierStatus     == {"NEW_CARD_RECEIVED", "CARD_SENT", "CARD_DELIVERED"}
Process == [order : OrderIds, status : ManufactureStatus \union CourierStatus]

IdleClient == [pc |-> "idle", account |-> None, order |-> None]
IdleWork   == [pc |-> "idle", todo |-> {}, order |-> None]
IdleScan   == [pc |-> "idle", at |-> 1, size |-> 0, done |-> {}]
NoReport   == [pc |-> "none", type |-> "ORDER_CREATED", order |-> None]

(* SELECT ... FROM CreditCardOrders WHERE AccountId = a *)
OrdersOf(a) == {o \in orders : owner[o] = a}

Recorded(o, type) == \E i \in 1..Len(history[o]) : history[o][i] = type

(***************************************************************************)
(* getLastOrderStatus: TOP 1 ... ORDER BY Timestamp DESC.  Timestamps have *)
(* a resolution of one second (datetimeoffset(0)), and SQL Server returns  *)
(* any row of the last second: the last row or one of the MaxTies before.  *)
(***************************************************************************)
LatestByTimestamp(o) ==
    {history[o][i] : i \in {j \in 1..Len(history[o]) : Len(history[o]) - j <= MaxTies}}

(* Mutant: min(Id) in the query of getOrderIdsWithStatusOrderCreated *)
EarliestById(o) == history[o][1]

(* The row with the greatest Id, as getOrderIdsWithStatusOrderCreated picks *)
LatestById(o) == history[o][Len(history[o])]

(* insertNewStatus on an order whose row exists *)
InsertNewStatus(o, type) == history' = [history EXCEPT ![o] = Append(@, type)]

Init ==
    /\ orders = {}
    /\ owner = [o \in OrderIds |-> None]
    /\ shipped = {}
    /\ cards = [o \in OrderIds |-> 0]
    /\ history = [o \in OrderIds |-> << >>]
    /\ client = [c \in Clients |-> IdleClient]
    /\ work = IdleWork
    /\ processes = [w \in Workers |-> << >>]
    /\ scan = [w \in Workers |-> IdleScan]
    /\ report = [w \in Workers |-> NoReport]
    /\ crisis = FALSE
    /\ faults = 0

----------------------------------------------------------------------------
(* POST /v1/orders: createCreditCardOrder, three autocommitted statements.  *)

(* getOrderCountForAccountId returned 0; any other count answers 400. *)
CountOrders(c, a) ==
    /\ client[c].pc = "idle"
    /\ OrdersOf(a) = {}
    /\ client' = [client EXCEPT ![c] = [pc |-> "counted", account |-> a, order |-> None]]
    /\ UNCHANGED <<tables, work, thirdParty, report, budget>>

(* UUID.randomUUID(): a GUID never drawn before, no matter which. *)
FreshGuid == CHOOSE o \in OrderIds : owner[o] = None

InsertNewOrder(c) ==
    /\ client[c].pc = "counted"
    /\ \E o \in OrderIds : owner[o] = None
    /\ owner' = [owner EXCEPT ![FreshGuid] = client[c].account]
    /\ orders' = orders \union {FreshGuid}
    /\ client' = [client EXCEPT ![c].pc = "inserted", ![c].order = FreshGuid]
    /\ UNCHANGED <<shipped, cards, history, work, thirdParty, report, budget>>

(* The foreign key refuses the status of an order deleted meanwhile: 500. *)
InsertOrderCreated(c) ==
    LET o == client[c].order IN
    /\ client[c].pc = "inserted"
    /\ \/ o \in orders /\ InsertNewStatus(o, "ORDER_CREATED")
       \/ o \notin orders /\ UNCHANGED history
    /\ client' = [client EXCEPT ![c] = IdleClient]
    /\ UNCHANGED <<orders, owner, shipped, cards, work, thirdParty, report, budget>>

----------------------------------------------------------------------------
(* DELETE /v1/orders/{accountId}: deleteOrderForAccountId, three statements. *)
(* The first two compare with a subquery that fails on more than one order.  *)

DeleteStatuses(c, a) ==
    /\ client[c].pc = "idle"
    /\ Cardinality(OrdersOf(a)) <= 1
    /\ history' = [o \in OrderIds |-> IF o \in OrdersOf(a) THEN << >> ELSE history[o]]
    /\ client' = [client EXCEPT ![c] = [pc |-> "unstatused", account |-> a, order |-> None]]
    /\ UNCHANGED <<orders, owner, shipped, cards, work, thirdParty, report, budget>>

DeleteCards(c) ==
    LET mine == OrdersOf(client[c].account) IN
    /\ client[c].pc = "unstatused"
    /\ \/ /\ Cardinality(mine) <= 1
          /\ cards' = [o \in OrderIds |-> IF o \in mine THEN 0 ELSE cards[o]]
          /\ client' = [client EXCEPT ![c].pc = "uncarded"]
       \/ /\ Cardinality(mine) > 1
          /\ client' = [client EXCEPT ![c] = IdleClient]
          /\ UNCHANGED cards
    /\ UNCHANGED <<orders, owner, shipped, history, work, thirdParty, report, budget>>

(* A status or card row that still refers to the order makes it fail: 500. *)
DeleteOrders(c) ==
    LET mine == OrdersOf(client[c].account) IN
    /\ client[c].pc = "uncarded"
    /\ \/ /\ \A o \in mine : history[o] = << >> /\ cards[o] = 0
          /\ orders' = orders \ mine
          /\ shipped' = shipped \ mine
       \/ /\ \E o \in mine : history[o] # << >> \/ cards[o] # 0
          /\ UNCHANGED <<orders, shipped>>
    /\ client' = [client EXCEPT ![c] = IdleClient]
    /\ UNCHANGED <<owner, cards, history, work, thirdParty, report, budget>>

----------------------------------------------------------------------------
(* WorkScheduler.run: a pool of one thread. *)

(* Mutant: a left join lists the orders without a status, too *)
WorkListWithoutStatus ==
    LET created == {o \in orders : history[o] = << >> \/ LatestById(o) = "ORDER_CREATED"} IN
    /\ work.pc = "idle"
    /\ created # {}
    /\ work' = [pc |-> "listed", todo |-> created, order |-> None]
    /\ UNCHANGED <<tables, client, thirdParty, report, budget>>

WorkList ==
    LET created == {o \in OrderIds : history[o] # << >> /\ LatestById(o) = "ORDER_CREATED"} IN
    /\ work.pc = "idle"
    /\ created # {}
    /\ work' = [pc |-> "listed", todo |-> created, order |-> None]
    /\ UNCHANGED <<tables, client, thirdParty, report, budget>>

(***************************************************************************)
(* getCreditCardManufactureData and the POST to /v1/manufacturer, where    *)
(* issueCreditCard appends a process.  The data of a deleted order is null *)
(* and the manufacturer's refusal is not a StandardResponse: the exception *)
(* ends the run.                                                           *)
(***************************************************************************)
IssueCreditCard(o) ==
    /\ work.pc = "listed"
    /\ o \in work.todo
    /\ \/ /\ o \in orders
          /\ processes' = [processes EXCEPT !["manufacturer"] =
                                Append(@, [order |-> o, status |-> "ISSUING"])]
          /\ work' = [work EXCEPT !.pc = "issued", !.order = o]
       \/ /\ o \notin orders
          /\ work' = IdleWork
          /\ UNCHANGED processes
    /\ UNCHANGED <<tables, client, scan, report, budget>>

(* Mutant: the order is sent to the manufacturer, CARD_ORDERED not recorded *)
ForgetCardOrdered ==
    /\ work.pc = "issued"
    /\ work' = IdleWork
    /\ UNCHANGED <<tables, client, thirdParty, report, budget>>

(* insertNewStatus(CARD_ORDERED): it looks at no earlier status. *)
RecordCardOrdered ==
    /\ work.pc = "issued"
    /\ \/ /\ work.order \in orders
          /\ InsertNewStatus(work.order, "CARD_ORDERED")
          /\ work' = IF work.todo = {work.order} THEN IdleWork
                     ELSE [pc |-> "listed", todo |-> work.todo \ {work.order}, order |-> None]
       \/ /\ work.order \notin orders
          /\ work' = IdleWork
          /\ UNCHANGED history
    /\ UNCHANGED <<orders, owner, shipped, cards, client, thirdParty, report, budget>>

----------------------------------------------------------------------------
(* The for-loop of the two third-party schedulers over its list.  Nobody    *)
(* but the run removes from the list; others may append while it iterates.  *)

Current(w) == processes[w][scan[w].at]
AtProcess(w, status) ==
    /\ scan[w].pc = "scanning"
    /\ scan[w].at <= scan[w].size
    /\ Current(w).status = status

StartScan(w) ==
    /\ scan[w].pc = "idle"
    /\ processes[w] # << >>
    /\ report[w].pc = "none"
    /\ scan' = [scan EXCEPT ![w] = [pc |-> "scanning", at |-> 1,
                                    size |-> Len(processes[w]), done |-> {}]]
    /\ UNCHANGED <<tables, client, work, processes, report, budget>>

LoopIsOver(w) == scan[w].pc = "scanning" /\ scan[w].at > scan[w].size

(* The loop is over and toBeRemoved empty. *)
FinishScan(w) ==
    /\ LoopIsOver(w)
    /\ scan[w].done = {}
    /\ scan' = [scan EXCEPT ![w] = IdleScan]
    /\ UNCHANGED <<tables, client, work, processes, report, budget>>

(* list without its n-th element *)
WithoutNth(list, n) == SubSeq(list, 1, n - 1) \o SubSeq(list, n + 1, Len(list))

(* syncList.remove(process), for one process of toBeRemoved after the other; *)
(* the last one first, so that the positions of the others stay the same.    *)
RemoveRetired(w) ==
    /\ LoopIsOver(w) \/ scan[w].pc = "removing"
    /\ \E n \in scan[w].done :
        /\ \A m \in scan[w].done : m <= n
        /\ processes' = [processes EXCEPT ![w] = WithoutNth(@, n)]
        /\ scan' = IF scan[w].done = {n} THEN [scan EXCEPT ![w] = IdleScan]
                   ELSE [scan EXCEPT ![w] = [pc |-> "removing", at |-> 1, size |-> 0,
                                             done |-> @.done \ {n}]]
    /\ UNCHANGED <<tables, client, work, report, budget>>

(***************************************************************************)
(* The list grew under the iterator: ConcurrentModificationException ends  *)
(* the run before toBeRemoved is applied.  The unsynchronised iterator may *)
(* also miss the growth, so this is a possibility and not a duty.          *)
(***************************************************************************)
AbortScan(w) ==
    /\ scan[w].pc = "scanning"
    /\ Len(processes[w]) # scan[w].size
    /\ scan' = [scan EXCEPT ![w] = IdleScan]
    /\ UNCHANGED <<tables, client, work, processes, report, budget>>

PassOver(w) ==
    scan' = [scan EXCEPT ![w].at = @ + 1]
Retire(w) ==
    scan' = [scan EXCEPT ![w] = [pc |-> "scanning", at |-> scan[w].at + 1, size |-> scan[w].size,
                                 done |-> scan[w].done \union {scan[w].at}]]

(* setStatus, then ServiceHelper.updateStatus. *)
SetAndReport(w, status, type) ==
    /\ processes' = [processes EXCEPT ![w][scan[w].at].status = status]
    /\ report' = [report EXCEPT ![w] = [pc |-> "sent", type |-> type, order |-> Current(w).order]]
    /\ scan' = [scan EXCEPT ![w].pc = "waiting"]
    /\ UNCHANGED <<tables, client, work, budget>>

----------------------------------------------------------------------------
(* ManufactureScheduler *)

(* A new failure: the factory is in crisis, or the 20% chance of a delay. *)
ManufactureFails ==
    /\ \/ AtProcess("manufacturer", "ISSUING")
       \/ AtProcess("manufacturer", "MANUFACTURE_ERROR") /\ ~crisis
    /\ SetAndReport("manufacturer", "MANUFACTURE_ERROR", "CARD_ERROR")

(* In a crisis a process that failed before is left alone. *)
ManufactureBlocked ==
    /\ AtProcess("manufacturer", "MANUFACTURE_ERROR")
    /\ crisis
    /\ PassOver("manufacturer")
    /\ UNCHANGED <<tables, client, work, processes, report, budget>>

ManufactureSucceeds ==
    /\ AtProcess("manufacturer", "ISSUING") \/ AtProcess("manufacturer", "MANUFACTURE_ERROR")
    /\ ~crisis
    /\ SetAndReport("manufacturer", "CARD_CREATED", "CARD_CREATED")

(* Mutant: the process is removed from the list while it is iterated *)
HandAndRemove ==
    /\ AtProcess("manufacturer", "CARD_CREATED")
    /\ processes' = [manufacturer |-> WithoutNth(processes["manufacturer"], scan["manufacturer"].at),
                     courier |-> Append(processes["courier"],
            [order |-> Current("manufacturer").order, status |-> "NEW_CARD_RECEIVED"])]
    /\ PassOver("manufacturer")
    /\ UNCHANGED <<tables, client, work, report, budget>>

(* Mutant: a process whose card failed is handed over as well *)
HandFailedToCourier ==
    /\ AtProcess("manufacturer", "CARD_CREATED") \/ AtProcess("manufacturer", "MANUFACTURE_ERROR")
    /\ processes' = [processes EXCEPT !["courier"] =
            Append(@, [order |-> Current("manufacturer").order, status |-> "NEW_CARD_RECEIVED"])]
    /\ Retire("manufacturer")
    /\ UNCHANGED <<tables, client, work, report, budget>>

(* Mutant: the process is retired without CourierScheduler.addProcess *)
RetireWithoutCourier ==
    /\ AtProcess("manufacturer", "CARD_CREATED")
    /\ Retire("manufacturer")
    /\ UNCHANGED <<tables, client, work, processes, report, budget>>

HandToCourier ==
    /\ AtProcess("manufacturer", "CARD_CREATED")
    /\ processes' = [processes EXCEPT !["courier"] =
            Append(@, [order |-> Current("manufacturer").order, status |-> "NEW_CARD_RECEIVED"])]
    /\ Retire("manufacturer")
    /\ UNCHANGED <<tables, client, work, report, budget>>

----------------------------------------------------------------------------
(* CourierScheduler *)

ShipCard ==
    /\ AtProcess("courier", "NEW_CARD_RECEIVED")
    /\ Current("courier").order \in orders
    /\ SetAndReport("courier", "CARD_SENT", "CARD_SHIPPED")

(* getShippingAddress answered 404: the process stays for the next run. *)
NoShippingAddress ==
    /\ AtProcess("courier", "NEW_CARD_RECEIVED")
    /\ Current("courier").order \notin orders
    /\ PassOver("courier")
    /\ UNCHANGED <<tables, client, work, processes, report, budget>>

DeliverCard ==
    /\ AtProcess("courier", "CARD_SENT")
    /\ SetAndReport("courier", "CARD_DELIVERED", "CARD_DELIVERED")

(* Mutant: toBeRemoved.add is missing *)
KeepDelivered ==
    /\ AtProcess("courier", "CARD_DELIVERED")
    /\ PassOver("courier")
    /\ UNCHANGED <<tables, client, work, processes, report, budget>>

RetireDelivered ==
    /\ AtProcess("courier", "CARD_DELIVERED")
    /\ Retire("courier")
    /\ UNCHANGED <<tables, client, work, processes, report, budget>>

----------------------------------------------------------------------------
(* POST /v1/orders/{id}/status: handleNewStatus and actOnNewStatus. *)

(* The worker takes the next position, if it is this worker that waits. *)
GoOn(w) ==
    scan' = IF scan[w].pc = "waiting"
            THEN [scan EXCEPT ![w] = [pc |-> "scanning", at |-> scan[w].at + 1,
                                      size |-> scan[w].size, done |-> scan[w].done]]
            ELSE scan

(***************************************************************************)
(* The handler of w is done and the worker goes on; any answer but an      *)
(* IOException is only logged there.  The reply may be lost, which ends    *)
(* the worker's run; and the worker may be gone (restarted).               *)
(***************************************************************************)
Answer(w) ==
    /\ report' = [report EXCEPT ![w] = NoReport]
    /\ \/ GoOn(w) /\ UNCHANGED faults
       \/ /\ faults < MaxFaults
          /\ scan[w].pc = "waiting"
          /\ scan' = [scan EXCEPT ![w] = IdleScan]
          /\ faults' = faults + 1

(* Mutant: `<` instead of `<=` in the refusal of actOnNewStatus *)
NotBefore(new, old) == StatusSequence[new] >= StatusSequence[old]

(* The only check of the sequence, against what getLastOrderStatus returned. *)
InSequence(new, old) == StatusSequence[new] > StatusSequence[old]

RejectStatus(w) ==
    LET o == report[w].order IN
    /\ report[w].pc = "sent"
    /\ \/ history[o] = << >>
       \/ \E old \in LatestByTimestamp(o) : ~InSequence(report[w].type, old)
    /\ Answer(w)
    /\ UNCHANGED <<tables, client, work, processes, crisis>>

AcceptStatus(w) ==
    LET o == report[w].order IN
    /\ report[w].pc = "sent"
    /\ \E old \in LatestByTimestamp(o) : InSequence(report[w].type, old)
    /\ report' = [report EXCEPT ![w].pc = "accepted"]
    /\ UNCHANGED <<tables, client, work, thirdParty, budget>>

(* insertNewCreditCard, or updateOrder with the ShippingId, comes first... *)
StoreDetails(w) ==
    LET o == report[w].order IN
    /\ report[w].pc = "accepted"
    /\ \/ /\ report[w].type = "CARD_CREATED" /\ o \in orders
          /\ cards' = [cards EXCEPT ![o] = @ + 1]
          /\ report' = [report EXCEPT ![w].pc = "stored"]
          /\ UNCHANGED <<shipped, scan, faults>>
       \/ /\ report[w].type = "CARD_CREATED" /\ o \notin orders
          /\ Answer(w)
          /\ UNCHANGED <<shipped, cards>>
       \/ /\ report[w].type = "CARD_SHIPPED"
          /\ shipped' = shipped \union ({o} \intersect orders)
          /\ report' = [report EXCEPT ![w].pc = "stored"]
          /\ UNCHANGED <<cards, scan, faults>>
    /\ UNCHANGED <<orders, owner, history, client, work, processes, crisis>>

(* Mutants: updateOrder, or insertNewCreditCard, is left out *)
OnlyCardHasDetails(type) == type = "CARD_CREATED"
OnlyShippingHasDetails(type) == type = "CARD_SHIPPED"

HasDetails(type) == type \in {"CARD_CREATED", "CARD_SHIPPED"}

(* ... and insertNewStatus last; it fails when the order has been deleted. *)
InsertStatus(w) ==
    LET o == report[w].order IN
    /\ report[w].pc = IF HasDetails(report[w].type) THEN "stored" ELSE "accepted"
    /\ \/ o \in orders /\ InsertNewStatus(o, report[w].type)
       \/ o \notin orders /\ UNCHANGED history
    /\ Answer(w)
    /\ UNCHANGED <<orders, owner, shipped, cards, client, work, processes, crisis>>

----------------------------------------------------------------------------
(* The operator switches the problem pattern factory_crisis. *)

SwitchCrisis ==
    /\ Modifiable
    /\ crisis' = ~crisis
    /\ UNCHANGED <<tables, client, work, thirdParty, report, faults>>

----------------------------------------------------------------------------
(* Faults *)

Fault == faults < MaxFaults /\ faults' = faults + 1

(* An SQLException in a client's handler: 500, and what it did stays done. *)
ClientRequestFails(c) ==
    /\ Fault
    /\ client[c].pc # "idle"
    /\ client' = [client EXCEPT ![c] = IdleClient]
    /\ UNCHANGED <<tables, work, thirdParty, report, crisis>>

(* An SQLException in the handler of a status report: 500, logged by w. *)
ReportFails(w) ==
    /\ Fault
    /\ report[w].pc # "none"
    /\ report' = [report EXCEPT ![w] = NoReport]
    /\ GoOn(w)
    /\ UNCHANGED <<tables, client, work, processes, crisis>>

(* The POST, its reply or the status insert of the WorkScheduler fails. *)
WorkFails ==
    /\ Fault
    /\ work.pc # "idle"
    /\ work' = IdleWork
    /\ UNCHANGED <<tables, client, thirdParty, report, crisis>>

(* getShippingAddress is answered 500, and the process stays, or not at all: *)
(* the IOException ends the run.                                             *)
AddressFails ==
    /\ Fault
    /\ AtProcess("courier", "NEW_CARD_RECEIVED")
    /\ PassOver("courier") \/ scan' = [scan EXCEPT !["courier"] = IdleScan]
    /\ UNCHANGED <<tables, client, work, processes, report, crisis>>

(* Requests in flight die; a worker that waits for an answer gets an       *)
(* IOException, which ends its run after its own state was changed.        *)
OrderServiceRestarts ==
    /\ Fault
    /\ client' = [c \in Clients |-> IdleClient]
    /\ work' = IdleWork
    /\ report' = [w \in Workers |-> NoReport]
    /\ scan' = [w \in Workers |-> IF scan[w].pc = "waiting" THEN IdleScan ELSE scan[w]]
    /\ UNCHANGED <<tables, processes, crisis>>

(* The lists live in memory only.  Reports on their way are still handled; *)
(* a WorkScheduler that waits for the manufacturer may have its answer.    *)
ThirdPartyRestarts ==
    /\ Fault
    /\ processes' = [w \in Workers |-> << >>]
    /\ scan' = [w \in Workers |-> IdleScan]
    /\ work' \in {work, IdleWork}
    /\ UNCHANGED <<tables, client, report, crisis>>

----------------------------------------------------------------------------
ClientStep(c) ==
    \/ \E a \in Accounts : CountOrders(c, a)
    \/ \E a \in Deletable : DeleteStatuses(c, a)
    \/ InsertNewOrder(c)
    \/ InsertOrderCreated(c)
    \/ DeleteCards(c)
    \/ DeleteOrders(c)

WorkStep ==
    \/ WorkList
    \/ \E o \in OrderIds : IssueCreditCard(o)
    \/ RecordCardOrdered

ManufacturerStep ==
    \/ StartScan("manufacturer") \/ FinishScan("manufacturer")
    \/ RemoveRetired("manufacturer") \/ AbortScan("manufacturer")
    \/ ManufactureFails \/ ManufactureBlocked \/ ManufactureSucceeds \/ HandToCourier

CourierStep ==
    \/ StartScan("courier") \/ FinishScan("courier")
    \/ RemoveRetired("courier") \/ AbortScan("courier")
    \/ ShipCard \/ NoShippingAddress \/ DeliverCard \/ RetireDelivered

ReportStep(w) ==
    RejectStatus(w) \/ AcceptStatus(w) \/ StoreDetails(w) \/ InsertStatus(w)

FaultStep ==
    \/ \E c \in Clients : ClientRequestFails(c)
    \/ \E w \in Workers : ReportFails(w)
    \/ WorkFails
    \/ AddressFails
    \/ OrderServiceRestarts
    \/ ThirdPartyRestarts

Next ==
    \/ \E c \in Clients : ClientStep(c)
    \/ WorkStep
    \/ ManufacturerStep
    \/ CourierStep
    \/ \E w \in Workers : ReportStep(w)
    \/ SwitchCrisis
    \/ FaultStep

Spec == Init /\ [][Next]_vars

(***************************************************************************)
(* A request that was begun is carried on by its thread; the schedulers    *)
(* run for ever at a fixed rate, a third-party one together with the       *)
(* handler it waits for; each attempt of the manufacturer has an 80%       *)
(* chance outside a crisis, hence strong fairness of its success.          *)
(***************************************************************************)
Fairness ==
    /\ \A c \in Clients : WF_vars(InsertOrderCreated(c))
    /\ WF_vars(WorkStep)
    /\ WF_vars(ManufacturerStep \/ ReportStep("manufacturer"))
    /\ WF_vars(CourierStep \/ ReportStep("courier"))
    /\ SF_vars(ManufactureSucceeds)

FairSpec == Spec /\ Fairness

----------------------------------------------------------------------------
(* Properties *)

ClientPcs == {"idle", "counted", "inserted", "unstatused", "uncarded"}

TablesOK ==
    /\ orders \subseteq OrderIds
    /\ owner \in [OrderIds -> Accounts \union {None}]
    /\ shipped \subseteq OrderIds
    /\ cards \in [OrderIds -> Nat]
    /\ history \in [OrderIds -> Seq(StatusType)]

RequestsOK ==
    /\ client \in [Clients -> [pc : ClientPcs, account : Accounts \union {None},
                               order : OrderIds \union {None}]]
    /\ work \in [pc : {"idle", "listed", "issued"}, todo : SUBSET OrderIds,
                 order : OrderIds \union {None}]
    /\ report \in [Workers -> [pc : {"none", "sent", "accepted", "stored"},
                               type : StatusType, order : OrderIds \union {None}]]

ScanPcs == {"idle", "scanning", "waiting", "removing"}

(* A run stays within the list it iterates. *)
WithinList(w) ==
    /\ scan[w].size <= Len(processes[w])
    /\ scan[w].at \in 1..(scan[w].size + 1)
    /\ scan[w].pc = "waiting" => scan[w].at <= scan[w].size
    /\ scan[w].done \subseteq 1..Len(processes[w])

ListsOK ==
    /\ processes \in [Workers -> Seq(Process)]
    /\ scan \in [Workers -> [pc : ScanPcs, at : Nat, size : Nat, done : SUBSET Nat]]
    /\ \A w \in Workers : WithinList(w)

(* Every variable keeps its shape: the tables hold rows of known orders, and *)
(* a worker's position and removals stay within the list it iterates.        *)
TypeOK == TablesOK /\ RequestsOK /\ ListsOK /\ crisis \in BOOLEAN /\ faults \in 0..MaxFaults

(* An order that says CARD_SHIPPED has its ShippingId, whatever failed or   *)
(* was deleted in between: handleNewStatus updates the order first.         *)
ShippedHasShippingId ==
    \A o \in OrderIds : Recorded(o, "CARD_SHIPPED") => o \in shipped

(* An order that says CARD_CREATED has a card in CreditCards: a crash       *)
(* between the two inserts of handleNewStatus leaves a card too many, never *)
(* one too few.  (A concurrent delete may take the card away.)              *)
CreatedHasCard ==
    \A o \in OrderIds :
        owner[o] \notin Deletable /\ Recorded(o, "CARD_CREATED") => cards[o] > 0

(* Nothing is recorded of an order before ORDER_CREATED, and that once:     *)
(* the manufacturer cannot learn of an order whose creation failed half-way. *)
HistoryStartsWithCreation ==
    \A o \in OrderIds : owner[o] \notin Deletable =>
        \A i \in 1..Len(history[o]) : (history[o][i] = "ORDER_CREATED") <=> (i = 1)

(* One card is stored for an order and its CARD_CREATED recorded once,      *)
(* although the late CARD_ORDERED of the WorkScheduler can make             *)
(* actOnNewStatus accept a status it accepted before.                       *)
OneCardPerOrder ==
    \A o \in OrderIds :
        /\ cards[o] <= 1
        /\ Cardinality({i \in 1..Len(history[o]) : history[o][i] = "CARD_CREATED"}) <= 1

(* StatusType.SEQUENCE_ERROR: statuses are recorded in ascending sequence.  *)
Ascends(o) ==
    \A i, j \in 1..Len(history[o]) :
        i < j => StatusSequence[history[o][i]] < StatusSequence[history[o][j]]
StatusesAscend == \A o \in OrderIds : Ascends(o)

(* The unchecked insert of CARD_ORDERED is the only culprit: the statuses   *)
(* of an order for which it was not late ascend, although check and insert  *)
(* of the handlers are not atomic and finished processes are handled again. *)
(* (It needs timestamps that tell the rows apart, MaxTies = 0.)             *)
OnlyLateOrderedDescends ==
    \A o \in OrderIds :
        (\A i \in 3..Len(history[o]) : history[o][i] # "CARD_ORDERED") => Ascends(o)

(* The manufacturer gets an order once, and has made the card before the    *)
(* courier gets it.                                                         *)
ManufacturedOnce ==
    LET positions(o) == {i \in 1..Len(processes["manufacturer"]) :
                            processes["manufacturer"][i].order = o}
        made(o) == Recorded(o, "CARD_CREATED")
    IN \A o \in OrderIds :
        /\ Cardinality(positions(o)) <= 1
        /\ \A i \in 1..Len(processes["courier"]) :
                processes["courier"][i].order = o => made(o)

(* The milestones the database tells the customer of, as the furthest one. *)
Stage(o) ==
    IF Recorded(o, "CARD_DELIVERED") THEN "delivered"
    ELSE IF Recorded(o, "CARD_SHIPPED") THEN "shipped"
    ELSE IF Recorded(o, "CARD_CREATED") THEN "made"
    ELSE IF history[o] # << >> THEN "placed" ELSE "absent"

Lifecycle == INSTANCE OrderLifecycle WITH stage <- [o \in OrderIds |-> Stage(o)]

(* Without deletes and failures every order walks through the milestones    *)
(* without leaving one out, although actOnNewStatus would let it.           *)
FollowsLifecycle == Lifecycle!LifecycleSpec

(* When the crises end, each accepted order is delivered ...                *)
OrderDelivered ==
    \A o \in OrderIds :
        <>[]~crisis => (Recorded(o, "ORDER_CREATED") ~> Recorded(o, "CARD_DELIVERED"))

(* ... and both schedulers forget it: their lists run empty, although       *)
(* aborted runs keep finished processes for another round.                  *)
ListsDrain ==
    <>[]~crisis => \A w \in Workers : []<>(processes[w] = << >>)

(* OrderController.ORDER_ALREADY_EXISTS: an account has one order at most.  *)
OneOrderPerAccount == \A a \in Accounts : Cardinality(OrdersOf(a)) <= 1

(* DELETE removes order, statuses and card together: when no request is in  *)
(* flight, an order that is still there still has its ORDER_CREATED.        *)
DeletedWhole ==
    (\A c \in Clients : client[c].pc = "idle") =>
        \A o \in orders : Recorded(o, "ORDER_CREATED")
=============================================================================
