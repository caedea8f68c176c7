----------------------- MODULE CreditCardFlow_proofs -----------------------
(* What holds of an order until something fails: it is commissioned once,   *)
(* its card is made once, and it walks through the milestones in order.     *)
EXTENDS CreditCardTables_proofs, FiniteSetTheorems

----------------------------------------------------------------------------
(* The steps of the third party that are no failures *)

InList(w, o) == \E i \in 1..Len(processes[w]) : processes[w][i].order = o
About(w, o) == report[w].pc # "none" /\ report[w].order = o

(* What a process says when it gets a status. *)
Says == [MANUFACTURE_ERROR |-> "CARD_ERROR", CARD_CREATED |-> "CARD_CREATED",
         CARD_SENT |-> "CARD_SHIPPED", CARD_DELIVERED |-> "CARD_DELIVERED"]

Waits(w, i) == scan[w].pc = "waiting" /\ scan[w].at = i

(* Neither a list nor a report changes, and nobody begins or ends to wait. *)
Rests ==
    /\ processes' = processes /\ report' = report
    /\ \A w \in Workers : scan'[w] = scan[w] \/ (scan[w].pc # "waiting" /\ scan'[w].pc # "waiting")

Issues(o) ==
    /\ work.pc = "listed" /\ o \in work.todo /\ o \in orders
    /\ work' = [work EXCEPT !.pc = "issued", !.order = o]
    /\ processes' = [processes EXCEPT !["manufacturer"] = Append(@, [order |-> o, status |-> "ISSUING"])]
    /\ UNCHANGED <<tables, client, scan, report>>

Advances(w, status) ==
    /\ scan[w].pc = "scanning" /\ scan[w].at \in 1..Len(processes[w])
    /\ SetAndReport(w, status, Says[status])
    /\ \/ w = "manufacturer" /\ Current(w).status \in {"ISSUING", "MANUFACTURE_ERROR"}
          /\ status \in {"MANUFACTURE_ERROR", "CARD_CREATED"}
       \/ w = "courier" /\ Current(w).status = "NEW_CARD_RECEIVED" /\ status = "CARD_SENT"
       \/ w = "courier" /\ Current(w).status = "CARD_SENT" /\ status = "CARD_DELIVERED"

(* The worker whose report is answered takes the next position. *)
Answers(w) ==
    /\ processes' = processes
    /\ report' = [report EXCEPT ![w] = NoReport]
    /\ GoOn(w)

Proceeds(w) ==
    /\ UNCHANGED <<thirdParty, work, client>>
    /\ report[w].pc # "none"
    /\ \/ report' = [report EXCEPT ![w].pc = "accepted"]
       \/ report' = [report EXCEPT ![w].pc = "stored"]

LEMMA ListStep ==
    ASSUME TypeInv, [Next]_vars, faults' = 0
    PROVE  /\ faults = 0
           /\ \/ Rests
              \/ \E o \in OrderIds : Issues(o)
              \/ \E w \in Workers : RemoveRetired(w)
              \/ \E w \in Workers : \E status \in DOMAIN Says : Advances(w, status)
              \/ HandToCourier
              \/ \E w \in Workers : ReportStep(w) /\ (Answers(w) \/ Proceeds(w))
  <1>0. faults \in Nat
    BY BoundsAreNaturals DEF TypeInv, TypeOK
  <1>1. ~FaultStep
    BY <1>0 DEF FaultStep, Fault, ClientRequestFails, ReportFails, WorkFails, AddressFails, OrderServiceRestarts, ThirdPartyRestarts
  <1>2. \A w \in Workers : Answer(w) => GoOn(w) /\ faults = 0
    BY <1>0 DEF Answer
  <1>3. CASE \E w \in Workers : ReportStep(w)
    <2>1. PICK w \in Workers : ReportStep(w)
      BY <1>3
    <2>2. CASE RejectStatus(w) \/ InsertStatus(w)
      BY <1>2, <2>1, <2>2 DEF RejectStatus, InsertStatus, Answer, Answers
    <2>3. CASE AcceptStatus(w)
      BY <2>1, <2>3 DEF AcceptStatus, Proceeds, budget
    <2>4. CASE StoreDetails(w)
      BY <1>2, <2>1, <2>4 DEF StoreDetails, Answer, Answers, Proceeds, thirdParty
    <2>. QED
      BY <2>1, <2>2, <2>3, <2>4 DEF ReportStep
  <1>4. CASE Manufactures \/ Couriers
    <2>. "manufacturer" \in Workers /\ "courier" \in Workers
      BY DEF Workers
    <2>1. ASSUME NEW w \in Workers, NEW old, AtProcess(w, old)
          PROVE  scan[w].pc = "scanning" /\ scan[w].at \in 1..Len(processes[w]) /\ Current(w).status = old
      BY <2>1, AtPosition DEF TypeInv, TypeOK, AtProcess
    <2>2. /\ Says["MANUFACTURE_ERROR"] = "CARD_ERROR" /\ Says["CARD_CREATED"] = "CARD_CREATED"
          /\ Says["CARD_SENT"] = "CARD_SHIPPED" /\ Says["CARD_DELIVERED"] = "CARD_DELIVERED"
          /\ DOMAIN Says = {"MANUFACTURE_ERROR", "CARD_CREATED", "CARD_SENT", "CARD_DELIVERED"}
      BY DEF Says
    <2>3. CASE ManufactureFails
      BY <2>1, <2>2, <2>3 DEF ManufactureFails, SetAndReport, Advances, budget
    <2>4. CASE ManufactureSucceeds
      BY <2>1, <2>2, <2>4 DEF ManufactureSucceeds, SetAndReport, Advances, budget
    <2>5. CASE ShipCard
      BY <2>1, <2>2, <2>5 DEF ShipCard, SetAndReport, Advances, budget
    <2>6. CASE DeliverCard
      BY <2>1, <2>2, <2>6 DEF DeliverCard, SetAndReport, Advances, budget
    <2>. QED
      BY <1>4, <2>3, <2>4, <2>5, <2>6 DEF Manufactures, Couriers
  <1>5. CASE WorkStep
    <2>1. CASE \E o \in OrderIds : IssueCreditCard(o)
      BY <2>1 DEF IssueCreditCard, Issues, Rests, budget, tables
    <2>. QED
      BY <1>5, <2>1 DEF WorkStep, WorkList, RecordCardOrdered, Rests, thirdParty, budget
  <1>6. CASE SwitchCrisis \/ UNCHANGED vars \/ \E c \in Clients : ClientStep(c)
    BY <1>6 DEF SwitchCrisis, vars, ClientStep, CountOrders, InsertNewOrder, InsertOrderCreated,
       DeleteStatuses, DeleteCards, DeleteOrders, Rests, thirdParty, budget
  <1>7. ASSUME NEW w \in Workers, StartScan(w) \/ FinishScan(w) \/ AbortScan(w)
        PROVE  Rests /\ faults = 0
    <2>. scan \in [Workers -> [pc : ScanPcs, at : Nat, size : Nat, done : SUBSET Nat]]
      BY DEF TypeInv, TypeOK, ListsOK
    <2>1. scan[w].pc # "waiting"
      BY <1>7 DEF StartScan, FinishScan, AbortScan, LoopIsOver
    <2>2. processes' = processes /\ report' = report /\ faults = 0
      BY <1>7 DEF StartScan, FinishScan, AbortScan, budget
    <2>3. \A v \in Workers : scan'[v] = scan[v] \/ (v = w /\ scan'[v].pc # "waiting")
      BY <1>7 DEF StartScan, FinishScan, AbortScan, IdleScan
    <2>. QED
      BY <2>1, <2>2, <2>3 DEF Rests
  <1>8. ASSUME ManufactureBlocked \/ NoShippingAddress \/ RetireDelivered
        PROVE  Rests /\ faults = 0
    <2>. scan \in [Workers -> [pc : ScanPcs, at : Nat, size : Nat, done : SUBSET Nat]]
      BY DEF TypeInv, TypeOK, ListsOK
    <2>1. PICK w \in Workers : scan[w].pc = "scanning" /\ (PassOver(w) \/ Retire(w))
      BY <1>8 DEF ManufactureBlocked, NoShippingAddress, RetireDelivered, AtProcess, Workers
    <2>2. \A v \in Workers : scan'[v] = scan[v] \/ (v = w /\ scan'[v].pc # "waiting")
      BY <2>1 DEF PassOver, Retire
    <2>. QED
      BY <1>8, <2>1, <2>2 DEF Rests, ManufactureBlocked, NoShippingAddress, RetireDelivered, budget
  <1>9. CASE HandToCourier \/ \E w \in Workers : RemoveRetired(w)
    BY <1>9 DEF HandToCourier, RemoveRetired, budget
  <1>. QED
    BY <1>1, <1>3, <1>4, <1>5, <1>6, <1>7, <1>8, <1>9
       DEF Next, ManufacturerStep, CourierStep, Manufactures, Couriers, Workers

(* The element that is at position i when the n-th is gone. *)
Before(n, i) == IF i < n THEN i ELSE i + 1

LEMMA WithoutNthIs ==
    ASSUME NEW S, NEW list \in Seq(S), NEW n \in 1..Len(list)
    PROVE  /\ Len(WithoutNth(list, n)) = Len(list) - 1
           /\ \A i \in 1..(Len(list) - 1) : /\ Before(n, i) \in 1..Len(list)
                                            /\ WithoutNth(list, n)[i] = list[Before(n, i)]
  <1>. DEFINE a == SubSeq(list, 1, n - 1)
              b == SubSeq(list, n + 1, Len(list))
  <1>0. /\ n \in Int /\ n - 1 \in Int /\ n + 1 \in Int /\ Len(list) \in Int
        /\ \A k \in 1..(n - 1) : list[k] \in S
        /\ \A k \in (n + 1)..Len(list) : list[k] \in S
    OBVIOUS
  <1>1. /\ a \in Seq(S) /\ Len(a) = n - 1
        /\ \A k \in 1..(n - 1) : a[k] = list[k]
    BY <1>0, SubSeqProperties
  <1>2. /\ b \in Seq(S) /\ Len(b) = Len(list) - n
        /\ \A k \in 1..(Len(list) - n) : b[k] = list[n + k]
    BY <1>0, SubSeqProperties
  <1>. HIDE DEF a, b
  <1>3. /\ Len(a \o b) = Len(a) + Len(b)
        /\ \A k \in 1..(Len(a) + Len(b)) :
                (a \o b)[k] = IF k <= Len(a) THEN a[k] ELSE b[k - Len(a)]
    BY <1>1, <1>2, ConcatProperties, Zenon
  <1>4. WithoutNth(list, n) = a \o b
    BY Zenon DEF WithoutNth, a, b
  <1>5. ASSUME NEW i \in 1..(Len(list) - 1)
        PROVE  Before(n, i) \in 1..Len(list) /\ (a \o b)[i] = list[Before(n, i)]
    <2>1. CASE i < n
      BY <1>0, <1>1, <1>2, <1>3, <2>1 DEF Before
    <2>2. CASE ~(i < n)
      <3>1. i - Len(a) \in 1..(Len(list) - n) /\ n + (i - Len(a)) = i + 1 /\ ~(i <= Len(a))
            /\ i \in 1..(Len(a) + Len(b)) /\ i + 1 \in 1..Len(list)
        BY <1>0, <1>1, <1>2, <2>2
      <3>. QED
        BY <1>2, <1>3, <2>2, <3>1 DEF Before
    <2>. QED
      BY <2>1, <2>2
  <1>6. Len(a \o b) = Len(list) - 1
    BY <1>0, <1>1, <1>2, <1>3
  <1>. QED
    BY <1>4, <1>5, <1>6, Zenon

(* After removals every process stands where only one stood before. *)
LEMMA Removes ==
    ASSUME TypeInv, NEW w \in Workers, RemoveRetired(w)
    PROVE  /\ UNCHANGED <<tables, client, work, report>>
           /\ scan[w].pc # "waiting" /\ scan'[w].pc # "waiting"
           /\ \A v \in Workers \ {w} : processes'[v] = processes[v] /\ scan'[v] = scan[v]
           /\ \E n \in Nat : /\ Len(processes'[w]) < Len(processes[w])
                             /\ \A i \in 1..Len(processes'[w]) :
                                    /\ Before(n, i) \in 1..Len(processes[w])
                                    /\ processes'[w][i] = processes[w][Before(n, i)]
  <1>. USE DEF TypeInv, TypeOK
  <1>. /\ processes \in [Workers -> Seq(Process)] /\ processes[w] \in Seq(Process)
       /\ scan \in [Workers -> [pc : ScanPcs, at : Nat, size : Nat, done : SUBSET Nat]]
    BY DEF ListsOK
  <1>1. PICK n \in scan[w].done : processes' = [processes EXCEPT ![w] = WithoutNth(@, n)]
    BY DEF RemoveRetired
  <1>2. n \in 1..Len(processes[w]) /\ n \in Nat
    BY DEF ListsOK, WithinList
  <1>3. processes'[w] = WithoutNth(processes[w], n)
    BY <1>1
  <1>4. Len(processes'[w]) = Len(processes[w]) - 1
    BY <1>2, <1>3, WithoutNthIs
  <1>5. \A i \in 1..(Len(processes[w]) - 1) : /\ Before(n, i) \in 1..Len(processes[w])
                                              /\ processes'[w][i] = processes[w][Before(n, i)]
    BY <1>2, <1>3, WithoutNthIs
  <1>6. /\ scan[w].pc # "waiting" /\ scan'[w].pc # "waiting"
        /\ \A v \in Workers \ {w} : scan'[v] = scan[v]
    BY DEF RemoveRetired, LoopIsOver, IdleScan
  <1>7. \A v \in Workers \ {w} : processes'[v] = processes[v]
    BY <1>1
  <1>8. UNCHANGED <<tables, client, work, report>>
    BY DEF RemoveRetired
  <1>9. /\ n \in Nat /\ Len(processes'[w]) < Len(processes[w])
        /\ \A i \in 1..Len(processes'[w]) : /\ Before(n, i) \in 1..Len(processes[w])
                                            /\ processes'[w][i] = processes[w][Before(n, i)]
    BY <1>2, <1>4, <1>5
  <1>. QED
    BY <1>6, <1>7, <1>8, <1>9, Zenon

(* The process at which the run stands gets its status and reports it. *)
LEMMA Advanced ==
    ASSUME TypeInv, NEW w \in Workers, NEW status \in DOMAIN Says, Advances(w, status)
    PROVE  /\ scan[w].at \in 1..Len(processes[w]) /\ Current(w).order \in OrderIds
           /\ \A v \in Workers : Len(processes'[v]) = Len(processes[v])
           /\ \A v \in Workers : \A i \in 1..Len(processes[v]) :
                  /\ processes'[v][i].order = processes[v][i].order
                  /\ processes'[v][i].status = IF v = w /\ i = scan[w].at THEN status ELSE processes[v][i].status
           /\ \A v \in Workers \ {w} : report'[v] = report[v] /\ scan'[v] = scan[v]
           /\ report'[w].pc = "sent" /\ report'[w].type = Says[status] /\ report'[w].order = Current(w).order
           /\ scan'[w].pc = "waiting" /\ scan'[w].at = scan[w].at
  <1>. USE DEF TypeInv, TypeOK
  <1>. DEFINE at == scan[w].at
              list == [processes[w] EXCEPT ![at] = [Current(w) EXCEPT !.status = status]]
  <1>1. /\ processes \in [Workers -> Seq(Process)] /\ processes[w] \in Seq(Process)
        /\ scan \in [Workers -> [pc : ScanPcs, at : Nat, size : Nat, done : SUBSET Nat]]
    BY DEF ListsOK
  <1>2. at \in 1..Len(processes[w]) /\ Current(w) = processes[w][at] /\ Current(w) \in Process
    BY <1>1 DEF Advances, Current
  <1>3. processes' = [processes EXCEPT ![w] = list]
    BY <1>1, <1>2 DEF Advances, SetAndReport
  <1>4. /\ Len(list) = Len(processes[w])
        /\ \A i \in 1..Len(processes[w]) :
               /\ list[i].order = processes[w][i].order
               /\ list[i].status = IF i = at THEN status ELSE processes[w][i].status
    BY <1>1, <1>2 DEF Process
  <1>5. Current(w).order \in OrderIds
    BY <1>2 DEF Process
  <1>6. report \in [Workers -> [pc : {"none", "sent", "accepted", "stored"},
                              type : StatusType, order : OrderIds \union {None}]]
    BY Shapes
  <1>7. /\ \A v \in Workers \ {w} : report'[v] = report[v] /\ scan'[v] = scan[v]
        /\ report'[w].pc = "sent" /\ report'[w].type = Says[status] /\ report'[w].order = Current(w).order
        /\ scan'[w].pc = "waiting" /\ scan'[w].at = at
    BY <1>1, <1>6 DEF Advances, SetAndReport
  <1>. HIDE DEF list
  <1>8. \A v \in Workers : processes'[v] = IF v = w THEN list ELSE processes[v]
    BY <1>1, <1>3
  <1>. QED
    BY <1>2, <1>4, <1>5, <1>7, <1>8

(* A list that grows by one process. *)
LEMMA Grown ==
    ASSUME TypeInv, NEW w \in Workers, NEW p \in Process, processes' = [processes EXCEPT ![w] = Append(@, p)]
    PROVE  /\ \A v \in Workers \ {w} : processes'[v] = processes[v]
           /\ Len(processes'[w]) = Len(processes[w]) + 1
           /\ \A i \in 1..Len(processes[w]) : processes'[w][i] = processes[w][i]
           /\ processes'[w][Len(processes[w]) + 1] = p
  <1>. processes \in [Workers -> Seq(Process)]
    BY DEF TypeInv, TypeOK, ListsOK
  <1>. QED
    OBVIOUS

(* No order gets into a list or a report that is in neither, but the one the *)
(* WorkScheduler commissions.                                                *)
InThirdParty(o) == \E w \in Workers : InList(w, o) \/ About(w, o)

LEMMA Enters ==
    ASSUME TypeInv, [Next]_vars, faults' = 0, NEW o \in OrderIds, ~InThirdParty(o), ~Issues(o)
    PROVE  ~InThirdParty(o)'
  <1>. SUFFICES ASSUME NEW w \in Workers
                PROVE  /\ \A i \in 1..Len(processes'[w]) : processes'[w][i].order # o
                       /\ report'[w].pc # "none" => report'[w].order # o
    BY DEF InThirdParty, InList, About
  <1>. /\ processes \in [Workers -> Seq(Process)] /\ "manufacturer" \in Workers /\ "courier" \in Workers
       /\ report \in [Workers -> [pc : {"none", "sent", "accepted", "stored"},
                                  type : StatusType, order : OrderIds \union {None}]]
    BY Shapes DEF TypeInv, TypeOK, ListsOK, Workers
  <1>0. \A v \in Workers : /\ \A i \in 1..Len(processes[v]) : processes[v][i].order # o
                           /\ report[v].pc # "none" => report[v].order # o
    BY DEF InThirdParty, InList, About
  <1>1. CASE Rests
    BY <1>0, <1>1 DEF Rests
  <1>2. CASE \E p \in OrderIds : Issues(p)
    <2>1. PICK p \in OrderIds : Issues(p)
      BY <1>2
    <2>. DEFINE new == [order |-> p, status |-> "ISSUING"]
    <2>2. new \in Process /\ new.order # o
      BY <2>1 DEF Process, ManufactureStatus
    <2>3. processes' = [processes EXCEPT !["manufacturer"] = Append(@, new)] /\ report' = report
      BY <2>1 DEF Issues
    <2>. HIDE DEF new
    <2>4. CASE w = "manufacturer"
      <3>. SUFFICES ASSUME NEW i \in 1..Len(processes'[w]) PROVE processes'[w][i].order # o
        BY <1>0, <2>3
      <3>1. i \in 1..Len(processes[w]) \/ i = Len(processes[w]) + 1
        BY <2>2, <2>3, <2>4, Grown
      <3>. QED
        BY <1>0, <2>2, <2>3, <2>4, <3>1, Grown
    <2>. QED
      BY <1>0, <2>2, <2>3, <2>4, Grown
  <1>3. CASE \E v \in Workers : RemoveRetired(v)
    <2>1. PICK v \in Workers : RemoveRetired(v)
      BY <1>3
    <2>2. report' = report /\ (w # v => processes'[w] = processes[w])
      BY <2>1, Removes
    <2>3. \A i \in 1..Len(processes'[v]) : \E j \in 1..Len(processes[v]) : processes'[v][i] = processes[v][j]
      BY <2>1, Removes
    <2>. QED
      BY <1>0, <2>2, <2>3
  <1>4. CASE \E v \in Workers : \E status \in DOMAIN Says : Advances(v, status)
    <2>1. PICK v \in Workers, status \in DOMAIN Says : Advances(v, status)
      BY <1>4
    <2>2. /\ Len(processes'[w]) = Len(processes[w])
          /\ \A i \in 1..Len(processes[w]) : processes'[w][i].order = processes[w][i].order
          /\ v # w => report'[w] = report[w]
          /\ scan[v].at \in 1..Len(processes[v])
      BY <2>1, Advanced
    <2>4. report'[v].order = Current(v).order
      BY <2>1, Advanced
    <2>3. Current(v).order # o
      BY <1>0, <2>2 DEF Current
    <2>5. \A i \in 1..Len(processes'[w]) : processes'[w][i].order # o
      BY <1>0, <2>2
    <2>6. report'[w].pc # "none" => report'[w].order # o
      BY <1>0, <2>2, <2>3, <2>4
    <2>. QED
      BY <2>5, <2>6
  <1>5. CASE HandToCourier
    <2>. DEFINE new == [order |-> Current("manufacturer").order, status |-> "NEW_CARD_RECEIVED"]
    <2>1. scan["manufacturer"].at \in 1..Len(processes["manufacturer"]) /\ Current("manufacturer") \in Process
      BY <1>5, AtPosition DEF HandToCourier, TypeInv, TypeOK
    <2>2. new \in Process /\ new.order # o
      BY <1>0, <2>1 DEF Process, CourierStatus, Current
    <2>3. processes' = [processes EXCEPT !["courier"] = Append(@, new)] /\ report' = report
      BY <1>5 DEF HandToCourier
    <2>. HIDE DEF new
    <2>4. CASE w = "courier"
      <3>. SUFFICES ASSUME NEW i \in 1..Len(processes'[w]) PROVE processes'[w][i].order # o
        BY <1>0, <2>3
      <3>1. i \in 1..Len(processes[w]) \/ i = Len(processes[w]) + 1
        BY <2>2, <2>3, <2>4, Grown
      <3>. QED
        BY <1>0, <2>2, <2>3, <2>4, <3>1, Grown
    <2>. QED
      BY <1>0, <2>2, <2>3, <2>4, Grown
  <1>6. CASE \E v \in Workers : Answers(v)
    BY <1>0, <1>6, Idle DEF Answers
  <1>7. CASE \E v \in Workers : Proceeds(v)
    BY <1>0, <1>7 DEF Proceeds, thirdParty
  <1>. QED
    BY <1>1, <1>2, <1>3, <1>4, <1>5, <1>6, <1>7, ListStep

----------------------------------------------------------------------------
(* An order is commissioned once *)

(* No status of the order is written yet, or its id is not even drawn. *)
New(o) == owner[o] = None \/ \E c \in Clients : Creates(c, o)

(* The WorkScheduler has listed the order or would list it. *)
Due(o) ==
    \/ o \in work.todo
    \/ HasStatus(o) /\ LatestById(o) = "ORDER_CREATED"

Pending(o) == New(o) \/ (Due(o) /\ ~Commissions(o))

(* Nothing but its creation has happened to the order. *)
Fresh(o) ==
    /\ cards[o] = 0
    /\ \A i \in 1..Len(history[o]) : history[o][i] = "ORDER_CREATED"
    /\ ~InThirdParty(o)

NewIsBlank == \A o \in OrderIds : New(o) => ~HasStatus(o) /\ o \notin work.todo
PendingIsFresh == \A o \in OrderIds : Pending(o) => Fresh(o)

(* The foreign keys: no status or card without the row of its order. *)
NoDangling == \A o \in OrderIds \ orders : ~HasStatus(o) /\ cards[o] = 0

LEMMA CommissionStep ==
    ASSUME TypeInv, [Next]_vars, faults' = 0, NEW o \in OrderIds
    PROVE  /\ Commissions(o) =>
                \/ work' = work
                \/ o \notin work'.todo /\ o \notin orders /\ history' = history
                \/ o \notin work'.todo /\ history'[o] = Append(history[o], "CARD_ORDERED")
           /\ ~Commissions(o) /\ o \in work'.todo => Due(o)
           /\ Issues(o) => Commissions(o)' /\ ~Commissions(o) /\ Due(o) /\ client' = client /\ owner' = owner
  <1>. /\ work \in [pc : {"idle", "listed", "issued"}, todo : SUBSET OrderIds,
                    order : OrderIds \union {None}]
       /\ history \in [OrderIds -> Seq(StatusType)]
    BY Shapes
  <1>1. Issues(o) => Commissions(o)' /\ ~Commissions(o) /\ Due(o) /\ client' = client /\ owner' = owner
    BY DEF Issues, Commissions, Due, tables
  <1>2. CASE WorkStep
    <2>1. CASE WorkList
      BY <1>1, <2>1 DEF WorkList, Commissions, Due, HasStatus
    <2>2. CASE \E p \in OrderIds : IssueCreditCard(p)
      BY <1>1, <2>2, Idle DEF IssueCreditCard, Commissions, Due
    <2>3. CASE RecordCardOrdered
      <3>1. work'.todo = {} \/ work'.todo = work.todo \ {work.order}
        BY <2>3, Idle DEF RecordCardOrdered
      <3>2. CASE work.order \in orders /\ InsertNewStatus(work.order, "CARD_ORDERED")
        BY <1>1, <3>1, <3>2 DEF InsertNewStatus, Commissions, Due
      <3>3. CASE work.order \notin orders /\ history' = history
        BY <1>1, <3>1, <3>3 DEF Commissions, Due
      <3>. QED
        BY <2>3, <3>2, <3>3 DEF RecordCardOrdered
    <2>. QED
      BY <1>2, <2>1, <2>2, <2>3 DEF WorkStep
  <1>3. CASE work' = work
    BY <1>1, <1>3 DEF Due
  <1>4. faults \in Nat
    BY BoundsAreNaturals DEF TypeInv, TypeOK
  <1>5. ~FaultStep
    BY <1>4 DEF FaultStep, Fault, ClientRequestFails, ReportFails, WorkFails, AddressFails, OrderServiceRestarts, ThirdPartyRestarts
  <1>. QED
    BY <1>2, <1>3, <1>5, StepCases DEF ClientStep, CountOrders, InsertNewOrder, InsertOrderCreated,
       DeleteStatuses, DeleteCards, DeleteOrders,
       RemoveRetired, Manufactures, Couriers, Idles, ManufactureFails, ManufactureSucceeds,
       HandToCourier, SetAndReport, ShipCard, DeliverCard, ReportStep, RejectStatus, AcceptStatus,
       StoreDetails, InsertStatus

(* An id is new until its creation is recorded. *)
LEMMA NewStep ==
    ASSUME TypeInv, Drawn, Creating, [Next]_vars, NEW o \in OrderIds, New(o)'
    PROVE  /\ New(o)
           /\ \A c \in Clients : Creates(c, o) => client'[c] = client[c]
  <1>1. owner'[o] = None => owner[o] = None
    BY OwnerKept
  <1>2. ASSUME NEW c \in Clients, Creates(c, o)'
        PROVE  client'[c] = client[c] \/ owner[o] = None
    <2>1. client'[c].pc = "inserted" /\ client'[c].order = o
      BY <1>2 DEF Creates
    <2>2. CASE InsertNewOrder(c)
      <3>1. client'[c].order = FreshGuid
        BY <2>2, Shapes DEF InsertNewOrder
      <3>2. owner[FreshGuid] = None
        BY <2>2 DEF InsertNewOrder, FreshGuid
      <3>. QED
        BY <2>1, <3>1, <3>2
    <2>. QED
      BY <2>1, <2>2, ClientsStep
  <1>3. New(o)
    <2>1. CASE owner'[o] = None
      BY <1>1, <2>1 DEF New
    <2>2. ASSUME NEW c \in Clients, Creates(c, o)'
          PROVE  New(o)
      <3>1. CASE client'[c] = client[c]
        <4>1. Creates(c, o)
          BY <2>2, <3>1 DEF Creates
        <4>. QED
          BY <4>1 DEF New
      <3>. QED
        BY <1>2, <2>2, <3>1 DEF New
    <2>. QED
      BY <2>1, <2>2 DEF New
  <1>5. ASSUME NEW c \in Clients, Creates(c, o)
        PROVE  client'[c] = client[c]
    <2>1. owner[o] # None /\ owner'[o] # None
      BY <1>5, OwnerKept DEF Creates, Creating
    <2>2. PICK d \in Clients : Creates(d, o)'
      BY <2>1 DEF New
    <2>3. client'[d] = client[d]
      BY <1>2, <2>1, <2>2
    <2>4. d = c
      BY <1>5, <2>2, <2>3 DEF Creates, Creating
    <2>. QED
      BY <2>3, <2>4
  <1>. QED
    BY <1>3, <1>5

LEMMA NewIsBlankKept ==
    ASSUME HistInv, NewIsBlank, PendingIsFresh, [Next]_vars, faults' = 0
    PROVE  NewIsBlank'
  <1>. SUFFICES ASSUME NEW o \in OrderIds, New(o)'
                PROVE  ~HasStatus(o)' /\ o \notin work'.todo
    BY DEF NewIsBlank
  <1>. TypeInv /\ Drawn /\ Creating /\ Reported
    BY DEF HistInv
  <1>1. New(o) /\ ~HasStatus(o) /\ o \notin work.todo /\ Fresh(o)
    BY NewStep DEF NewIsBlank, PendingIsFresh, Pending
  <1>2. ~Commissions(o)
    BY <1>1 DEF HistInv, Commissions, Commissioned
  <1>3. o \notin work'.todo
    BY <1>1, <1>2, CommissionStep DEF Due
  <1>4. \A c \in Clients : Creates(c, o) => client'[c] = client[c] /\ client[c] # IdleClient
    BY NewStep, Idle DEF Creates
  <1>5. \A c \in Clients : client' = [client EXCEPT ![c] = IdleClient] => client'[c] = IdleClient
    BY Shapes
  <1>6. \A w \in Workers : ~Records(w, o)
    BY <1>1 DEF Records, Fresh, InThirdParty, About
  <1>7. history'[o] = history[o] \/ Len(history'[o]) = 0
    BY <1>2, <1>4, <1>5, <1>6, HistoryStep
  <1>. QED
    BY <1>1, <1>3, <1>7 DEF HasStatus

(* An order whose row exists gets a status, and it goes with all of them. *)
LEMMA NoDanglingKept ==
    ASSUME HistInv, NoDangling, [Next]_vars
    PROVE  NoDangling'
  <1>. SUFFICES ASSUME NEW o \in OrderIds, o \notin orders'
                PROVE  ~HasStatus(o)' /\ cards'[o] = 0
    BY DEF NoDangling
  <1>. TypeInv
    BY DEF HistInv
  <1>1. CASE o \notin orders
    <2>1. history'[o] = history[o] \/ Len(history'[o]) = 0
      BY <1>1, HistoryStep
    <2>2. cards'[o] = 0
      BY <1>1, CardsStep DEF NoDangling
    <2>. QED
      BY <1>1, <2>1, <2>2 DEF NoDangling, HasStatus
  <1>2. CASE o \in orders
    <2>1. \E c \in Clients : DeleteOrders(c)
      BY <1>2, StepCases DEF tables, ClientStep, CountOrders, InsertNewOrder, InsertOrderCreated, DeleteStatuses,
         DeleteCards, WorkStep, WorkList, IssueCreditCard, RecordCardOrdered,
         RemoveRetired, Manufactures, Couriers, Idles,
         ManufactureFails, ManufactureSucceeds, HandToCourier, SetAndReport,
         ShipCard, DeliverCard, ReportStep, RejectStatus,
         AcceptStatus, StoreDetails, InsertStatus, FaultStep, ClientRequestFails,
         ReportFails, WorkFails, AddressFails, OrderServiceRestarts, ThirdPartyRestarts
    <2>2. history[o] = << >> /\ cards[o] = 0 /\ history' = history /\ cards' = cards
      BY <1>2, <2>1 DEF DeleteOrders
    <2>. QED
      BY <2>2 DEF HasStatus
  <1>. QED
    BY <1>1, <1>2

(* An order that was commissioned is never pending again ... *)
LEMMA PendingStep ==
    ASSUME HistInv, NewIsBlank, NoDangling, [Next]_vars, faults' = 0, NEW o \in OrderIds, Pending(o)'
    PROVE  Pending(o) /\ ~Issues(o)
  <1>. TypeInv /\ Drawn /\ Creating /\ Reported /\ history[o] \in Seq(StatusType)
    BY Shapes DEF HistInv
  <1>1. CASE New(o)'
    <2>1. New(o) /\ o \notin work.todo
      BY <1>1, NewStep DEF NewIsBlank
    <2>. QED
      BY <2>1 DEF Pending, Issues
  <1>2. CASE Due(o)' /\ ~Commissions(o)'
    <2>1. ~Issues(o)
      BY <1>2, CommissionStep
    <2>2. CASE o \in work'.todo
      <3>1. ~Commissions(o)
        <4>1. Commissions(o) => work' = work
          BY <2>2, CommissionStep
        <4>. QED
          BY <1>2, <4>1 DEF Commissions
      <3>. QED
        BY <2>1, <2>2, <3>1, CommissionStep DEF Pending
    <2>3. CASE Len(history'[o]) > 0 /\ history'[o][Len(history'[o])] = "ORDER_CREATED"
      <3>1. ~(history'[o] = Append(history[o], "CARD_ORDERED"))
        BY <2>3
      <3>2. ASSUME NEW w \in Workers, Records(w, o)
            PROVE  ~(history'[o] = Append(history[o], report[w].type))
        BY <2>3, <3>2 DEF Records, Reported
      <3>3. CASE history'[o] = history[o]
        <4>1. o \in orders
          BY <2>3, <3>3 DEF NoDangling, HasStatus
        <4>2. ~Commissions(o)
          <5>1. Commissions(o) => work' = work
            BY <3>1, <4>1, CommissionStep
          <5>. QED
            BY <1>2, <5>1 DEF Commissions
        <4>3. Due(o)
          BY <2>3, <3>3 DEF Due, HasStatus, LatestById
        <4>. QED
          BY <2>1, <4>2, <4>3 DEF Pending
      <3>4. CASE \E c \in Clients : Creates(c, o)
        BY <2>1, <3>4 DEF Pending, New
      <3>. QED
        BY <2>3, <3>1, <3>2, <3>3, <3>4, HistoryStep
    <2>. QED
      BY <1>2, <2>2, <2>3 DEF Due, HasStatus, LatestById
  <1>. QED
    BY <1>1, <1>2 DEF Pending

(* ... and until it is, nothing happens to it but the insert of ORDER_CREATED. *)
LEMMA PendingIsFreshKept ==
    ASSUME HistInv, NewIsBlank, PendingIsFresh, NoDangling, [Next]_vars, faults' = 0
    PROVE  PendingIsFresh'
  <1>. SUFFICES ASSUME NEW o \in OrderIds, Pending(o)'
                PROVE  Fresh(o)'
    BY DEF PendingIsFresh
  <1>. TypeInv /\ history[o] \in Seq(StatusType)
    BY Shapes DEF HistInv
  <1>1. Pending(o) /\ ~Issues(o) /\ Fresh(o)
    BY PendingStep DEF PendingIsFresh
  <1>2. ~Commissions(o)
    BY <1>1 DEF Pending, NewIsBlank, HistInv, Commissions, Commissioned
  <1>3. ~InThirdParty(o)'
    BY <1>1, Enters DEF Fresh
  <1>4. \A w \in Workers : ~Records(w, o) /\ ~(report[w].pc = "accepted" /\ report[w].order = o)
    BY <1>1 DEF Records, Fresh, InThirdParty, About
  <1>5. cards'[o] = 0
    BY <1>1, <1>4, CardsStep DEF Fresh
  <1>6. \/ history'[o] = history[o] \/ Len(history'[o]) = 0
        \/ history'[o] = Append(history[o], "ORDER_CREATED")
    BY <1>2, <1>4, HistoryStep
  <1>7. \A i \in 1..Len(history'[o]) : history'[o][i] = "ORDER_CREATED"
    BY <1>1, <1>6 DEF Fresh
  <1>. QED
    BY <1>3, <1>5, <1>7 DEF Fresh

----------------------------------------------------------------------------
(* A worker waits exactly while its report is in flight *)

(* The manufacturer works on its own statuses, and so does the courier. *)
Kinds ==
    \A w \in Workers : \A i \in 1..Len(processes[w]) :
        processes[w][i].status \in IF w = "manufacturer" THEN ManufactureStatus ELSE CourierStatus

Synchronous ==
    \A w \in Workers :
        /\ report[w].pc # "none" <=> scan[w].pc = "waiting"
        /\ scan[w].pc = "waiting" =>
              /\ Current(w).status \in DOMAIN Says
              /\ report[w].order = Current(w).order
              /\ report[w].type = Says[Current(w).status]

LEMMA Handed ==
    ASSUME TypeInv, HandToCourier
    PROVE  LET p == [order |-> Current("manufacturer").order, status |-> "NEW_CARD_RECEIVED"] IN
           /\ scan["manufacturer"].at \in 1..Len(processes["manufacturer"])
           /\ scan["manufacturer"].pc = "scanning" /\ Current("manufacturer").status = "CARD_CREATED"
           /\ p \in Process /\ processes' = [processes EXCEPT !["courier"] = Append(@, p)]
           /\ scan'["manufacturer"].pc = "scanning" /\ scan'["courier"] = scan["courier"]
           /\ UNCHANGED <<tables, client, work, report>>
  <1>1. /\ scan["manufacturer"].at \in 1..Len(processes["manufacturer"]) /\ Current("manufacturer") \in Process
        /\ scan["manufacturer"].pc = "scanning" /\ Current("manufacturer").status = "CARD_CREATED"
    BY AtPosition DEF HandToCourier, TypeInv, TypeOK, AtProcess, Workers
  <1>2. scan'["manufacturer"].pc = "scanning" /\ scan'["courier"] = scan["courier"]
    <2>1. scan \in [Workers -> [pc : ScanPcs, at : Nat, size : Nat, done : SUBSET Nat]]
      BY DEF TypeInv, TypeOK, ListsOK
    <2>. QED
      BY <2>1 DEF HandToCourier, Retire, Workers
  <1>. QED
    BY <1>1, <1>2 DEF HandToCourier, Process, CourierStatus

(* The processes of a calm step: each one was there, with its status or a    *)
(* later one, or is new.                                                     *)
LEMMA KindsKept ==
    ASSUME TypeInv, Kinds, [Next]_vars, faults' = 0
    PROVE  Kinds'
  <1>. "manufacturer" \in Workers /\ "courier" \in Workers
    BY DEF Workers
  <1>1. CASE Rests \/ \E w \in Workers : Answers(w) \/ Proceeds(w)
    BY <1>1 DEF Rests, Answers, Proceeds, thirdParty, Kinds
  <1>2. ASSUME NEW w \in Workers, NEW p \in Process, processes' = [processes EXCEPT ![w] = Append(@, p)],
               p.status \in IF w = "manufacturer" THEN ManufactureStatus ELSE CourierStatus
        PROVE  Kinds'
    <2>. SUFFICES ASSUME NEW v \in Workers, NEW i \in 1..Len(processes'[v])
                  PROVE  processes'[v][i].status \in IF v = "manufacturer" THEN ManufactureStatus ELSE CourierStatus
      BY DEF Kinds
    <2>1. CASE v # w
      BY <1>2, <2>1, Grown DEF Kinds
    <2>2. CASE v = w
      <3>1. Len(processes[w]) \in Nat
        BY DEF TypeInv, TypeOK, ListsOK
      <3>2. i \in 1..Len(processes[w]) \/ i = Len(processes[w]) + 1
        BY <1>2, <2>2, <3>1, Grown
      <3>. QED
        BY <1>2, <2>2, <3>2, Grown DEF Kinds
    <2>. QED
      BY <2>1, <2>2
  <1>3. CASE \E o \in OrderIds : Issues(o)
    BY <1>2, <1>3 DEF Issues, Process, ManufactureStatus
  <1>4. CASE HandToCourier
    BY <1>2, <1>4, Handed DEF CourierStatus
  <1>5. CASE \E w \in Workers : RemoveRetired(w)
    <2>1. PICK w \in Workers : RemoveRetired(w)
      BY <1>5
    <2>2. /\ \A v \in Workers \ {w} : processes'[v] = processes[v]
          /\ \A i \in 1..Len(processes'[w]) : \E j \in 1..Len(processes[w]) : processes'[w][i] = processes[w][j]
      BY <2>1, Removes
    <2>. QED
      BY <2>2 DEF Kinds
  <1>6. ASSUME NEW w \in Workers, NEW status \in DOMAIN Says, Advances(w, status)
        PROVE  Kinds'
    <2>1. status \in IF w = "manufacturer" THEN ManufactureStatus ELSE CourierStatus
      BY <1>6 DEF Advances, ManufactureStatus, CourierStatus
    <2>2. /\ \A v \in Workers : Len(processes'[v]) = Len(processes[v])
          /\ \A v \in Workers : \A i \in 1..Len(processes[v]) :
                processes'[v][i].status = IF v = w /\ i = scan[w].at THEN status ELSE processes[v][i].status
      BY <1>6, Advanced
    <2>. QED
      BY <2>1, <2>2 DEF Kinds
  <1>. QED
    BY <1>1, <1>3, <1>4, <1>5, <1>6, ListStep

LEMMA SynchronousKept ==
    ASSUME TypeInv, Synchronous, [Next]_vars, faults' = 0
    PROVE  Synchronous'
  <1>. "manufacturer" \in Workers /\ "courier" \in Workers
    BY DEF Workers
  <1>. SUFFICES ASSUME NEW w \in Workers
                PROVE  /\ report'[w].pc # "none" <=> scan'[w].pc = "waiting"
                       /\ scan'[w].pc = "waiting" =>
                             /\ processes'[w][scan'[w].at].status \in DOMAIN Says
                             /\ report'[w].order = processes'[w][scan'[w].at].order
                             /\ report'[w].type = Says[processes'[w][scan'[w].at].status]
    BY DEF Synchronous, Current
  <1>0. /\ report[w].pc # "none" <=> scan[w].pc = "waiting"
        /\ scan[w].pc = "waiting" =>
              /\ scan[w].at \in 1..Len(processes[w])
              /\ processes[w][scan[w].at].status \in DOMAIN Says
              /\ report[w].order = processes[w][scan[w].at].order
              /\ report[w].type = Says[processes[w][scan[w].at].status]
    <2>1. scan[w].pc = "waiting" => scan[w].at \in 1..Len(processes[w])
      BY DEF TypeInv, TypeOK, ListsOK, WithinList
    <2>. QED
      BY <2>1 DEF Synchronous, Current
  <1>. HIDE DEF Says
  <1>1. CASE /\ report'[w] = report[w] /\ scan'[w] = scan[w]
             /\ \A i \in 1..Len(processes[w]) : processes'[w][i] = processes[w][i]
    BY <1>0, <1>1
  <1>2. CASE scan[w].pc # "waiting" /\ scan'[w].pc # "waiting" /\ report'[w] = report[w]
    BY <1>0, <1>2
  <1>3. CASE Rests
    BY <1>1, <1>2, <1>3 DEF Rests
  <1>4. CASE \E o \in OrderIds : Issues(o)
    <2>1. PICK o \in OrderIds : Issues(o)
      BY <1>4
    <2>2. [order |-> o, status |-> "ISSUING"] \in Process
      BY DEF Process, ManufactureStatus
    <2>3. \A i \in 1..Len(processes[w]) : processes'[w][i] = processes[w][i]
      BY <2>1, <2>2, Grown DEF Issues
    <2>. QED
      BY <1>1, <2>1, <2>3 DEF Issues
  <1>5. CASE \E v \in Workers : RemoveRetired(v)
    BY <1>1, <1>2, <1>5, Removes
  <1>6. ASSUME NEW v \in Workers, NEW status \in DOMAIN Says, Advances(v, status)
        PROVE  /\ report'[w].pc # "none" <=> scan'[w].pc = "waiting"
               /\ scan'[w].pc = "waiting" =>
                     /\ processes'[w][scan'[w].at].status \in DOMAIN Says
                     /\ report'[w].order = processes'[w][scan'[w].at].order
                     /\ report'[w].type = Says[processes'[w][scan'[w].at].status]
    <2>1. CASE v = w
      <3>1. /\ scan[w].at \in 1..Len(processes[w]) /\ scan'[w].pc = "waiting" /\ scan'[w].at = scan[w].at
            /\ report'[w].pc = "sent" /\ report'[w].type = Says[status] /\ report'[w].order = Current(w).order
        BY <1>6, <2>1, Advanced
      <3>2. /\ processes'[w][scan[w].at].order = processes[w][scan[w].at].order
            /\ processes'[w][scan[w].at].status = status
        BY <1>6, <2>1, <3>1, Advanced
      <3>. QED
        BY <3>1, <3>2 DEF Current
    <2>2. CASE v # w
      <3>1. /\ report'[w] = report[w] /\ scan'[w] = scan[w]
            /\ \A i \in 1..Len(processes[w]) : /\ processes'[w][i].order = processes[w][i].order
                                               /\ processes'[w][i].status = processes[w][i].status
        BY <1>6, <2>2, Advanced
      <3>. QED
        BY <1>0, <3>1
    <2>. QED
      BY <2>1, <2>2
  <1>7. CASE HandToCourier
    <2>. DEFINE p == [order |-> Current("manufacturer").order, status |-> "NEW_CARD_RECEIVED"]
    <2>1. p \in Process /\ processes' = [processes EXCEPT !["courier"] = Append(@, p)]
      BY <1>7, Handed
    <2>. HIDE DEF p
    <2>2. \A i \in 1..Len(processes[w]) : processes'[w][i] = processes[w][i]
      BY <2>1, Grown
    <2>3. w = "manufacturer" \/ w = "courier"
      BY DEF Workers
    <2>. QED
      BY <1>1, <1>2, <1>7, <2>2, <2>3, Handed
  <1>8. ASSUME NEW v \in Workers, ReportStep(v), Answers(v)
        PROVE  scan'[v].pc # "waiting" /\ report'[v].pc = "none" /\ processes' = processes
               /\ \A u \in Workers \ {v} : report'[u] = report[u] /\ scan'[u] = scan[u]
    <2>1. scan \in [Workers -> [pc : ScanPcs, at : Nat, size : Nat, done : SUBSET Nat]]
      BY DEF TypeInv, TypeOK, ListsOK
    <2>2. report \in [Workers -> [pc : {"none", "sent", "accepted", "stored"},
                                  type : StatusType, order : OrderIds \union {None}]]
      BY Shapes
    <2>. QED
      BY <1>8, <2>1, <2>2, Idle DEF Answers, GoOn
  <1>9. CASE \E v \in Workers : ReportStep(v) /\ Answers(v)
    BY <1>1, <1>8, <1>9
  <1>10. CASE \E v \in Workers : Proceeds(v)
    <2>1. PICK v \in Workers : Proceeds(v)
      BY <1>10
    <2>2. /\ report'[w].order = report[w].order /\ report'[w].type = report[w].type
          /\ report'[w].pc # "none" <=> report[w].pc # "none"
      <3>1. report \in [Workers -> [pc : {"none", "sent", "accepted", "stored"},
                                    type : StatusType, order : OrderIds \union {None}]]
        BY Shapes
      <3>2. CASE report' = [report EXCEPT ![v].pc = "accepted"] /\ report[v].pc # "none"
        BY <3>1, <3>2
      <3>3. CASE report' = [report EXCEPT ![v].pc = "stored"] /\ report[v].pc # "none"
        BY <3>1, <3>3
      <3>. QED
        BY <2>1, <3>2, <3>3 DEF Proceeds
    <2>. QED
      BY <1>0, <2>1, <2>2 DEF Proceeds, thirdParty
  <1>. QED
    BY <1>3, <1>4, <1>5, <1>6, <1>7, <1>9, <1>10, ListStep

----------------------------------------------------------------------------
(* The card of an order is made once *)

Making(o) == About("manufacturer", o) /\ report["manufacturer"].type = "CARD_CREATED"
Unmade(o) == cards[o] = 0 /\ ~Recorded(o, "CARD_CREATED") /\ ~Making(o)

Distinct ==
    \A i, j \in 1..Len(processes["manufacturer"]) :
        processes["manufacturer"][i].order = processes["manufacturer"][j].order => i = j

(* A process gets the status CARD_CREATED before it is reported. *)
UnmadeYet ==
    \A i \in 1..Len(processes["manufacturer"]) :
        processes["manufacturer"][i].status # "CARD_CREATED" => Unmade(processes["manufacturer"][i].order)

MadeOnce ==
    \A o \in OrderIds :
        /\ Making(o) => /\ ~Recorded(o, "CARD_CREATED")
                        /\ report["manufacturer"].pc # "stored" => cards[o] = 0
        /\ cards[o] <= 1
        /\ \A i, j \in 1..Len(history[o]) :
              history[o][i] = "CARD_CREATED" /\ history[o][j] = "CARD_CREATED" => i = j

LEMMA WhoReports ==
    ASSUME TypeInv, Kinds, Synchronous
    PROVE  /\ report["courier"].pc # "none" => report["courier"].type \in {"CARD_SHIPPED", "CARD_DELIVERED"}
           /\ report["manufacturer"].pc # "none" => report["manufacturer"].type \in {"CARD_ERROR", "CARD_CREATED"}
  <1>. "manufacturer" \in Workers /\ "courier" \in Workers
    BY DEF Workers
  <1>1. ASSUME NEW w \in Workers, report[w].pc # "none"
        PROVE  /\ Current(w).status \in IF w = "manufacturer" THEN ManufactureStatus ELSE CourierStatus
               /\ Current(w).status \in DOMAIN Says
               /\ report[w].type = Says[Current(w).status]
    <2>1. scan[w].pc = "waiting"
      BY <1>1 DEF Synchronous
    <2>2. scan[w].at \in 1..Len(processes[w])
      BY <2>1 DEF TypeInv, TypeOK, ListsOK, WithinList
    <2>. QED
      BY <2>1, <2>2 DEF Synchronous, Kinds, Current
  <1>2. /\ Says["MANUFACTURE_ERROR"] = "CARD_ERROR" /\ Says["CARD_CREATED"] = "CARD_CREATED"
        /\ Says["CARD_SENT"] = "CARD_SHIPPED" /\ Says["CARD_DELIVERED"] = "CARD_DELIVERED"
        /\ DOMAIN Says = {"MANUFACTURE_ERROR", "CARD_CREATED", "CARD_SENT", "CARD_DELIVERED"}
    BY DEF Says
  <1>. QED
    BY <1>1, <1>2 DEF ManufactureStatus, CourierStatus

(* The WorkScheduler hands over an order that is fresh. *)
LEMMA IssuesFresh ==
    ASSUME HistInv, PendingIsFresh, NEW o \in OrderIds, Issues(o)
    PROVE  Fresh(o) /\ Unmade(o)
  <1>1. Pending(o)
    BY DEF Issues, Pending, Due, Commissions
  <1>2. Fresh(o)
    BY <1>1 DEF PendingIsFresh
  <1>3. ~Recorded(o, "CARD_CREATED")
    BY <1>2 DEF Fresh, Recorded
  <1>4. ~Making(o)
    BY <1>2 DEF Making, Fresh, InThirdParty, Workers
  <1>. QED
    BY <1>2, <1>3, <1>4 DEF Fresh, Unmade

LEMMA DistinctKept ==
    ASSUME HistInv, PendingIsFresh, Distinct, [Next]_vars, faults' = 0
    PROVE  Distinct'
  <1>. TypeInv /\ "manufacturer" \in Workers
    BY DEF HistInv, Workers
  <1>. /\ processes["manufacturer"] \in Seq(Process) /\ Len(processes["manufacturer"]) \in Nat
    BY DEF TypeInv, TypeOK, ListsOK
  <1>1. CASE processes'["manufacturer"] = processes["manufacturer"]
    BY <1>1 DEF Distinct
  <1>2. CASE \E o \in OrderIds : Issues(o)
    <2>1. PICK o \in OrderIds : Issues(o)
      BY <1>2
    <2>. DEFINE p == [order |-> o, status |-> "ISSUING"]
    <2>2. p \in Process /\ p.order = o /\ processes' = [processes EXCEPT !["manufacturer"] = Append(@, p)]
      BY <2>1 DEF Issues, Process, ManufactureStatus
    <2>. HIDE DEF p
    <2>3. \A i \in 1..Len(processes["manufacturer"]) : processes["manufacturer"][i].order # o
      BY <2>1, IssuesFresh DEF Fresh, InThirdParty, InList
    <2>4. /\ Len(processes'["manufacturer"]) = Len(processes["manufacturer"]) + 1
          /\ \A i \in 1..Len(processes["manufacturer"]) :
                processes'["manufacturer"][i] = processes["manufacturer"][i]
          /\ processes'["manufacturer"][Len(processes["manufacturer"]) + 1].order = o
      BY <2>2, Grown
    <2>. SUFFICES ASSUME NEW i \in 1..Len(processes'["manufacturer"]),
                         NEW j \in 1..Len(processes'["manufacturer"]),
                         processes'["manufacturer"][i].order = processes'["manufacturer"][j].order
                  PROVE  i = j
      BY DEF Distinct
    <2>. DEFINE n == Len(processes["manufacturer"])
    <2>5. (i \in 1..n \/ i = n + 1) /\ (j \in 1..n \/ j = n + 1)
      BY <2>4
    <2>6. CASE i \in 1..n /\ j \in 1..n
      BY <2>4, <2>6 DEF Distinct
    <2>7. CASE i = n + 1 \/ j = n + 1
      BY <2>3, <2>4, <2>5, <2>7
    <2>. QED
      BY <2>5, <2>6, <2>7
  <1>3. CASE \E w \in Workers : RemoveRetired(w)
    <2>1. PICK w \in Workers : RemoveRetired(w)
      BY <1>3
    <2>2. CASE w = "manufacturer"
      <3>1. PICK n \in Nat : \A i \in 1..Len(processes'[w]) :
                                /\ Before(n, i) \in 1..Len(processes[w])
                                /\ processes'[w][i] = processes[w][Before(n, i)]
        BY <2>1, Removes
      <3>2. SUFFICES ASSUME NEW i \in 1..Len(processes'[w]), NEW j \in 1..Len(processes'[w]),
                            processes'[w][i].order = processes'[w][j].order
                     PROVE  i = j
        BY <2>2 DEF Distinct
      <3>3. Before(n, i) = Before(n, j)
        BY <2>2, <3>1, <3>2 DEF Distinct
      <3>4. i \in Int /\ j \in Int
        OBVIOUS
      <3>. QED
        BY <3>3, <3>4 DEF Before
    <2>. QED
      BY <1>1, <2>1, <2>2, Removes
  <1>4. ASSUME NEW w \in Workers, NEW status \in DOMAIN Says, Advances(w, status)
        PROVE  Distinct'
    <2>1. /\ Len(processes'["manufacturer"]) = Len(processes["manufacturer"])
          /\ \A i \in 1..Len(processes["manufacturer"]) :
                processes'["manufacturer"][i].order = processes["manufacturer"][i].order
      BY <1>4, Advanced
    <2>. QED
      BY <2>1 DEF Distinct
  <1>5. CASE HandToCourier
    <2>1. processes \in [Workers -> Seq(Process)]
      BY DEF TypeInv, TypeOK, ListsOK
    <2>2. processes'["manufacturer"] = processes["manufacturer"]
      BY <1>5, <2>1, Handed
    <2>. QED
      BY <1>1, <2>2
  <1>. QED
    BY <1>1, <1>2, <1>3, <1>4, <1>5, ListStep DEF Rests, Answers, Proceeds, thirdParty

(* Only a report of the manufacturer makes a card. *)
LEMMA UnmadeStep ==
    ASSUME TypeInv, Kinds, Synchronous, Reported, [Next]_vars, NEW o \in OrderIds, Unmade(o), ~Making(o)'
    PROVE  Unmade(o)'
  <1>. history[o] \in Seq(StatusType)
    BY Shapes
  <1>1. \A w \in Workers : report[w].pc # "none" /\ report[w].order = o => report[w].type # "CARD_CREATED"
    BY WhoReports DEF Unmade, Making, About, Workers
  <1>2. cards'[o] = 0
    BY <1>1, CardsStep DEF Unmade
  <1>3. \A w \in Workers : Records(w, o) => report[w].pc # "none" /\ report[w].order = o
    BY DEF Records
  <1>4. \/ history'[o] = history[o] \/ Len(history'[o]) = 0
        \/ \E type \in StatusType \ {"CARD_CREATED"} : history'[o] = Append(history[o], type)
    <2>1. \A w \in Workers : report[w].type \in StatusType
      BY Shapes
    <2>. QED
      BY <1>1, <1>3, <2>1, HistoryStep, StatusTypes
  <1>5. ~Recorded(o, "CARD_CREATED")'
    <2>1. ASSUME NEW type \in StatusType \ {"CARD_CREATED"}, history'[o] = Append(history[o], type)
          PROVE  ~Recorded(o, "CARD_CREATED")'
      BY <2>1 DEF Unmade, Recorded
    <2>. QED
      BY <1>4, <2>1 DEF Unmade, Recorded
  <1>. QED
    BY <1>2, <1>5 DEF Unmade

(* Who begins to report a card. *)
LEMMA MakingStep ==
    ASSUME TypeInv, [Next]_vars, faults' = 0, NEW o \in OrderIds, Making(o)'
    PROVE  \/ Making(o)
           \/ Advances("manufacturer", "CARD_CREATED") /\ Current("manufacturer").order = o
  <1>. "manufacturer" \in Workers /\ "courier" \in Workers
    BY DEF Workers
  <1>0. report \in [Workers -> [pc : {"none", "sent", "accepted", "stored"},
                                type : StatusType, order : OrderIds \union {None}]]
    BY Shapes
  <1>1. CASE report'["manufacturer"] = report["manufacturer"]
    BY <1>1 DEF Making, About
  <1>2. ASSUME NEW w \in Workers, NEW status \in DOMAIN Says, Advances(w, status), w = "manufacturer"
        PROVE  Advances("manufacturer", "CARD_CREATED") /\ Current("manufacturer").order = o
    <2>1. report'[w].type = Says[status] /\ report'[w].order = Current(w).order
      BY <1>2, Advanced
    <2>2. status = "CARD_CREATED"
      BY <1>2, <2>1 DEF Making, Says, Advances
    <2>. QED
      BY <1>2, <2>1, <2>2 DEF Making, About
  <1>3. ASSUME NEW w \in Workers, NEW status \in DOMAIN Says, Advances(w, status), w # "manufacturer"
        PROVE  report'["manufacturer"] = report["manufacturer"]
    BY <1>3, Advanced
  <1>4. CASE \E w \in Workers : Answers(w)
    BY <1>0, <1>4, Idle DEF Answers, Making, About
  <1>5. CASE \E w \in Workers : Proceeds(w)
    BY <1>0, <1>5 DEF Proceeds, Making, About
  <1>6. CASE \/ Rests \/ HandToCourier
             \/ \E p \in OrderIds : Issues(p)
             \/ \E w \in Workers : RemoveRetired(w)
    BY <1>1, <1>6 DEF Rests, Issues, HandToCourier, RemoveRetired
  <1>. QED
    BY <1>1, <1>2, <1>3, <1>4, <1>5, <1>6, ListStep

LEMMA UnmadeYetKept ==
    ASSUME HistInv, PendingIsFresh, Kinds, Synchronous, Distinct, UnmadeYet, [Next]_vars, faults' = 0
    PROVE  UnmadeYet'
  <1>. TypeInv /\ Reported /\ "manufacturer" \in Workers /\ "courier" \in Workers
    BY DEF HistInv, Workers
  <1>. /\ processes["manufacturer"] \in Seq(Process) /\ Len(processes["manufacturer"]) \in Nat
    BY DEF TypeInv, TypeOK, ListsOK
  <1>0. ASSUME NEW i \in 1..Len(processes["manufacturer"]), NEW p \in OrderIds,
               p = processes["manufacturer"][i].order,
               processes["manufacturer"][i].status # "CARD_CREATED",
               ~(Advances("manufacturer", "CARD_CREATED") /\ Current("manufacturer").order = p)
        PROVE  Unmade(p)'
    <2>1. Unmade(p)
      BY <1>0 DEF UnmadeYet
    <2>2. ~Making(p)'
      BY <1>0, <2>1, MakingStep DEF Unmade
    <2>. QED
      BY <2>1, <2>2, UnmadeStep
  <1>. SUFFICES ASSUME NEW i \in 1..Len(processes'["manufacturer"]), NEW p \in OrderIds,
                       p = processes'["manufacturer"][i].order,
                       processes'["manufacturer"][i].status # "CARD_CREATED"
                PROVE  Unmade(p)'
    <2>1. TypeInv'
      BY TypeInvKept
    <2>2. \A i \in 1..Len(processes'["manufacturer"]) : processes'["manufacturer"][i].order \in OrderIds
      <3>1. processes' \in [Workers -> Seq(Process)]
        BY <2>1 DEF TypeInv, TypeOK, ListsOK
      <3>2. processes'["manufacturer"] \in Seq(Process)
        BY <3>1
      <3>3. \A i \in 1..Len(processes'["manufacturer"]) : processes'["manufacturer"][i] \in Process
        BY <3>2
      <3>. QED
        BY <3>3 DEF Process
    <2>3. \A i \in 1..Len(processes'["manufacturer"]) :
            \A p \in OrderIds : p = processes'["manufacturer"][i].order
                                /\ processes'["manufacturer"][i].status # "CARD_CREATED" => Unmade(p)'
      OBVIOUS
    <2>4. ASSUME NEW i \in 1..Len(processes'["manufacturer"]), processes'["manufacturer"][i].status # "CARD_CREATED"
          PROVE  /\ cards'[processes'["manufacturer"][i].order] = 0
                 /\ ~Recorded(processes["manufacturer"][i].order, "CARD_CREATED")'
                 /\ ~Making(processes["manufacturer"][i].order)'
      BY <2>2, <2>3, <2>4 DEF Unmade, Recorded, Making, About
    <2>. QED
      BY <2>4 DEF UnmadeYet, Unmade
  <1>1. CASE ~(\E status \in DOMAIN Says : Advances("manufacturer", status))
             /\ processes'["manufacturer"] = processes["manufacturer"]
    BY <1>0, <1>1 DEF Says
  <1>2. CASE \E o \in OrderIds : Issues(o)
    <2>1. PICK o \in OrderIds : Issues(o)
      BY <1>2
    <2>. DEFINE new == [order |-> o, status |-> "ISSUING"]
    <2>2. new \in Process /\ new.order = o /\ processes' = [processes EXCEPT !["manufacturer"] = Append(@, new)]
      BY <2>1 DEF Issues, Process, ManufactureStatus
    <2>. HIDE DEF new
    <2>3. /\ Len(processes'["manufacturer"]) = Len(processes["manufacturer"]) + 1
          /\ \A j \in 1..Len(processes["manufacturer"]) :
                processes'["manufacturer"][j] = processes["manufacturer"][j]
          /\ processes'["manufacturer"][Len(processes["manufacturer"]) + 1].order = o
      BY <2>2, Grown
    <2>4. work.pc = "listed" /\ report' = report
      BY <2>1 DEF Issues
    <2>5. ~Advances("manufacturer", "CARD_CREATED")
      <3>1. Advances("manufacturer", "CARD_CREATED") =>
              scan'["manufacturer"].pc = "waiting" /\ scan["manufacturer"].pc = "scanning"
        BY Advanced DEF Says, Advances
      <3>. QED
        BY <2>1, <3>1 DEF Issues
    <2>6. CASE i \in 1..Len(processes["manufacturer"])
      BY <1>0, <2>3, <2>5, <2>6
    <2>7. CASE i = Len(processes["manufacturer"]) + 1
      <3>1. p = o /\ Unmade(p)
        BY <2>1, <2>3, <2>7, IssuesFresh
      <3>2. ~Making(p)'
        BY <2>4, <3>1 DEF Unmade, Making, About
      <3>. QED
        BY <3>1, <3>2, UnmadeStep
    <2>. QED
      BY <2>3, <2>6, <2>7
  <1>3. CASE \E w \in Workers : RemoveRetired(w)
    <2>1. PICK w \in Workers : RemoveRetired(w)
      BY <1>3
    <2>2. ~Advances("manufacturer", "CARD_CREATED")
      <3>1. scan'["manufacturer"].pc = "waiting" => scan["manufacturer"].pc = "waiting"
        BY <2>1, Removes
      <3>2. Advances("manufacturer", "CARD_CREATED") =>
              scan'["manufacturer"].pc = "waiting" /\ scan["manufacturer"].pc = "scanning"
        BY Advanced DEF Says, Advances
      <3>. QED
        BY <3>1, <3>2
    <2>3. \E j \in 1..Len(processes["manufacturer"]) : processes'["manufacturer"][i] = processes["manufacturer"][j]
      <3>1. CASE w = "manufacturer"
        BY <2>1, <3>1, Removes
      <3>2. CASE w # "manufacturer"
        <4>1. processes'["manufacturer"] = processes["manufacturer"]
          BY <2>1, <3>2, Removes
        <4>. QED
          BY <4>1
      <3>. QED
        BY <3>1, <3>2
    <2>. QED
      BY <1>0, <2>2, <2>3
  <1>4. ASSUME NEW status \in DOMAIN Says, Advances("manufacturer", status)
        PROVE  Unmade(p)'
    <2>. DEFINE at == scan["manufacturer"].at
    <2>1. /\ i \in 1..Len(processes["manufacturer"]) /\ at \in 1..Len(processes["manufacturer"])
          /\ processes'["manufacturer"][i].order = processes["manufacturer"][i].order
          /\ processes'["manufacturer"][i].status = IF i = at THEN status ELSE processes["manufacturer"][i].status
      BY <1>4, Advanced
    <2>2. processes["manufacturer"][at].status # "CARD_CREATED"
      BY <1>4 DEF Advances, Current
    <2>3. report'["manufacturer"].type = Says[status]
      BY <1>4, Advanced
    <2>4. Advances("manufacturer", "CARD_CREATED") => status = "CARD_CREATED"
      <3>1. Advances("manufacturer", "CARD_CREATED") => report'["manufacturer"].type = Says["CARD_CREATED"]
        BY Advanced DEF Says
      <3>. QED
        BY <1>4, <2>3, <3>1 DEF Says, Advances
    <2>5. CASE i = at
      BY <1>0, <2>1, <2>2, <2>4, <2>5
    <2>6. CASE i # at
      <3>1. Current("manufacturer").order # p
        BY <2>1, <2>6 DEF Distinct, Current
      <3>. QED
        BY <1>0, <2>1, <2>6, <3>1
    <2>. QED
      BY <2>5, <2>6
  <1>5. CASE HandToCourier
    <2>1. processes'["manufacturer"] = processes["manufacturer"]
      <3>1. processes \in [Workers -> Seq(Process)]
        BY DEF TypeInv, TypeOK, ListsOK
      <3>. QED
        BY <1>5, <3>1, Handed
    <2>. QED
      BY <1>1, <1>4, <2>1
  <1>6. ASSUME NEW w \in Workers, NEW status \in DOMAIN Says, Advances(w, status), w # "manufacturer"
        PROVE  Unmade(p)'
    <2>1. /\ Len(processes'["manufacturer"]) = Len(processes["manufacturer"])
          /\ \A j \in 1..Len(processes["manufacturer"]) :
                /\ processes'["manufacturer"][j].order = processes["manufacturer"][j].order
                /\ processes'["manufacturer"][j].status = processes["manufacturer"][j].status
      BY <1>6, Advanced
    <2>2. CASE Advances("manufacturer", "CARD_CREATED")
      BY <1>4, <2>2 DEF Says
    <2>. QED
      BY <1>0, <2>1, <2>2
  <1>7. CASE Rests \/ \E w \in Workers : Answers(w) \/ Proceeds(w)
    BY <1>1, <1>4, <1>7 DEF Rests, Answers, Proceeds, thirdParty
  <1>. QED
    BY <1>2, <1>3, <1>4, <1>5, <1>6, <1>7, ListStep

(* A report in flight is carried on as it is. *)
LEMMA InFlight ==
    ASSUME TypeInv, Synchronous, [Next]_vars, faults' = 0, NEW w \in Workers, report[w].pc # "none"
    PROVE  \/ report'[w] = report[w]
           \/ report'[w].pc = "none"
           \/ /\ report'[w].type = report[w].type /\ report'[w].order = report[w].order
              /\ \/ report[w].pc = "sent" /\ report'[w].pc = "accepted"
                 \/ report[w].pc = "accepted" /\ report'[w].pc = "stored"
  <1>0. report \in [Workers -> [pc : {"none", "sent", "accepted", "stored"},
                                type : StatusType, order : OrderIds \union {None}]]
    BY Shapes
  <1>1. scan[w].pc # "scanning"
    BY DEF Synchronous
  <1>2. report'[w] = report[w] \/ report'[w].pc # "sent"
    <2>1. ASSUME NEW v \in Workers, NEW status \in DOMAIN Says, Advances(v, status)
          PROVE  report'[w] = report[w]
      <3>1. v # w
        BY <1>1, <2>1 DEF Advances
      <3>. QED
        BY <2>1, <3>1, Advanced
    <2>2. CASE \E v \in Workers : Answers(v)
      BY <1>0, <2>2, Idle DEF Answers
    <2>3. CASE \E v \in Workers : Proceeds(v)
      BY <1>0, <2>3 DEF Proceeds
    <2>. QED
      BY <2>1, <2>2, <2>3, ListStep DEF Rests, Issues, HandToCourier, RemoveRetired
  <1>. QED
    BY <1>2, ReportStepOf

LEMMA MadeOnceKept ==
    ASSUME HistInv, Kinds, Synchronous, UnmadeYet, MadeOnce, [Next]_vars, faults' = 0
    PROVE  MadeOnce'
  <1>. TypeInv /\ Reported /\ "manufacturer" \in Workers /\ "courier" \in Workers
    BY DEF HistInv, Workers
  <1>. SUFFICES ASSUME NEW o \in OrderIds
                PROVE  /\ Making(o)' => /\ ~Recorded(o, "CARD_CREATED")'
                                        /\ report'["manufacturer"].pc # "stored" => cards'[o] = 0
                       /\ cards'[o] <= 1
                       /\ \A i, j \in 1..Len(history'[o]) :
                             history'[o][i] = "CARD_CREATED" /\ history'[o][j] = "CARD_CREATED" => i = j
    BY DEF MadeOnce
  <1>. history[o] \in Seq(StatusType) /\ cards[o] \in Nat
    BY Shapes
  <1>0. /\ report \in [Workers -> [pc : {"none", "sent", "accepted", "stored"},
                                   type : StatusType, order : OrderIds \union {None}]]
        /\ NoReport.pc = "none"
    BY Shapes, Idle
  <1>1. \A w \in Workers : report[w].pc # "none" /\ report[w].order = o /\ report[w].type = "CARD_CREATED"
                           => w = "manufacturer" /\ Making(o)
    BY WhoReports DEF Making, About, Workers
  <1>2. Making(o) => ~Recorded(o, "CARD_CREATED") /\ (report["manufacturer"].pc # "stored" => cards[o] = 0)
    BY DEF MadeOnce
  <1>3. \/ history'[o] = history[o] \/ Len(history'[o]) = 0
        \/ \E type \in StatusType \ {"CARD_CREATED"} : history'[o] = Append(history[o], type)
        \/ /\ history'[o] = Append(history[o], "CARD_CREATED") /\ Making(o)
           /\ report'["manufacturer"].pc = "none"
    <2>1. ASSUME NEW w \in Workers, Records(w, o), report' = [report EXCEPT ![w] = NoReport],
                 history'[o] = Append(history[o], report[w].type)
          PROVE  \/ \E type \in StatusType \ {"CARD_CREATED"} : history'[o] = Append(history[o], type)
                 \/ /\ history'[o] = Append(history[o], "CARD_CREATED") /\ Making(o)
                    /\ report'["manufacturer"].pc = "none"
      <3>1. report[w].pc # "none" /\ report[w].order = o /\ report[w].type \in StatusType
        BY <1>0, <2>1 DEF Records
      <3>2. report'[w] = NoReport
        BY <1>0, <2>1
      <3>. QED
        BY <1>0, <1>1, <2>1, <3>1, <3>2
    <2>. QED
      BY <2>1, HistoryStep, StatusTypes
  <1>4. \/ cards'[o] = cards[o] \/ cards'[o] = 0
        \/ /\ cards'[o] = cards[o] + 1 /\ Making(o)
           /\ report["manufacturer"].pc = "accepted" /\ report'["manufacturer"].pc = "stored"
    BY <1>0, <1>1, CardsStep
  <1>5. cards'[o] <= 1
    BY <1>2, <1>4 DEF MadeOnce
  <1>6. ASSUME NEW i \in 1..Len(history'[o]), NEW j \in 1..Len(history'[o]),
               history'[o][i] = "CARD_CREATED", history'[o][j] = "CARD_CREATED"
        PROVE  i = j
    <2>1. \A k, l \in 1..Len(history[o]) : history[o][k] = "CARD_CREATED" /\ history[o][l] = "CARD_CREATED" => k = l
      BY DEF MadeOnce
    <2>2. CASE history'[o] = history[o] \/ Len(history'[o]) = 0
      BY <1>6, <2>1, <2>2
    <2>3. CASE \E type \in StatusType \ {"CARD_CREATED"} : history'[o] = Append(history[o], type)
      BY <1>6, <2>1, <2>3
    <2>4. CASE history'[o] = Append(history[o], "CARD_CREATED") /\ Making(o)
      BY <1>2, <1>6, <2>4 DEF Recorded
    <2>. QED
      BY <1>3, <2>2, <2>3, <2>4
  <1>7. ASSUME Making(o)'
        PROVE  ~Recorded(o, "CARD_CREATED")' /\ (report'["manufacturer"].pc # "stored" => cards'[o] = 0)
    <2>1. report'["manufacturer"].pc # "none"
      BY <1>7 DEF Making, About
    <2>2. CASE Making(o)
      <3>1. ~Recorded(o, "CARD_CREATED")'
        <4>1. \A i \in 1..Len(history[o]) : history[o][i] # "CARD_CREATED"
          BY <1>2, <2>2 DEF Recorded
        <4>2. ASSUME NEW type \in StatusType \ {"CARD_CREATED"}, history'[o] = Append(history[o], type)
              PROVE  \A i \in 1..Len(history'[o]) : history'[o][i] # "CARD_CREATED"
          BY <4>1, <4>2
        <4>3. \A i \in 1..Len(history'[o]) : history'[o][i] # "CARD_CREATED"
          BY <1>3, <2>1, <4>1, <4>2
        <4>. QED
          BY <4>3 DEF Recorded
      <3>2. CASE report["manufacturer"].pc = "stored"
        <4>1. report'["manufacturer"].pc = "stored"
          BY <2>1, <3>2, InFlight
        <4>. QED
          BY <3>1, <4>1
      <3>3. CASE report["manufacturer"].pc # "stored"
        BY <1>2, <1>4, <2>2, <3>1, <3>3
      <3>. QED
        BY <3>2, <3>3
    <2>3. CASE Advances("manufacturer", "CARD_CREATED") /\ Current("manufacturer").order = o
      <3>1. scan["manufacturer"].at \in 1..Len(processes["manufacturer"])
            /\ Current("manufacturer").status # "CARD_CREATED" /\ UNCHANGED tables
        BY <2>3 DEF Advances, SetAndReport
      <3>2. Unmade(o)
        BY <2>3, <3>1 DEF UnmadeYet, Current
      <3>. QED
        BY <3>1, <3>2 DEF Unmade, Recorded, tables
    <2>. QED
      BY <1>7, <2>2, <2>3, MakingStep
  <1>. QED
    BY <1>5, <1>6, <1>7

----------------------------------------------------------------------------
(* The database knows what the third party has done *)

(* What is recorded of an order before its process gets a status, ... *)
Behind == [ISSUING |-> {}, MANUFACTURE_ERROR |-> {}, CARD_CREATED |-> {},
           NEW_CARD_RECEIVED |-> {"CARD_CREATED"}, CARD_SENT |-> {"CARD_CREATED"},
           CARD_DELIVERED |-> {"CARD_CREATED", "CARD_SHIPPED"}]

(* ... and the statuses that are recorded when the worker goes on. *)
Lasting == {"CARD_CREATED", "CARD_SENT", "CARD_DELIVERED"}

Backed(o, status, waits) ==
    Kept(o) =>
        /\ HasStatus(o)
        /\ \A type \in Behind[status] : Recorded(o, type)
        /\ status \in Lasting /\ ~waits => Recorded(o, Says[status])

AllBacked ==
    \A w \in Workers : \A i \in 1..Len(processes[w]) :
        Backed(processes[w][i].order, processes[w][i].status, Waits(w, i))

(* No milestone is recorded before the one it follows. *)
Chained ==
    \A o \in OrderIds : Kept(o) =>
        /\ Recorded(o, "CARD_DELIVERED") => Recorded(o, "CARD_SHIPPED")
        /\ Recorded(o, "CARD_SHIPPED") => Recorded(o, "CARD_CREATED")

RowsKept == \A o \in OrderIds : Kept(o) /\ owner[o] # None => o \in orders

LEMMA RowsKeptKept ==
    ASSUME HistInv, RowsKept, [Next]_vars
    PROVE  RowsKept'
  <1>. TypeInv /\ Drawn /\ Deleting
    BY DEF HistInv
  <1>. SUFFICES ASSUME NEW o \in OrderIds, Kept(o)', owner'[o] # None
                PROVE  o \in orders'
    BY DEF RowsKept, Kept
  <1>. owner \in [OrderIds -> Accounts \union {None}]
    BY Shapes
  <1>1. Kept(o)
    BY Grows
  <1>2. CASE \E c \in Clients : InsertNewOrder(c)
    <2>1. orders' = orders \union {FreshGuid} /\ (owner'[o] = owner[o] \/ o = FreshGuid)
      BY <1>2 DEF InsertNewOrder
    <2>. QED
      BY <1>1, <2>1 DEF RowsKept
  <1>3. CASE \E c \in Clients : DeleteOrders(c)
    <2>1. PICK c \in Clients : orders' \in {orders, orders \ OrdersOf(client[c].account)}
                               /\ client[c].pc = "uncarded" /\ owner' = owner
      BY <1>3 DEF DeleteOrders
    <2>2. o \notin OrdersOf(client[c].account)
      BY <1>1, <2>1 DEF Deleting, Kept, OrdersOf
    <2>. QED
      BY <1>1, <2>1, <2>2 DEF RowsKept
  <1>4. CASE orders' = orders /\ owner' = owner
    BY <1>1, <1>4 DEF RowsKept
  <1>. QED
    BY <1>2, <1>3, <1>4, StepCases DEF tables, ClientStep, CountOrders, InsertOrderCreated, DeleteStatuses,
         DeleteCards, WorkStep, WorkList, IssueCreditCard, RecordCardOrdered,
         RemoveRetired, Manufactures, Couriers, Idles,
         ManufactureFails, ManufactureSucceeds, HandToCourier, SetAndReport,
         ShipCard, DeliverCard, ReportStep, RejectStatus,
         AcceptStatus, StoreDetails, InsertStatus, FaultStep, ClientRequestFails,
         ReportFails, WorkFails, AddressFails, OrderServiceRestarts, ThirdPartyRestarts

(* A status that is recorded stays, and a new one has its report. *)
LEMMA RecordedStep ==
    ASSUME HistInv, [Next]_vars, NEW o \in OrderIds, Kept(o)', NEW type \in StatusType
    PROVE  /\ Kept(o)
           /\ HasStatus(o) => HasStatus(o)'
           /\ Recorded(o, type) => Recorded(o, type)'
           /\ Recorded(o, type)' =>
                \/ Recorded(o, type)
                \/ \E w \in Workers : Records(w, o) /\ report[w].type = type
                \/ type \in {"ORDER_CREATED", "CARD_ORDERED"}
  <1>. TypeInv /\ Drawn /\ Deleting /\ history[o] \in Seq(StatusType)
    BY Shapes DEF HistInv
  <1>1. Kept(o) /\ (HasStatus(o) => HasStatus(o)') /\ owner[o] \notin Deletable
    BY Grows DEF Kept
  <1>2. CASE history'[o] = history[o]
    BY <1>1, <1>2 DEF Recorded
  <1>3. ASSUME NEW new \in StatusType, history'[o] = Append(history[o], new)
        PROVE  /\ Recorded(o, type) => Recorded(o, type)'
               /\ Recorded(o, type)' => Recorded(o, type) \/ type = new
    <2>1. /\ Len(history'[o]) = Len(history[o]) + 1 /\ Len(history[o]) \in Nat
          /\ \A i \in 1..Len(history[o]) : history'[o][i] = history[o][i]
          /\ history'[o][Len(history[o]) + 1] = new
      BY <1>3
    <2>2. Recorded(o, type) => Recorded(o, type)'
      BY <2>1 DEF Recorded
    <2>3. ASSUME NEW i \in 1..Len(history'[o]), history'[o][i] = type
          PROVE  Recorded(o, type) \/ type = new
      <3>1. i \in 1..Len(history[o]) \/ i = Len(history[o]) + 1
        BY <2>1
      <3>. QED
        BY <2>1, <2>3, <3>1 DEF Recorded
    <2>. QED
      BY <2>2, <2>3 DEF Recorded
  <1>4. \A w \in Workers : report[w].type \in StatusType
    BY Shapes
  <1>5. CASE /\ history'[o] = Append(history[o], "ORDER_CREATED") \/ history'[o] = Append(history[o], "CARD_ORDERED")
    BY <1>1, <1>3, <1>5, StatusTypes
  <1>6. ASSUME NEW w \in Workers, Records(w, o), history'[o] = Append(history[o], report[w].type)
        PROVE  /\ Recorded(o, type) => Recorded(o, type)'
               /\ Recorded(o, type)' => Recorded(o, type) \/ type = report[w].type
    BY <1>3, <1>4, <1>6
  <1>. QED
    BY <1>1, <1>2, <1>5, <1>6, HistoryStep

LEMMA BackedStays ==
    ASSUME HistInv, [Next]_vars, NEW o \in OrderIds, NEW status \in ManufactureStatus \union CourierStatus,
           NEW waits \in BOOLEAN, Backed(o, status, waits)
    PROVE  Backed(o, status, waits)'
  <1>. SUFFICES ASSUME Kept(o)'
                PROVE  /\ HasStatus(o)'
                       /\ \A type \in Behind[status] : Recorded(o, type)'
                       /\ status \in Lasting /\ ~waits => Recorded(o, Says[status])'
    BY DEF Backed
  <1>1. Behind[status] \subseteq StatusType /\ (status \in Lasting => Says[status] \in StatusType)
    BY StatusTypes DEF Behind, Says, Lasting, ManufactureStatus, CourierStatus
  <1>2. Kept(o) /\ (HasStatus(o) => HasStatus(o)')
    BY RecordedStep, StatusTypes
  <1>3. \A type \in StatusType : Recorded(o, type) => Recorded(o, type)'
    BY RecordedStep
  <1>. QED
    BY <1>1, <1>2, <1>3 DEF Backed

(* What a worker waits with. *)
LEMMA WaitsWith ==
    ASSUME HistInv, Kinds, Synchronous, AllBacked, NEW w \in Workers, report[w].pc # "none"
    PROVE  /\ scan[w].at \in 1..Len(processes[w]) /\ Current(w).status \in DOMAIN Says
           /\ report[w].order \in OrderIds
           /\ report[w].order = Current(w).order /\ report[w].type = Says[Current(w).status]
           /\ Backed(report[w].order, Current(w).status, TRUE)
  <1>1. scan[w].pc = "waiting"
    BY DEF Synchronous
  <1>2. scan[w].at \in 1..Len(processes[w])
    BY <1>1 DEF HistInv, TypeInv, TypeOK, ListsOK, WithinList
  <1>3. /\ Current(w).status \in DOMAIN Says
        /\ report[w].order = Current(w).order /\ report[w].type = Says[Current(w).status]
    BY <1>1 DEF Synchronous
  <1>4. Backed(Current(w).order, Current(w).status, TRUE)
    BY <1>1, <1>2 DEF AllBacked, Current, Waits, Backed
  <1>. QED
    BY <1>2, <1>3, <1>4 DEF HistInv, TypeInv, HoldsOrder

LEMMA ChainedKept ==
    ASSUME HistInv, Kinds, Synchronous, AllBacked, Chained, [Next]_vars
    PROVE  Chained'
  <1>. SUFFICES ASSUME NEW o \in OrderIds, Kept(o)'
                PROVE  /\ Recorded(o, "CARD_DELIVERED")' => Recorded(o, "CARD_SHIPPED")'
                       /\ Recorded(o, "CARD_SHIPPED")' => Recorded(o, "CARD_CREATED")'
    BY DEF Chained
  <1>1. /\ Kept(o)
        /\ \A type \in StatusType : Recorded(o, type) => Recorded(o, type)'
        /\ \A type \in {"CARD_SHIPPED", "CARD_DELIVERED"} : Recorded(o, type)' =>
              Recorded(o, type) \/ \E w \in Workers : Records(w, o) /\ report[w].type = type
    BY RecordedStep, StatusTypes
  <1>2. ASSUME NEW w \in Workers, Records(w, o)
        PROVE  /\ report[w].type = "CARD_DELIVERED" => Recorded(o, "CARD_SHIPPED")
               /\ report[w].type = "CARD_SHIPPED" => Recorded(o, "CARD_CREATED")
    <2>1. report[w].pc # "none" /\ report[w].order = o
      BY <1>2 DEF Records
    <2>2. /\ Current(w).status \in DOMAIN Says /\ report[w].type = Says[Current(w).status]
          /\ Backed(o, Current(w).status, TRUE)
      BY <2>1, WaitsWith
    <2>3. /\ report[w].type = "CARD_DELIVERED" => Current(w).status = "CARD_DELIVERED"
          /\ report[w].type = "CARD_SHIPPED" => Current(w).status = "CARD_SENT"
      BY <2>2 DEF Says
    <2>. QED
      BY <1>1, <2>2, <2>3 DEF Backed, Behind
  <1>. QED
    BY <1>1, <1>2, StatusTypes DEF Chained

(* A worker goes on only when the database knows of a lasting status:        *)
(* actOnNewStatus refuses one only for a status that is not before it.       *)
LEMMA AnsweredIsRecorded ==
    ASSUME HistInv, Kinds, Synchronous, AllBacked, Chained, RowsKept, [Next]_vars,
           NEW w \in Workers, ReportStep(w), Answers(w), Current(w).status \in Lasting,
           NEW o \in OrderIds, o = report[w].order, Kept(o),
           NEW type \in StatusType, type = report[w].type
    PROVE  Recorded(o, type)'
  <1>. TypeInv /\ Drawn
    BY DEF HistInv
  <1>0. report[w].pc # "none"
    BY Idle DEF ReportStep, RejectStatus, AcceptStatus, StoreDetails, InsertStatus, HasDetails
  <1>. history[o] \in Seq(StatusType) /\ history \in [OrderIds -> Seq(StatusType)]
    BY Shapes
  <1>1. /\ type = Says[Current(w).status]
        /\ type \in {"CARD_CREATED", "CARD_SHIPPED", "CARD_DELIVERED"}
        /\ HasStatus(o) /\ o \in orders
    <2>1. type = Says[Current(w).status] /\ Backed(o, Current(w).status, TRUE)
      BY <1>0, WaitsWith
    <2>2. type \in {"CARD_CREATED", "CARD_SHIPPED", "CARD_DELIVERED"}
      BY <2>1 DEF Lasting, Says
    <2>3. o \in orders
      BY <1>0 DEF RowsKept, Drawn
    <2>. QED
      BY <2>1, <2>2, <2>3 DEF Backed
  <1>2. report'[w].pc = "none"
    BY Shapes, Idle DEF Answers
  <1>3. CASE RejectStatus(w)
    <2>1. history' = history
      BY <1>3 DEF RejectStatus, tables
    <2>2. PICK old \in LatestByTimestamp(o) : ~InSequence(type, old)
      BY <1>1, <1>3 DEF RejectStatus, HasStatus
    <2>3. PICK j \in 1..Len(history[o]) : old = history[o][j]
      BY DEF LatestByTimestamp
    <2>4. old \in StatusType /\ Recorded(o, old)
      BY <2>3 DEF Recorded
    <2>5. \/ type = "CARD_CREATED" /\ old \in {"CARD_CREATED", "CARD_SHIPPED", "CARD_DELIVERED"}
          \/ type = "CARD_SHIPPED" /\ old \in {"CARD_SHIPPED", "CARD_DELIVERED"}
          \/ type = "CARD_DELIVERED" /\ old = "CARD_DELIVERED"
      BY <1>1, <2>2, <2>4, StatusTypes DEF InSequence, StatusSequence
    <2>6. Recorded(o, type)
      BY <2>4, <2>5 DEF Chained
    <2>. QED
      BY <2>1, <2>6 DEF Recorded
  <1>4. CASE InsertStatus(w)
    <2>1. history' = [history EXCEPT ![o] = Append(@, type)]
      BY <1>1, <1>4 DEF InsertStatus, InsertNewStatus
    <2>3. history'[o] = Append(history[o], type)
      BY <2>1
    <2>4. /\ Len(history'[o]) \in 1..Len(history'[o]) /\ history'[o][Len(history'[o])] = type
      BY <2>3
    <2>. QED
      BY <2>4 DEF Recorded
  <1>5. ~AcceptStatus(w)
    BY <1>2, Shapes DEF AcceptStatus
  <1>6. ~StoreDetails(w)
    BY <1>1, <1>2, Shapes DEF StoreDetails
  <1>. QED
    BY <1>3, <1>4, <1>5, <1>6 DEF ReportStep

LEMMA AllBackedKept ==
    ASSUME HistInv, Kinds, Synchronous, AllBacked, Chained, RowsKept, [Next]_vars, faults' = 0
    PROVE  AllBacked'
  <1>. TypeInv /\ "manufacturer" \in Workers /\ "courier" \in Workers
    BY DEF HistInv, Workers
  <1>. \A w \in Workers : processes[w] \in Seq(Process) /\ Len(processes[w]) \in Nat
    BY DEF TypeInv, TypeOK, ListsOK
  <1>0. TypeInv'
    BY TypeInvKept
  <1>a. \A w \in Workers : \A i \in 1..Len(processes'[w]) :
            /\ processes'[w][i].order \in OrderIds
            /\ processes'[w][i].status \in ManufactureStatus \union CourierStatus
    <2>1. \A w \in Workers : processes'[w] \in Seq(Process)
      BY <1>0 DEF TypeInv, TypeOK, ListsOK
    <2>2. \A w \in Workers : \A i \in 1..Len(processes'[w]) : processes'[w][i] \in Process
      BY <2>1
    <2>. QED
      BY <2>2 DEF Process
  <1>. SUFFICES ASSUME NEW w \in Workers, NEW i \in 1..Len(processes'[w]),
                       NEW o \in OrderIds, o = processes'[w][i].order,
                       NEW status \in ManufactureStatus \union CourierStatus, status = processes'[w][i].status,
                       NEW waits \in BOOLEAN, waits <=> Waits(w, i)'
                PROVE  Backed(o, status, waits)'
    <2>. SUFFICES ASSUME NEW w \in Workers, NEW i \in 1..Len(processes'[w])
                  PROVE  Backed(processes[w][i].order, processes[w][i].status, Waits(w, i))'
      BY DEF AllBacked
    <2>1. PICK o \in OrderIds, status \in ManufactureStatus \union CourierStatus :
            o = processes'[w][i].order /\ status = processes'[w][i].status
      BY <1>a
    <2>2. CASE Waits(w, i)'
      <3>1. Backed(o, status, TRUE)'
        BY <2>1, <2>2
      <3>. QED
        BY <2>1, <2>2, <3>1 DEF Backed, Kept, HasStatus, Recorded
    <2>3. CASE ~Waits(w, i)'
      <3>1. Backed(o, status, FALSE)'
        BY <2>1, <2>3
      <3>. QED
        BY <2>1, <2>3, <3>1 DEF Backed, Kept, HasStatus, Recorded
    <2>. QED
      BY <2>2, <2>3
  (* a process that stands where it stood *)
  <1>1. ASSUME NEW v \in Workers, NEW j \in 1..Len(processes[v]),
               o = processes[v][j].order, status = processes[v][j].status, Waits(v, j) => waits
        PROVE  Backed(o, status, waits)'
    <2>1. Backed(o, status, Waits(v, j))
      BY <1>1 DEF AllBacked
    <2>2. Backed(o, status, waits)
      BY <1>1, <2>1 DEF Backed
    <2>. QED
      BY <2>2, BackedStays
  <1>2. ASSUME NEW now \in ManufactureStatus \union CourierStatus, now = status, Backed(o, now, waits)
        PROVE  Backed(o, status, waits)'
    BY <1>2, BackedStays
  <1>3. CASE Rests
    BY <1>1, <1>3 DEF Rests, Waits
  <1>4. ASSUME NEW p \in OrderIds, Issues(p)
        PROVE  Backed(o, status, waits)'
    <2>. DEFINE new == [order |-> p, status |-> "ISSUING"]
    <2>1. new \in Process /\ new.order = p /\ new.status = "ISSUING"
      BY DEF Process, ManufactureStatus
    <2>2. processes' = [processes EXCEPT !["manufacturer"] = Append(@, new)] /\ scan' = scan
      BY <1>4 DEF Issues
    <2>. HIDE DEF new
    <2>3. CASE i \in 1..Len(processes[w])
      BY <1>1, <2>1, <2>2, <2>3, Grown DEF Waits
    <2>4. CASE w = "manufacturer" /\ i = Len(processes[w]) + 1
      <3>1. status = "ISSUING" /\ o = p
        BY <2>1, <2>2, <2>4, Grown
      <3>2. Kept(o) => HasStatus(o)
        BY <1>4, <3>1 DEF HistInv, Commissioned, Issues
      <3>3. Backed(o, status, waits)
        BY <3>1, <3>2 DEF Backed, Behind, Lasting
      <3>. QED
        BY <3>3, <1>2
    <2>5. i \in 1..Len(processes[w]) \/ (w = "manufacturer" /\ i = Len(processes[w]) + 1)
      BY <2>1, <2>2, Grown
    <2>. QED
      BY <2>3, <2>4, <2>5
  <1>5. CASE \E v \in Workers : RemoveRetired(v)
    <2>1. PICK v \in Workers : RemoveRetired(v)
      BY <1>5
    <2>2. CASE v # w
      BY <1>1, <2>1, <2>2, Removes DEF Waits
    <2>3. CASE v = w
      <3>1. PICK n \in Nat : \A k \in 1..Len(processes'[w]) :
                /\ Before(n, k) \in 1..Len(processes[w])
                /\ processes'[w][k] = processes[w][Before(n, k)]
        BY <2>1, <2>3, Removes
      <3>2. PICK j \in 1..Len(processes[w]) : processes'[w][i] = processes[w][j]
        BY <3>1
      <3>3. scan[w].pc # "waiting"
        BY <2>1, <2>3, Removes
      <3>. QED
        BY <1>1, <3>2, <3>3 DEF Waits
    <2>. QED
      BY <2>2, <2>3
  <1>6. ASSUME NEW v \in Workers, NEW next \in DOMAIN Says, Advances(v, next)
        PROVE  Backed(o, status, waits)'
    <2>. /\ i \in 1..Len(processes[w])
         /\ processes'[w][i].order = processes[w][i].order
         /\ processes'[w][i].status = IF w = v /\ i = scan[v].at THEN next ELSE processes[w][i].status
      BY <1>6, Advanced
    <2>1. CASE w # v
      BY <1>1, <1>6, <2>1, Advanced DEF Waits
    <2>2. CASE w = v /\ i # scan[v].at
      BY <1>1, <1>6, <2>2 DEF Waits, Advances
    <2>3. CASE w = v /\ i = scan[v].at
      <3>1. waits = TRUE /\ status = next
        BY <1>6, <2>3, Advanced DEF Waits
      <3>2. ~Waits(w, i)
        BY <1>6, <2>3 DEF Waits, Advances
      <3>3. Backed(o, processes[w][i].status, FALSE)
        BY <3>2 DEF AllBacked, Backed
      <3>4. \/ next \in {"MANUFACTURE_ERROR", "CARD_CREATED"}
            \/ processes[w][i].status = "NEW_CARD_RECEIVED" /\ next = "CARD_SENT"
            \/ processes[w][i].status = "CARD_SENT" /\ next = "CARD_DELIVERED"
        BY <1>6, <2>3 DEF Advances, Current
      <3>5. Says["CARD_SENT"] = "CARD_SHIPPED"
        BY DEF Says
      <3>6. Kept(o) => HasStatus(o) /\ \A type \in Behind[status] : Recorded(o, type)
        <4>1. CASE next \in {"MANUFACTURE_ERROR", "CARD_CREATED"}
          BY <3>1, <3>3, <4>1 DEF Backed, Behind
        <4>2. CASE processes[w][i].status = "NEW_CARD_RECEIVED" /\ next = "CARD_SENT"
          BY <3>1, <3>3, <4>2 DEF Backed, Behind
        <4>3. CASE processes[w][i].status = "CARD_SENT" /\ next = "CARD_DELIVERED"
          BY <3>1, <3>3, <3>5, <4>3 DEF Backed, Behind, Lasting
        <4>. QED
          BY <3>4, <4>1, <4>2, <4>3
      <3>7. Backed(o, status, waits)
        BY <3>1, <3>6 DEF Backed
      <3>. QED
        BY <3>7, <1>2
    <2>. QED
      BY <2>1, <2>2, <2>3
  <1>7. CASE HandToCourier
    <2>. DEFINE m == "manufacturer"
                p == [order |-> Current(m).order, status |-> "NEW_CARD_RECEIVED"]
    <2>1. /\ p \in Process /\ processes' = [processes EXCEPT !["courier"] = Append(@, p)]
          /\ scan[m].at \in 1..Len(processes[m]) /\ scan[m].pc = "scanning" /\ Current(m).status = "CARD_CREATED"
          /\ scan'[m].pc = "scanning" /\ scan'["courier"] = scan["courier"]
      BY <1>7, Handed
    <2>2. p.order = Current(m).order /\ p.status = "NEW_CARD_RECEIVED"
      OBVIOUS
    <2>3. w = "manufacturer" \/ w = "courier"
      BY DEF Workers
    <2>. HIDE DEF p
    <2>4. CASE i \in 1..Len(processes[w])
      BY <1>1, <2>1, <2>3, <2>4, Grown DEF Waits
    <2>5. CASE w = "courier" /\ i = Len(processes[w]) + 1
      <3>1. status = "NEW_CARD_RECEIVED" /\ o = Current(m).order
        BY <2>1, <2>2, <2>5, Grown
      <3>2. Backed(o, "CARD_CREATED", FALSE)
        BY <2>1, <3>1 DEF AllBacked, Backed, Current, Waits
      <3>3. Backed(o, status, waits)
        BY <3>1, <3>2 DEF Backed, Behind, Lasting, Says
      <3>. QED
        BY <3>3, <1>2
    <2>6. i \in 1..Len(processes[w]) \/ (w = "courier" /\ i = Len(processes[w]) + 1)
      BY <2>1, <2>3, Grown
    <2>. QED
      BY <2>4, <2>5, <2>6
  <1>8. ASSUME NEW v \in Workers, ReportStep(v), Answers(v)
        PROVE  Backed(o, status, waits)'
    <2>. scan \in [Workers -> [pc : ScanPcs, at : Nat, size : Nat, done : SUBSET Nat]]
      BY DEF TypeInv, TypeOK, ListsOK
    <2>1. processes' = processes /\ report[v].pc # "none"
      BY <1>8, Idle DEF Answers, ReportStep, RejectStatus, AcceptStatus, StoreDetails, InsertStatus, HasDetails
    <2>2. scan[v].pc = "waiting"
      BY <2>1 DEF Synchronous
    <2>3. \A u \in Workers \ {v} : scan'[u] = scan[u]
      BY <1>8 DEF Answers, GoOn
    <2>4. CASE w # v \/ i # scan[v].at
      BY <1>1, <2>1, <2>3, <2>4 DEF Waits
    <2>5. CASE w = v /\ i = scan[v].at
      <3>1. /\ Backed(o, status, TRUE) /\ o = report[v].order
            /\ Current(v).status = status /\ report[v].type = Says[status] /\ status \in DOMAIN Says
        BY <2>1, <2>5, WaitsWith DEF Current
      <3>2. Backed(o, status, TRUE)'
        BY <3>1, BackedStays
      <3>3. Kept(o)' => Kept(o)
        BY RecordedStep, StatusTypes
      <3>4. PICK type \in StatusType : type = report[v].type
        BY Shapes
      <3>5. status \in Lasting /\ Kept(o) => Recorded(o, type)'
        BY <1>8, <3>1, <3>4, AnsweredIsRecorded
      <3>6. status \in Lasting /\ Kept(o) => Recorded(o, Says[status])'
        BY <3>1, <3>4, <3>5 DEF Recorded
      <3>. QED
        BY <3>2, <3>3, <3>6 DEF Backed
    <2>. QED
      BY <2>4, <2>5
  <1>9. CASE \E v \in Workers : Proceeds(v)
    BY <1>1, <1>9 DEF Proceeds, thirdParty, Waits
  <1>. QED
    BY <1>3, <1>4, <1>5, <1>6, <1>7, <1>8, <1>9, ListStep


----------------------------------------------------------------------------
(* The invariant of a pipeline in which nothing has failed *)

Calm ==
    /\ NewIsBlank /\ PendingIsFresh /\ NoDangling
    /\ Kinds /\ Synchronous
    /\ Distinct /\ UnmadeYet /\ MadeOnce
    /\ AllBacked /\ Chained

FlowInv == HistInv /\ RowsKept /\ (faults = 0 => Calm)

LEMMA InitFlow == Init => FlowInv /\ Calm /\ faults = 0
  <1>. SUFFICES ASSUME Init PROVE FlowInv /\ Calm /\ faults = 0
    OBVIOUS
  <1>0. HistInv /\ faults = 0
    BY InitHist DEF Init
  <1>1. /\ \A o \in OrderIds : owner[o] = None /\ Len(history[o]) = 0 /\ cards[o] = 0
        /\ \A w \in Workers : Len(processes[w]) = 0 /\ report[w].pc = "none" /\ scan[w].pc = "idle"
        /\ work.todo = {} /\ work.pc = "idle"
    BY Idle DEF Init, IdleScan
  <1>2. /\ \A w \in Workers : \A o \in OrderIds : ~InList(w, o) /\ ~About(w, o)
        /\ \A o \in OrderIds : ~HasStatus(o) /\ ~Making(o) /\ \A type \in StatusType : ~Recorded(o, type)
    BY <1>1, Idle DEF InList, About, HasStatus, Making, Recorded
  <1>3. NewIsBlank /\ PendingIsFresh /\ NoDangling
    BY <1>1, <1>2 DEF NewIsBlank, PendingIsFresh, NoDangling, Fresh, InThirdParty
  <1>4. Kinds /\ Synchronous /\ AllBacked
    BY <1>1 DEF Kinds, Synchronous, AllBacked
  <1>5. Distinct /\ UnmadeYet
    BY <1>1, Idle DEF Distinct, UnmadeYet
  <1>6. MadeOnce
    BY <1>1, <1>2 DEF MadeOnce
  <1>7. Chained /\ RowsKept
    BY <1>1, <1>2, StatusTypes DEF Chained, RowsKept
  <1>. QED
    BY <1>0, <1>3, <1>4, <1>5, <1>6, <1>7 DEF FlowInv, Calm

LEMMA FlowInvKept == FlowInv /\ [Next]_vars => FlowInv' /\ (faults' = 0 => faults = 0)
  <1>. SUFFICES ASSUME FlowInv, [Next]_vars
                PROVE  FlowInv' /\ (faults' = 0 => faults = 0)
    OBVIOUS
  <1>1. HistInv /\ RowsKept /\ TypeInv
    BY DEF FlowInv, HistInv
  <1>2. HistInv' /\ RowsKept'
    BY <1>1, HistInvKept, RowsKeptKept
  <1>3. ASSUME faults' = 0 PROVE faults = 0 /\ Calm'
    <2>1. faults = 0 /\ Calm
      BY <1>1, <1>3, ListStep DEF FlowInv
    <2>2. NewIsBlank' /\ PendingIsFresh' /\ NoDangling'
      BY <1>1, <1>3, <2>1, NewIsBlankKept, PendingIsFreshKept, NoDanglingKept DEF Calm
    <2>3. Kinds' /\ Synchronous'
      BY <1>1, <1>3, <2>1, KindsKept, SynchronousKept DEF Calm
    <2>4. Distinct' /\ UnmadeYet' /\ MadeOnce'
      BY <1>1, <1>3, <2>1, DistinctKept, UnmadeYetKept, MadeOnceKept DEF Calm
    <2>5. AllBacked' /\ Chained'
      BY <1>1, <1>3, <2>1, AllBackedKept, ChainedKept DEF Calm
    <2>. QED
      BY <2>1, <2>2, <2>3, <2>4, <2>5 DEF Calm
  <1>. QED
    BY <1>2, <1>3 DEF FlowInv

LEMMA AtMostOne ==
    ASSUME NEW S, \A x, y \in S : x = y
    PROVE  Cardinality(S) <= 1
  <1>1. CASE S = {}
    BY <1>1, FS_EmptySet
  <1>2. CASE S # {}
    <2>1. PICK x \in S : S = {x}
      BY <1>2
    <2>. QED
      BY <2>1, FS_Singleton
  <1>. QED
    BY <1>1, <1>2

(* Until something fails, one card is stored for an order and its            *)
(* CARD_CREATED recorded once, for any number of orders, clients and         *)
(* accounts, with deletes and in crises: an order is fresh until the         *)
(* WorkScheduler commissions it, and its process gets the status             *)
(* CARD_CREATED once.                                                        *)
THEOREM OneCard == Spec => [](faults = 0 => OneCardPerOrder)
  <1>1. FlowInv /\ faults = 0 => OneCardPerOrder
    <2>. SUFFICES ASSUME FlowInv, faults = 0, NEW o \in OrderIds
                  PROVE  /\ cards[o] <= 1
                         /\ Cardinality({i \in 1..Len(history[o]) : history[o][i] = "CARD_CREATED"}) <= 1
      BY DEF OneCardPerOrder
    <2>1. MadeOnce
      BY DEF FlowInv, Calm
    <2>. DEFINE S == {i \in 1..Len(history[o]) : history[o][i] = "CARD_CREATED"}
    <2>2. \A i, j \in S : i = j
      BY <2>1 DEF MadeOnce
    <2>3. Cardinality(S) <= 1
      BY <2>2, AtMostOne
    <2>. QED
      BY <2>1, <2>3 DEF MadeOnce
  <1>. QED
    BY <1>1, InitFlow, FlowInvKept, PTL DEF Spec

(* Where no order is deleted and until something fails, the manufacturer     *)
(* gets an order once and has made its card, and the database knows of it,   *)
(* before the courier gets the order.                                        *)
THEOREM ManufactureOnce ==
    ASSUME Deletable = {}
    PROVE  Spec => [](faults = 0 => ManufacturedOnce)
  <1>1. FlowInv /\ faults = 0 => ManufacturedOnce
    <2>. SUFFICES ASSUME FlowInv, faults = 0, NEW o \in OrderIds
                  PROVE  /\ Cardinality({i \in 1..Len(processes["manufacturer"]) :
                                            processes["manufacturer"][i].order = o}) <= 1
                         /\ \A i \in 1..Len(processes["courier"]) :
                                processes["courier"][i].order = o => Recorded(o, "CARD_CREATED")
      BY DEF ManufacturedOnce
    <2>1. Distinct /\ AllBacked /\ Kinds /\ Kept(o) /\ "courier" \in Workers
      BY Idle DEF FlowInv, Calm, Kept
    <2>. DEFINE S == {i \in 1..Len(processes["manufacturer"]) : processes["manufacturer"][i].order = o}
    <2>2. \A i, j \in S : i = j
      BY <2>1 DEF Distinct
    <2>3. Cardinality(S) <= 1
      BY <2>2, AtMostOne
    <2>4. ASSUME NEW i \in 1..Len(processes["courier"]), processes["courier"][i].order = o
          PROVE  Recorded(o, "CARD_CREATED")
      <3>1. processes["courier"][i].status \in CourierStatus
        BY <2>1 DEF Kinds
      <3>2. "CARD_CREATED" \in Behind[processes["courier"][i].status]
        BY <3>1 DEF CourierStatus, Behind
      <3>. QED
        BY <2>1, <2>4, <3>2 DEF AllBacked, Backed
    <2>. QED
      BY <2>3, <2>4
  <1>. QED
    BY <1>1, InitFlow, FlowInvKept, PTL DEF Spec

----------------------------------------------------------------------------
(* The milestones *)

(* One order at a time gets a status. *)
LEMMA HistoryAppends ==
    ASSUME TypeInv, Deletable = {}, [Next]_vars
    PROVE  \/ history' = history
           \/ \E o \in OrderIds : \E type \in StatusType : history' = [history EXCEPT ![o] = Append(@, type)]
  <1>. /\ orders \subseteq OrderIds
       /\ \A w \in Workers : report[w].type \in StatusType
    BY Shapes
  <1>1. CASE \E c \in Clients : ClientStep(c)
    BY <1>1, StatusTypes DEF ClientStep, CountOrders, InsertNewOrder, InsertOrderCreated, InsertNewStatus,
       DeleteStatuses, DeleteCards, DeleteOrders, tables
  <1>2. CASE WorkStep
    BY <1>2, StatusTypes DEF WorkStep, WorkList, IssueCreditCard, RecordCardOrdered, InsertNewStatus, tables
  <1>3. CASE \E w \in Workers : ReportStep(w)
    BY <1>3 DEF ReportStep, RejectStatus, AcceptStatus, StoreDetails, InsertStatus, InsertNewStatus, tables
  <1>4. CASE history' = history
    BY <1>4
  <1>. QED
    BY <1>1, <1>2, <1>3, <1>4, StepCases DEF Manufactures, Couriers, HandToCourier, ManufactureFails,
       ManufactureSucceeds, ShipCard, DeliverCard, SetAndReport, RemoveRetired, Idles, FaultStep,
       ClientRequestFails, ReportFails, WorkFails, AddressFails, OrderServiceRestarts, ThirdPartyRestarts, tables

LEMMA RecordedAfter ==
    ASSUME TypeInv, NEW o \in OrderIds, NEW new \in StatusType, history'[o] = Append(history[o], new)
    PROVE  /\ \A type \in StatusType : Recorded(o, type)' <=> Recorded(o, type) \/ type = new
           /\ history'[o] # << >>
  <1>. history[o] \in Seq(StatusType)
    BY Shapes
  <1>1. /\ Len(history'[o]) = Len(history[o]) + 1 /\ Len(history[o]) \in Nat
        /\ \A i \in 1..Len(history[o]) : history'[o][i] = history[o][i]
        /\ history'[o][Len(history[o]) + 1] = new
    OBVIOUS
  <1>2. ASSUME NEW type \in StatusType, Recorded(o, type) \/ type = new
        PROVE  Recorded(o, type)'
    BY <1>1, <1>2 DEF Recorded
  <1>3. ASSUME NEW type \in StatusType, Recorded(o, type)'
        PROVE  Recorded(o, type) \/ type = new
    <2>1. PICK i \in 1..Len(history'[o]) : history'[o][i] = type
      BY <1>3 DEF Recorded
    <2>2. i \in 1..Len(history[o]) \/ i = Len(history[o]) + 1
      BY <1>1
    <2>. QED
      BY <1>1, <2>1, <2>2 DEF Recorded
  <1>4. history'[o] # << >>
    BY <1>1
  <1>. QED
    BY <1>2, <1>3, <1>4

(* What is known of the order when a status is recorded. *)
LEMMA RecordedAfterWhat ==
    ASSUME FlowInv, Calm, [Next]_vars, NEW o \in OrderIds, Kept(o),
           NEW new \in StatusType, history'[o] = Append(history[o], new)
    PROVE  /\ new = "ORDER_CREATED" => history[o] = << >>
           /\ new # "ORDER_CREATED" => HasStatus(o)
           /\ new = "CARD_SHIPPED" => Recorded(o, "CARD_CREATED")
           /\ new = "CARD_DELIVERED" => Recorded(o, "CARD_SHIPPED")
  <1>. HistInv /\ TypeInv /\ history[o] \in Seq(StatusType) /\ Len(history[o]) \in Nat
    BY Shapes DEF FlowInv, HistInv
  <1>0. \A a, b \in StatusType : Append(history[o], a) = Append(history[o], b) => a = b
    OBVIOUS
  <1>1. history'[o] # history[o] /\ Len(history'[o]) # 0
    <2>1. Len(history'[o]) = Len(history[o]) + 1
      OBVIOUS
    <2>. QED
      BY <2>1
  <1>2. CASE \E c \in Clients : Creates(c, o) /\ history'[o] = Append(history[o], "ORDER_CREATED")
    <2>1. new = "ORDER_CREATED"
      BY <1>0, <1>2, StatusTypes
    <2>2. ~HasStatus(o)
      BY <1>2 DEF HistInv, Creating, Creates
    <2>3. history[o] = << >>
      BY <2>2 DEF HasStatus
    <2>. QED
      BY <2>1, <2>3
  <1>3. CASE Commissions(o) /\ history'[o] = Append(history[o], "CARD_ORDERED")
    <2>1. new = "CARD_ORDERED"
      BY <1>0, <1>3, StatusTypes
    <2>2. HasStatus(o)
      BY <1>3 DEF HistInv, Commissioned, Commissions
    <2>. QED
      BY <2>1, <2>2
  <1>4. ASSUME NEW w \in Workers, Records(w, o), history'[o] = Append(history[o], report[w].type)
        PROVE  /\ new # "ORDER_CREATED" /\ HasStatus(o)
               /\ new = "CARD_SHIPPED" => Recorded(o, "CARD_CREATED")
               /\ new = "CARD_DELIVERED" => Recorded(o, "CARD_SHIPPED")
    <2>0. report[w].type \in StatusType
      BY Shapes
    <2>1. new = report[w].type
      BY <1>0, <1>4, <2>0
    <2>2. report[w].pc # "none" /\ report[w].order = o
      BY <1>4 DEF Records
    <2>3. /\ Current(w).status \in DOMAIN Says /\ new = Says[Current(w).status]
          /\ Backed(o, Current(w).status, TRUE)
      BY <2>1, <2>2, WaitsWith DEF FlowInv, Calm
    <2>4. /\ new # "ORDER_CREATED"
          /\ new = "CARD_DELIVERED" => Current(w).status = "CARD_DELIVERED"
          /\ new = "CARD_SHIPPED" => Current(w).status = "CARD_SENT"
      BY <2>3 DEF Says
    <2>. QED
      BY <2>3, <2>4 DEF Backed, Behind
  <1>. QED
    BY <1>1, <1>2, <1>3, <1>4, HistoryStep

LEMMA StageStep ==
    ASSUME FlowInv, Calm, [Next]_vars, NEW o \in OrderIds, Kept(o),
           NEW new \in StatusType, history'[o] = Append(history[o], new)
    PROVE  \/ Stage(o)' = Stage(o)
           \/ Stage(o) = "absent" /\ Stage(o)' = "placed"
           \/ Stage(o) = "placed" /\ Stage(o)' = "made"
           \/ Stage(o) = "made" /\ Stage(o)' = "shipped"
           \/ Stage(o) = "shipped" /\ Stage(o)' = "delivered"
  <1>. TypeInv /\ history[o] \in Seq(StatusType)
    BY Shapes DEF FlowInv, HistInv
  <1>. DEFINE done(type) == Recorded(o, type)
  <1>1. /\ done("CARD_DELIVERED") => done("CARD_SHIPPED")
        /\ done("CARD_SHIPPED") => done("CARD_CREATED")
    BY DEF Calm, Chained
  <1>2. /\ \A type \in StatusType : Recorded(o, type)' <=> done(type) \/ type = new
        /\ history'[o] # << >>
    BY RecordedAfter
  <1>3. /\ new = "ORDER_CREATED" => history[o] = << >>
        /\ new # "ORDER_CREATED" => history[o] # << >>
        /\ new = "CARD_SHIPPED" => done("CARD_CREATED")
        /\ new = "CARD_DELIVERED" => done("CARD_SHIPPED")
    BY RecordedAfterWhat DEF HasStatus
  <1>4. history[o] = << >> => \A type \in StatusType : ~done(type)
    BY DEF Recorded
  <1>5. new \in {"ORDER_CREATED", "CARD_ORDERED", "CARD_ERROR", "CARD_CREATED", "CARD_SHIPPED", "CARD_DELIVERED"}
    BY StatusTypes
  <1>6. Stage(o) = IF done("CARD_DELIVERED") THEN "delivered"
                   ELSE IF done("CARD_SHIPPED") THEN "shipped"
                   ELSE IF done("CARD_CREATED") THEN "made"
                   ELSE IF history[o] # << >> THEN "placed" ELSE "absent"
    BY DEF Stage
  <1>7. Stage(o)' = IF done("CARD_DELIVERED") \/ new = "CARD_DELIVERED" THEN "delivered"
                    ELSE IF done("CARD_SHIPPED") \/ new = "CARD_SHIPPED" THEN "shipped"
                    ELSE IF done("CARD_CREATED") \/ new = "CARD_CREATED" THEN "made" ELSE "placed"
    BY <1>2, StatusTypes DEF Stage
  <1>8. {"CARD_CREATED", "CARD_SHIPPED", "CARD_DELIVERED"} \subseteq StatusType
    BY StatusTypes
  <1>. HIDE DEF done
  <1>. QED
    BY <1>1, <1>3, <1>4, <1>5, <1>6, <1>7, <1>8

(* Every step of the pipeline maps to a step of OrderLifecycle or a stutter. *)
LEMMA LifecycleStep ==
    ASSUME FlowInv, Calm, [Next]_vars, Deletable = {}
    PROVE  [Lifecycle!LifecycleNext]_([o \in OrderIds |-> Stage(o)])
  <1>. TypeInv /\ history \in [OrderIds -> Seq(StatusType)]
    BY Shapes DEF FlowInv, HistInv
  <1>0. \A o \in OrderIds : history'[o] = history[o] => Stage(o)' = Stage(o)
    BY DEF Stage, Recorded
  <1>1. CASE history' = history
    <2>1. \A o \in OrderIds : Stage(o)' = Stage(o)
      BY <1>0, <1>1
    <2>. QED
      BY <2>1
  <1>2. ASSUME NEW o \in OrderIds, NEW new \in StatusType, history' = [history EXCEPT ![o] = Append(@, new)]
        PROVE  [Lifecycle!LifecycleNext]_([p \in OrderIds |-> Stage(p)])
    <2>1. \A p \in OrderIds \ {o} : Stage(p)' = Stage(p)
      BY <1>0, <1>2
    <2>2. history'[o] = Append(history[o], new) /\ Kept(o)
      BY <1>2 DEF Kept
    <2>3. CASE Stage(o)' = Stage(o)
      <3>1. \A p \in OrderIds : Stage(p)' = Stage(p)
        BY <2>1, <2>3
      <3>. QED
        BY <3>1
    <2>4. CASE Stage(o)' # Stage(o)
      <3>1. \/ Stage(o) = "absent" /\ Stage(o)' = "placed"
            \/ Stage(o) = "placed" /\ Stage(o)' = "made"
            \/ Stage(o) = "made" /\ Stage(o)' = "shipped"
            \/ Stage(o) = "shipped" /\ Stage(o)' = "delivered"
        BY <2>2, <2>4, StageStep
      <3>2. Stage(o) # "delivered" /\ Stage(o)' = Lifecycle!NextStage[Stage(o)]
        BY <3>1 DEF Lifecycle!NextStage
      <3>. QED
        BY <2>1, <3>2 DEF Lifecycle!LifecycleNext, Lifecycle!Reach
    <2>. QED
      BY <2>3, <2>4
  <1>. QED
    BY <1>1, <1>2, HistoryAppends

(* Without deletes and failures the pipeline implements OrderLifecycle, for  *)
(* any number of orders, clients and accounts: the database tells the        *)
(* customer of every milestone, in order and without leaving one out,        *)
(* although actOnNewStatus compares only with the last status it finds.      *)
THEOREM ImplementsLifecycle ==
    ASSUME Deletable = {}, MaxFaults = 0
    PROVE  Spec => FollowsLifecycle
  <1>. DEFINE Inv == FlowInv /\ faults = 0
  <1>1. Init => Inv /\ Lifecycle!LifecycleInit
    <2>1. Init => [o \in OrderIds |-> Stage(o)] = [o \in OrderIds |-> "absent"]
      <3>. SUFFICES ASSUME Init, NEW o \in OrderIds PROVE Stage(o) = "absent"
        OBVIOUS
      <3>. QED
        BY DEF Init, Stage, Recorded
    <2>. QED
      BY <2>1, InitFlow DEF Lifecycle!LifecycleInit
  <1>2. Inv /\ [Next]_vars => Inv' /\ [Lifecycle!LifecycleNext]_([o \in OrderIds |-> Stage(o)])
    <2>. SUFFICES ASSUME Inv, [Next]_vars
                  PROVE  Inv' /\ [Lifecycle!LifecycleNext]_([o \in OrderIds |-> Stage(o)])
      OBVIOUS
    <2>1. FlowInv' /\ FlowInv /\ Calm
      BY FlowInvKept DEF FlowInv
    <2>2. faults' = 0
      BY <2>1 DEF FlowInv, HistInv, TypeInv, TypeOK
    <2>. QED
      BY <2>1, <2>2, LifecycleStep
  <1>. HIDE DEF Inv
  <1>. QED
    BY <1>1, <1>2, PTL DEF Spec, FollowsLifecycle, Lifecycle!LifecycleSpec

----------------------------------------------------------------------------
(* The sequence of the statuses *)

(* The WorkScheduler recorded CARD_ORDERED after the manufacturer reported. *)
Late(o) == \E i \in 3..Len(history[o]) : history[o][i] = "CARD_ORDERED"

(* The type comes after everything that is recorded of the order. *)
Exceeds(o, type) == \A i \in 1..Len(history[o]) : StatusSequence[history[o][i]] < StatusSequence[type]

(* The courier has no order of which the manufacturer may still report. *)
Apart ==
    \A i \in 1..Len(processes["manufacturer"]) :
        processes["manufacturer"][i].status # "CARD_CREATED" \/ Waits("manufacturer", i)
        => ~InList("courier", processes["manufacturer"][i].order)

(* What actOnNewStatus found is still true when the status is inserted. *)
Ahead ==
    \A w \in Workers :
        report[w].pc \in {"accepted", "stored"} /\ ~Late(report[w].order)
        => Exceeds(report[w].order, report[w].type)

LEMMA ApartKept ==
    ASSUME FlowInv, Calm, Apart, [Next]_vars, faults' = 0
    PROVE  Apart'
  <1>. DEFINE m == "manufacturer"
  <1>. HistInv /\ TypeInv /\ m \in Workers /\ "courier" \in Workers /\ m # "courier"
    BY Idle DEF FlowInv, HistInv
  <1>. \A w \in Workers : processes[w] \in Seq(Process) /\ Len(processes[w]) \in Nat
    BY DEF TypeInv, TypeOK, ListsOK
  <1>. SUFFICES ASSUME NEW i \in 1..Len(processes'[m]), NEW k \in 1..Len(processes'["courier"]),
                       processes'[m][i].status # "CARD_CREATED" \/ Waits(m, i)',
                       processes'["courier"][k].order = processes'[m][i].order
                PROVE  FALSE
    BY DEF Apart, InList
  (* a process and a process of the courier that stand where they stood *)
  <1>1. ASSUME NEW j \in 1..Len(processes[m]), NEW l \in 1..Len(processes["courier"]),
               processes[m][j].order = processes["courier"][l].order,
               processes[m][j].status # "CARD_CREATED" \/ Waits(m, j)
        PROVE  FALSE
    BY <1>1 DEF Apart, InList
  <1>2. CASE Rests
    BY <1>1, <1>2 DEF Rests, Waits
  <1>3. ASSUME NEW p \in OrderIds, Issues(p)
        PROVE  FALSE
    <2>. DEFINE new == [order |-> p, status |-> "ISSUING"]
    <2>1. new \in Process /\ new.order = p
      BY DEF Process, ManufactureStatus
    <2>2. processes' = [processes EXCEPT ![m] = Append(@, new)] /\ scan' = scan
      BY <1>3 DEF Issues
    <2>. HIDE DEF new
    <2>3. processes'["courier"] = processes["courier"]
      BY <2>2
    <2>4. CASE i \in 1..Len(processes[m])
      <3>1. processes'[m][i] = processes[m][i]
        BY <2>1, <2>2, <2>4, Grown
      <3>. QED
        BY <1>1, <2>2, <2>3, <2>4, <3>1 DEF Waits
    <2>5. CASE i = Len(processes[m]) + 1
      <3>1. processes'[m][i].order = p
        BY <2>1, <2>2, <2>5, Grown
      <3>2. ~InList("courier", p)
        BY <1>3, IssuesFresh DEF Calm, Fresh, InThirdParty
      <3>. QED
        BY <2>3, <3>1, <3>2 DEF InList
    <2>6. i \in 1..Len(processes[m]) \/ i = Len(processes[m]) + 1
      BY <2>1, <2>2, Grown
    <2>. QED
      BY <2>4, <2>5, <2>6
  <1>4. ASSUME NEW v \in Workers, RemoveRetired(v)
        PROVE  FALSE
    <2>1. PICK j \in 1..Len(processes[m]) : processes'[m][i] = processes[m][j] /\ (Waits(m, i)' => Waits(m, j))
      <3>1. CASE v # m
        BY <1>4, <3>1, Removes DEF Waits
      <3>2. CASE v = m
        <4>1. PICK n \in Nat : \A h \in 1..Len(processes'[m]) :
                  /\ Before(n, h) \in 1..Len(processes[m])
                  /\ processes'[m][h] = processes[m][Before(n, h)]
          BY <1>4, <3>2, Removes
        <4>2. scan'[m].pc # "waiting"
          BY <1>4, <3>2, Removes
        <4>. QED
          BY <4>1, <4>2 DEF Waits
      <3>. QED
        BY <3>1, <3>2
    <2>2. PICK l \in 1..Len(processes["courier"]) : processes'["courier"][k] = processes["courier"][l]
      <3>1. CASE v # "courier"
        BY <1>4, <3>1, Removes
      <3>2. CASE v = "courier"
        <4>1. PICK n \in Nat : \A h \in 1..Len(processes'["courier"]) :
                  /\ Before(n, h) \in 1..Len(processes["courier"])
                  /\ processes'["courier"][h] = processes["courier"][Before(n, h)]
          BY <1>4, <3>2, Removes
        <4>. QED
          BY <4>1
      <3>. QED
        BY <3>1, <3>2
    <2>. QED
      BY <1>1, <2>1, <2>2
  <1>5. ASSUME NEW v \in Workers, NEW next \in DOMAIN Says, Advances(v, next)
        PROVE  FALSE
    <2>1. /\ i \in 1..Len(processes[m]) /\ k \in 1..Len(processes["courier"])
          /\ processes[m][i].order = processes["courier"][k].order
      BY <1>5, Advanced
    <2>2. CASE v = m /\ i = scan[m].at
      BY <1>1, <1>5, <2>1, <2>2 DEF Advances, Current
    <2>3. CASE v # m \/ i # scan[m].at
      <3>1. processes'[m][i].status = processes[m][i].status
        BY <1>5, <2>1, <2>3, Advanced
      <3>2. Waits(m, i)' => Waits(m, i)
        BY <1>5, <2>3, Advanced DEF Waits
      <3>. QED
        BY <1>1, <2>1, <3>1, <3>2
    <2>. QED
      BY <2>2, <2>3
  <1>6. CASE HandToCourier
    <2>. DEFINE p == [order |-> Current(m).order, status |-> "NEW_CARD_RECEIVED"]
    <2>1. /\ p \in Process /\ processes' = [processes EXCEPT !["courier"] = Append(@, p)]
          /\ scan[m].at \in 1..Len(processes[m]) /\ Current(m).status = "CARD_CREATED"
          /\ scan[m].pc = "scanning" /\ scan'[m].pc = "scanning"
      BY <1>6, Handed
    <2>2. p.order = Current(m).order
      OBVIOUS
    <2>. HIDE DEF p
    <2>3. processes'[m] = processes[m] /\ ~Waits(m, i)'
      BY <2>1, Grown DEF Waits
    <2>4. CASE k \in 1..Len(processes["courier"])
      BY <1>1, <2>1, <2>3, <2>4, Grown
    <2>5. CASE k = Len(processes["courier"]) + 1
      <3>1. processes[m][i].order = processes[m][scan[m].at].order
        BY <2>1, <2>2, <2>3, <2>5, Grown DEF Current
      <3>2. i = scan[m].at
        BY <2>1, <2>3, <3>1 DEF Calm, Distinct
      <3>. QED
        BY <2>1, <2>3, <3>2 DEF Current
    <2>6. k \in 1..Len(processes["courier"]) \/ k = Len(processes["courier"]) + 1
      BY <2>1, Grown
    <2>. QED
      BY <2>4, <2>5, <2>6
  <1>7. CASE \E v \in Workers : Answers(v)
    <2>1. scan \in [Workers -> [pc : ScanPcs, at : Nat, size : Nat, done : SUBSET Nat]]
      BY DEF TypeInv, TypeOK, ListsOK
    <2>2. processes' = processes /\ (scan'[m] = scan[m] \/ scan'[m].pc # "waiting")
      BY <1>7, <2>1 DEF Answers, GoOn
    <2>. QED
      BY <1>1, <2>2 DEF Waits
  <1>8. CASE \E v \in Workers : Proceeds(v)
    BY <1>1, <1>8 DEF Proceeds, thirdParty, Waits
  <1>. QED
    BY <1>2, <1>3, <1>4, <1>5, <1>6, <1>7, <1>8, ListStep

(* The two workers never report of the same order. *)
LEMMA ReportsApart ==
    ASSUME TypeInv, Synchronous, Apart, report["manufacturer"].pc # "none", report["courier"].pc # "none"
    PROVE  report["manufacturer"].order # report["courier"].order
  <1>. "manufacturer" \in Workers /\ "courier" \in Workers
    BY Idle
  <1>1. ASSUME NEW w \in Workers, report[w].pc # "none"
        PROVE  /\ scan[w].at \in 1..Len(processes[w]) /\ Waits(w, scan[w].at)
               /\ report[w].order = processes[w][scan[w].at].order
    <2>1. scan[w].pc = "waiting"
      BY <1>1 DEF Synchronous
    <2>2. scan[w].at \in 1..Len(processes[w])
      BY <2>1 DEF TypeInv, TypeOK, ListsOK, WithinList
    <2>. QED
      BY <2>1, <2>2 DEF Synchronous, Waits, Current
  <1>2. ~InList("courier", processes["manufacturer"][scan["manufacturer"].at].order)
    BY <1>1 DEF Apart
  <1>. QED
    BY <1>1, <1>2 DEF InList

LEMMA AcceptedBy ==
    ASSUME TypeInv, [Next]_vars, faults' = 0, NEW w \in Workers,
           report[w].pc # "accepted", report[w].pc # "stored", report'[w].pc \in {"accepted", "stored"}
    PROVE  AcceptStatus(w)
  <1>0. report \in [Workers -> [pc : {"none", "sent", "accepted", "stored"},
                                type : StatusType, order : OrderIds \union {None}]]
    BY Shapes
  <1>1. ASSUME NEW v \in Workers, NEW status \in DOMAIN Says, Advances(v, status)
        PROVE  FALSE
    <2>1. report'[w] = report[w] \/ report'[w].pc = "sent"
      BY <1>1, Advanced
    <2>. QED
      BY <2>1
  <1>2. ASSUME NEW v \in Workers, Answers(v)
        PROVE  FALSE
    BY <1>0, <1>2, Idle DEF Answers
  <1>3. ASSUME NEW v \in Workers, ReportStep(v), Proceeds(v)
        PROVE  AcceptStatus(w)
    <2>1. v = w
      BY <1>0, <1>3 DEF Proceeds
    <2>2. ~StoreDetails(w)
      BY DEF StoreDetails
    <2>3. ~RejectStatus(w) /\ ~InsertStatus(w)
      BY <1>0, Idle DEF RejectStatus, InsertStatus, Answer
    <2>. QED
      BY <1>3, <2>1, <2>2, <2>3 DEF ReportStep
  <1>4. CASE Rests \/ HandToCourier \/ (\E o \in OrderIds : Issues(o)) \/ \E v \in Workers : RemoveRetired(v)
    BY <1>4 DEF Rests, Issues, HandToCourier, RemoveRetired
  <1>. QED
    BY <1>1, <1>2, <1>3, <1>4, ListStep

(* The history of an order that is not late was not late before. *)
LEMMA LateStep ==
    ASSUME TypeInv, Deletable = {}, [Next]_vars, NEW o \in OrderIds, ~Late(o)'
    PROVE  ~Late(o)
  <1>. history[o] \in Seq(StatusType)
    BY Shapes
  <1>1. ASSUME NEW new, history'[o] = Append(history[o], new)
        PROVE  ~Late(o)
    <2>1. /\ Len(history'[o]) = Len(history[o]) + 1 /\ Len(history[o]) \in Nat
          /\ \A i \in 1..Len(history[o]) : history'[o][i] = history[o][i]
      BY <1>1
    <2>. QED
      BY <2>1 DEF Late
  <1>. QED
    BY <1>1, HistoryStep DEF Late

LEMMA AheadKept ==
    ASSUME FlowInv, Calm, Apart, Ahead, OnlyLateOrderedDescends, Deletable = {}, MaxTies = 0,
           [Next]_vars, faults' = 0
    PROVE  Ahead'
  <1>. HistInv /\ TypeInv
    BY DEF FlowInv, HistInv
  <1>0. report \in [Workers -> [pc : {"none", "sent", "accepted", "stored"},
                                type : StatusType, order : OrderIds \union {None}]]
    BY Shapes
  <1>1. ASSUME NEW w \in Workers, report'[w].pc \in {"accepted", "stored"}
        PROVE  /\ report[w].pc # "none"
               /\ report'[w].order = report[w].order /\ report'[w].type = report[w].type
               /\ report[w].order \in OrderIds
    <2>1. AcceptStatus(w) =>
            report[w].pc # "none" /\ report'[w].order = report[w].order /\ report'[w].type = report[w].type
      BY <1>0 DEF AcceptStatus
    <2>2. report[w].pc \in {"accepted", "stored"} =>
            report'[w].order = report[w].order /\ report'[w].type = report[w].type
      BY <1>1, InFlight DEF Calm
    <2>3. report[w].pc # "none" /\ report'[w].order = report[w].order /\ report'[w].type = report[w].type
      BY <1>1, <2>1, <2>2, AcceptedBy
    <2>. QED
      BY <2>3, WaitsWith DEF Calm
  <1>. SUFFICES ASSUME NEW w \in Workers, report'[w].pc \in {"accepted", "stored"}, report[w].pc # "none",
                       NEW o \in OrderIds, o = report[w].order, ~Late(o)',
                       NEW type \in StatusType, type = report[w].type
                PROVE  Exceeds(o, type)'
    <2>. SUFFICES ASSUME NEW w \in Workers, report'[w].pc \in {"accepted", "stored"}
                  PROVE  ~Late(report[w].order)' => Exceeds(report[w].order, report[w].type)'
      BY DEF Ahead
    <2>1. PICK o \in OrderIds, type \in StatusType :
            o = report[w].order /\ type = report[w].type /\ o = report'[w].order /\ type = report'[w].type
      BY <1>0, <1>1
    <2>2. ~Late(o)' => Exceeds(o, type)'
      BY <1>1, <2>1
    <2>. QED
      BY <2>1, <2>2 DEF Late, Exceeds
  <1>. ~Late(o) /\ history[o] \in Seq(StatusType)
    BY LateStep, Shapes
  <1>2. CASE AcceptStatus(w)
    <2>1. history' = history
      BY <1>2 DEF AcceptStatus, tables
    <2>2. PICK j \in 1..Len(history[o]) : Len(history[o]) - j <= 0 /\ InSequence(type, history[o][j])
      BY <1>2 DEF AcceptStatus, LatestByTimestamp
    <2>3. \A i \in 1..Len(history[o]) : history[o][i] \in StatusType
      OBVIOUS
    <2>4. Ascends(o)
      BY DEF OnlyLateOrderedDescends, Late
    <2>5. j = Len(history[o]) /\ Len(history[o]) \in Nat
      BY <2>2
    <2>6. ASSUME NEW i \in 1..Len(history[o])
          PROVE  StatusSequence[history[o][i]] < StatusSequence[type]
      <3>1. CASE i = j
        BY <2>2, <3>1 DEF InSequence
      <3>2. CASE i < j
        <4>1. StatusSequence[history[o][i]] < StatusSequence[history[o][j]]
          BY <2>4, <2>5, <3>2 DEF Ascends
        <4>2. \A t \in StatusType : StatusSequence[t] \in Int
          BY StatusTypes DEF StatusSequence
        <4>3. StatusSequence[history[o][i]] \in Int /\ StatusSequence[history[o][j]] \in Int /\ StatusSequence[type] \in Int
          BY <2>3, <4>2
        <4>. QED
          BY <2>2, <4>1, <4>3 DEF InSequence
      <3>. QED
        BY <2>5, <3>1, <3>2
    <2>. QED
      BY <2>1, <2>6 DEF Exceeds
  <1>3. CASE report[w].pc \in {"accepted", "stored"}
    <2>1. Exceeds(o, type)
      BY <1>3 DEF Ahead
    <2>2. type \in {"CARD_ERROR", "CARD_CREATED", "CARD_SHIPPED", "CARD_DELIVERED"}
      <3>1. Current(w).status \in DOMAIN Says /\ type = Says[Current(w).status]
        BY WaitsWith DEF Calm
      <3>. QED
        BY <3>1 DEF Says
    <2>3. ASSUME NEW new \in {"ORDER_CREATED", "CARD_ORDERED"}, history'[o] = Append(history[o], new)
          PROVE  Exceeds(o, type)'
      <3>1. /\ Len(history'[o]) = Len(history[o]) + 1 /\ Len(history[o]) \in Nat
            /\ \A i \in 1..Len(history[o]) : history'[o][i] = history[o][i]
            /\ history'[o][Len(history[o]) + 1] = new
        BY <2>3, StatusTypes
      <3>2. StatusSequence[new] < StatusSequence[type]
        BY <2>2, StatusTypes DEF StatusSequence
      <3>3. \A i \in 1..Len(history'[o]) : i \in 1..Len(history[o]) \/ i = Len(history[o]) + 1
        BY <3>1
      <3>. QED
        BY <2>1, <3>1, <3>2, <3>3 DEF Exceeds
    <2>4. ASSUME NEW v \in Workers, Records(v, o), report' = [report EXCEPT ![v] = NoReport]
          PROVE  FALSE
      <3>1. v # w
        BY <1>0, <2>4, Idle
      <3>2. report[v].pc # "none" /\ report[v].order = report[w].order
        BY <2>4 DEF Records
      <3>. QED
        BY <3>1, <3>2, ReportsApart DEF Calm, Workers
    <2>. QED
      BY <2>1, <2>3, <2>4, HistoryStep DEF Exceeds
  <1>. QED
    BY <1>2, <1>3, AcceptedBy

LEMMA AscendingKept ==
    ASSUME FlowInv, Calm, Ahead, OnlyLateOrderedDescends, HistoryStartsWithCreation, Deletable = {}, [Next]_vars
    PROVE  OnlyLateOrderedDescends'
  <1>. HistInv /\ TypeInv
    BY DEF FlowInv, HistInv
  <1>. SUFFICES ASSUME NEW o \in OrderIds, ~Late(o)'
                PROVE  Ascends(o)'
    BY DEF OnlyLateOrderedDescends, Late
  <1>. ~Late(o) /\ history[o] \in Seq(StatusType) /\ Len(history[o]) \in Nat
    BY LateStep, Shapes
  <1>1. Ascends(o)
    BY DEF OnlyLateOrderedDescends, Late
  <1>2. ASSUME NEW new \in StatusType, history'[o] = Append(history[o], new), Exceeds(o, new)
        PROVE  Ascends(o)'
    <2>1. /\ Len(history'[o]) = Len(history[o]) + 1
          /\ \A i \in 1..Len(history[o]) : history'[o][i] = history[o][i]
          /\ history'[o][Len(history[o]) + 1] = new
      BY <1>2
    <2>2. ASSUME NEW i \in 1..Len(history'[o]), NEW j \in 1..Len(history'[o]), i < j
          PROVE  StatusSequence[history'[o][i]] < StatusSequence[history'[o][j]]
      <3>1. i \in 1..Len(history[o]) /\ (j \in 1..Len(history[o]) \/ j = Len(history[o]) + 1)
        BY <2>1, <2>2
      <3>2. CASE j \in 1..Len(history[o])
        BY <1>1, <2>1, <2>2, <3>1, <3>2 DEF Ascends
      <3>3. CASE j = Len(history[o]) + 1
        BY <1>2, <2>1, <3>1, <3>3 DEF Exceeds
      <3>. QED
        BY <3>1, <3>2, <3>3
    <2>. QED
      BY <2>2 DEF Ascends
  <1>3. CASE \E c \in Clients : Creates(c, o) /\ history'[o] = Append(history[o], "ORDER_CREATED")
    <2>1. ~HasStatus(o)
      BY <1>3 DEF HistInv, Creating, Creates, Kept
    <2>2. Exceeds(o, "ORDER_CREATED")
      BY <2>1 DEF Exceeds, HasStatus
    <2>. QED
      BY <1>2, <1>3, <2>2, StatusTypes
  <1>4. CASE Commissions(o) /\ history'[o] = Append(history[o], "CARD_ORDERED")
    <2>1. /\ Len(history'[o]) = Len(history[o]) + 1
          /\ history'[o][Len(history[o]) + 1] = "CARD_ORDERED"
      BY <1>4, StatusTypes
    <2>2. Len(history[o]) < 2
      BY <2>1 DEF Late
    <2>3. ASSUME NEW i \in 1..Len(history[o])
          PROVE  StatusSequence[history[o][i]] < StatusSequence["CARD_ORDERED"]
      <3>1. i = 1
        BY <2>2
      <3>2. history[o][i] = "ORDER_CREATED"
        BY <3>1 DEF HistoryStartsWithCreation
      <3>. QED
        BY <3>2, StatusTypes DEF StatusSequence
    <2>. QED
      BY <1>2, <1>4, <2>3, StatusTypes DEF Exceeds
  <1>5. ASSUME NEW w \in Workers, Records(w, o), history'[o] = Append(history[o], report[w].type)
        PROVE  Ascends(o)'
    <2>1. PICK type \in StatusType : type = report[w].type
      BY Shapes
    <2>2. Exceeds(o, type)
      BY <1>5, <2>1 DEF Ahead, Records
    <2>. QED
      BY <1>2, <1>5, <2>1, <2>2
  <1>6. CASE history'[o] = history[o]
    BY <1>1, <1>6 DEF Ascends
  <1>. QED
    BY <1>3, <1>4, <1>5, <1>6, HistoryStep

(* Where no order is deleted and the timestamps tell the rows apart, and     *)
(* until something fails, the statuses of an order ascend, unless the        *)
(* WorkScheduler recorded its CARD_ORDERED late: handleNewStatus reads the   *)
(* last status and inserts the new one in two transactions, and no other     *)
(* report of the order comes in between.                                     *)
THEOREM OnlyLateDescends ==
    ASSUME Deletable = {}, MaxTies = 0
    PROVE  Spec => [](faults = 0 => OnlyLateOrderedDescends)
  <1>. DEFINE Ordered == HistoryStartsWithCreation /\ Apart /\ Ahead /\ OnlyLateOrderedDescends
              Inv == FlowInv /\ (faults = 0 => Ordered)
  <1>1. Init => Inv
    <2>. SUFFICES ASSUME Init PROVE Ordered
      BY InitFlow
    <2>1. /\ \A o \in OrderIds : Len(history[o]) = 0
          /\ \A w \in Workers : Len(processes[w]) = 0 /\ report[w].pc = "none"
      BY Idle DEF Init
    <2>2. Apart /\ Ahead
      BY <2>1, Idle DEF Apart, Ahead
    <2>. QED
      BY <2>1, <2>2, InitHist DEF OnlyLateOrderedDescends, Ascends
  <1>2. Inv /\ [Next]_vars => Inv'
    <2>. SUFFICES ASSUME Inv, [Next]_vars
                  PROVE  Inv'
      OBVIOUS
    <2>1. FlowInv' /\ FlowInv /\ HistInv
      BY FlowInvKept DEF FlowInv
    <2>2. ASSUME faults' = 0 PROVE Ordered'
      <3>1. faults = 0 /\ Calm /\ Ordered
        BY <2>1, <2>2, FlowInvKept DEF FlowInv
      <3>2. HistoryStartsWithCreation' /\ Apart'
        BY <2>1, <2>2, <3>1, StartKept, ApartKept
      <3>3. Ahead' /\ OnlyLateOrderedDescends'
        BY <2>1, <2>2, <3>1, AheadKept, AscendingKept
      <3>. QED
        BY <3>2, <3>3
    <2>. QED
      BY <2>1, <2>2
  <1>3. Inv /\ faults = 0 => OnlyLateOrderedDescends
    OBVIOUS
  <1>. HIDE DEF Inv
  <1>. QED
    BY <1>1, <1>2, <1>3, PTL DEF Spec
=============================================================================
