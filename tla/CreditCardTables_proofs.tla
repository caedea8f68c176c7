---------------------- MODULE CreditCardTables_proofs ----------------------
(* Types, and what the tables say of an order, whatever fails, for every    *)
(* set of accounts, order ids and clients and every bound: the ShippingId   *)
(* comes before CARD_SHIPPED, the card before CARD_CREATED, and the         *)
(* creation before everything else.                                         *)
EXTENDS CreditCardOrders, SequenceTheorems, TLAPS

(* What a request, the WorkScheduler and a report have to remember: whoever *)
(* is about to write the status of an order holds the id of one.            *)
HoldsOrder ==
    /\ \A c \in Clients : client[c].pc = "inserted" => client[c].order \in OrderIds
    /\ work.pc = "issued" => work.order \in OrderIds
    /\ \A w \in Workers : report[w].pc # "none" => report[w].order \in OrderIds

TypeInv == TypeOK /\ HoldsOrder

LEMMA StatusTypes ==
    StatusType = {"ORDER_CREATED", "CARD_ORDERED", "CARD_ERROR",
                  "CARD_CREATED", "CARD_SHIPPED", "CARD_DELIVERED"}
  BY DEF StatusType, StatusSequence

LEMMA WithoutNthType ==
    ASSUME NEW S, NEW list \in Seq(S), NEW n \in 1..Len(list)
    PROVE  /\ WithoutNth(list, n) \in Seq(S)
           /\ Len(WithoutNth(list, n)) = Len(list) - 1
  <1>. /\ n \in Int /\ n - 1 \in Int /\ n + 1 \in Int /\ Len(list) \in Int
       /\ \A i \in 1..(n - 1) : list[i] \in S
       /\ \A i \in (n + 1)..Len(list) : list[i] \in S
    OBVIOUS
  <1>1. /\ SubSeq(list, 1, n - 1) \in Seq(S)
        /\ Len(SubSeq(list, 1, n - 1)) = n - 1
    BY SubSeqProperties
  <1>2. /\ SubSeq(list, n + 1, Len(list)) \in Seq(S)
        /\ Len(SubSeq(list, n + 1, Len(list))) = Len(list) - n
    BY SubSeqProperties
  <1>3. /\ WithoutNth(list, n) \in Seq(S)
        /\ Len(WithoutNth(list, n)) = Len(SubSeq(list, 1, n - 1)) + Len(SubSeq(list, n + 1, Len(list)))
    BY <1>1, <1>2, ConcatProperties, Zenon DEF WithoutNth
  <1>4. Len(SubSeq(list, 1, n - 1)) + Len(SubSeq(list, n + 1, Len(list))) = Len(list) - 1
    <2>. DEFINE a == Len(SubSeq(list, 1, n - 1))
                b == Len(SubSeq(list, n + 1, Len(list)))
    <2>1. a = n - 1 /\ b = Len(list) - n
      BY <1>1, <1>2, Zenon
    <2>. HIDE DEF a, b
    <2>2. a + b = Len(list) - 1
      BY <2>1
    <2>. QED
      BY <2>2, Zenon DEF a, b
  <1>. QED
    BY <1>3, <1>4, Zenon

LEMMA InitType == Init => TypeInv
  <1>. SUFFICES ASSUME Init PROVE TypeInv
    OBVIOUS
  <1>. USE StatusTypes DEF Init, IdleClient, IdleWork, IdleScan, NoReport
  <1>1. TablesOK
    BY DEF TablesOK
  <1>2. RequestsOK
    BY DEF RequestsOK, ClientPcs
  <1>3. ListsOK
    <2>1. \A w \in Workers : Len(processes[w]) = 0 /\ scan[w] = IdleScan
      OBVIOUS
    <2>2. \A w \in Workers : WithinList(w)
      BY <2>1 DEF WithinList
    <2>3. IdleScan \in [pc : ScanPcs, at : Nat, size : Nat, done : SUBSET Nat]
      BY DEF ScanPcs
    <2>. QED
      BY <2>2, <2>3 DEF ListsOK
  <1>4. crisis \in BOOLEAN
    BY Zenon
  <1>5. faults \in 0..MaxFaults
    BY BoundsAreNaturals
  <1>6. HoldsOrder
    BY DEF HoldsOrder
  <1>. QED
    BY <1>1, <1>2, <1>3, <1>4, <1>5, <1>6 DEF TypeInv, TypeOK

-----------------------------------------------------------------------------
(* Steps that leave a group of variables alone keep what TypeInv says of it *)

LEMMA SameLists ==
    ASSUME ListsOK, UNCHANGED <<processes, scan>>
    PROVE  ListsOK'
  BY DEF ListsOK, WithinList

LEMMA SameTables ==
    ASSUME TablesOK, UNCHANGED tables
    PROVE  TablesOK'
  BY DEF TablesOK, tables

LEMMA StatusInserted ==
    ASSUME TablesOK, NEW o \in OrderIds, NEW type \in StatusType,
           InsertNewStatus(o, type), UNCHANGED <<orders, owner, shipped, cards>>
    PROVE  TablesOK'
  BY DEF TablesOK, InsertNewStatus

(* A process is appended while the run of w may be under way. *)
LEMMA ListGrown ==
    ASSUME ListsOK, NEW w \in Workers, NEW p \in Process,
           processes' = [processes EXCEPT ![w] = Append(@, p)], scan' = scan
    PROVE  ListsOK'
  <1>1. processes' \in [Workers -> Seq(Process)]
    BY DEF ListsOK
  <1>2. \A v \in Workers : Len(processes[v]) \in Nat /\ Len(processes'[v]) \in Nat
                               /\ Len(processes[v]) <= Len(processes'[v])
    BY DEF ListsOK
  <1>3. \A v \in Workers : WithinList(v)'
    BY <1>2 DEF ListsOK, WithinList
  <1>. QED
    BY <1>1, <1>3 DEF ListsOK

Scan == [pc : ScanPcs, at : Nat, size : Nat, done : SUBSET Nat]

(* The run of w goes from one position to another. *)
LEMMA RunMoved ==
    ASSUME ListsOK, NEW w \in Workers, NEW run \in Scan,
           scan' = [scan EXCEPT ![w] = run], processes' = processes,
           run.size <= Len(processes[w]), run.at \in 1..(run.size + 1),
           run.pc = "waiting" => run.at <= run.size,
           run.done \subseteq 1..Len(processes[w])
    PROVE  ListsOK'
  <1>1. scan' \in [Workers -> Scan] /\ scan'[w] = run
    BY DEF ListsOK, Scan
  <1>2. \A v \in Workers : WithinList(v)'
    BY <1>1 DEF ListsOK, WithinList
  <1>. QED
    BY <1>1, <1>2 DEF ListsOK, Scan

LEMMA IdleScanType == IdleScan \in Scan
  BY DEF IdleScan, Scan, ScanPcs

LEMMA RunEnded ==
    ASSUME ListsOK, NEW w \in Workers,
           scan' = [scan EXCEPT ![w] = IdleScan], processes' = processes
    PROVE  ListsOK'
  <1>1. 0 <= Len(processes[w]) /\ IdleScan.size = 0 /\ IdleScan.at = 1
        /\ IdleScan.pc = "idle" /\ IdleScan.done = {}
    BY DEF ListsOK, IdleScan
  <1>2. /\ IdleScan.size <= Len(processes[w])
        /\ IdleScan.at \in 1..(IdleScan.size + 1)
        /\ IdleScan.pc = "waiting" => IdleScan.at <= IdleScan.size
        /\ IdleScan.done \subseteq 1..Len(processes[w])
    BY <1>1
  <1>. QED
    BY <1>2, RunMoved, IdleScanType

-----------------------------------------------------------------------------
(* The requests of the clients *)

LEMMA ClientType ==
    ASSUME TypeInv, NEW c \in Clients, ClientStep(c)
    PROVE  TypeInv'
  <1>. USE DEF TypeInv, TypeOK, tables, thirdParty, budget
  <1>1. CASE \E a \in Accounts : CountOrders(c, a)
    <2>1. PICK a \in Accounts : CountOrders(c, a)
      BY <1>1
    <2>. USE DEF CountOrders
    <2>2. TablesOK' /\ ListsOK'
      BY <2>1, SameLists, SameTables
    <2>3. RequestsOK' /\ HoldsOrder'
      BY <2>1 DEF RequestsOK, HoldsOrder, ClientPcs
    <2>. QED
      BY <2>1, <2>2, <2>3
  <1>2. CASE \E a \in Deletable : DeleteStatuses(c, a)
    <2>1. PICK a \in Accounts : DeleteStatuses(c, a)
      BY <1>2, DeletableAreAccounts
    <2>. USE DEF DeleteStatuses
    <2>2. TablesOK' /\ ListsOK'
      BY <2>1, SameLists DEF TablesOK
    <2>3. RequestsOK' /\ HoldsOrder'
      BY <2>1 DEF RequestsOK, HoldsOrder, ClientPcs
    <2>. QED
      BY <2>1, <2>2, <2>3
  <1>3. CASE InsertNewOrder(c)
    <2>1. FreshGuid \in OrderIds
      BY <1>3 DEF InsertNewOrder, FreshGuid
    <2>. USE DEF InsertNewOrder
    <2>2. TablesOK' /\ ListsOK'
      BY <1>3, <2>1, SameLists DEF TablesOK, RequestsOK
    <2>3. RequestsOK' /\ HoldsOrder'
      BY <1>3, <2>1 DEF RequestsOK, HoldsOrder, ClientPcs
    <2>. QED
      BY <1>3, <2>2, <2>3
  <1>4. CASE InsertOrderCreated(c)
    <2>. USE DEF InsertOrderCreated, IdleClient
    <2>1. client[c].order \in OrderIds
      BY <1>4 DEF HoldsOrder
    <2>2. TablesOK'
      BY <1>4, <2>1, StatusTypes, StatusInserted, SameTables
    <2>3. RequestsOK' /\ HoldsOrder' /\ ListsOK'
      BY <1>4, SameLists DEF RequestsOK, HoldsOrder, ClientPcs
    <2>. QED
      BY <1>4, <2>2, <2>3
  <1>5. CASE DeleteCards(c)
    <2>. USE DEF DeleteCards, IdleClient
    <2>1. TablesOK' /\ ListsOK'
      BY <1>5, SameLists DEF TablesOK
    <2>2. RequestsOK' /\ HoldsOrder'
      BY <1>5 DEF RequestsOK, HoldsOrder, ClientPcs
    <2>. QED
      BY <1>5, <2>1, <2>2
  <1>6. CASE DeleteOrders(c)
    <2>. USE DEF DeleteOrders, IdleClient
    <2>1. TablesOK' /\ ListsOK'
      BY <1>6, SameLists DEF TablesOK
    <2>2. RequestsOK' /\ HoldsOrder'
      BY <1>6 DEF RequestsOK, HoldsOrder, ClientPcs
    <2>. QED
      BY <1>6, <2>1, <2>2
  <1>. QED
    BY <1>1, <1>2, <1>3, <1>4, <1>5, <1>6 DEF ClientStep

-----------------------------------------------------------------------------
(* The WorkScheduler *)

LEMMA WorkType ==
    ASSUME TypeInv, WorkStep
    PROVE  TypeInv'
  <1>. USE DEF TypeInv, TypeOK, tables, thirdParty, budget, IdleWork
  <1>1. CASE WorkList
    <2>. USE DEF WorkList
    <2>1. TablesOK' /\ ListsOK'
      BY <1>1, SameLists, SameTables
    <2>2. RequestsOK' /\ HoldsOrder'
      BY <1>1 DEF RequestsOK, HoldsOrder
    <2>. QED
      BY <1>1, <2>1, <2>2
  <1>2. CASE \E o \in OrderIds : IssueCreditCard(o)
    <2>1. PICK o \in OrderIds : IssueCreditCard(o)
      BY <1>2
    <2>. USE DEF IssueCreditCard
    <2>2. [order |-> o, status |-> "ISSUING"] \in Process
      BY DEF Process, ManufactureStatus
    <2>3. ListsOK'
      <3>1. CASE UNCHANGED processes
        BY <2>1, <3>1, SameLists
      <3>2. CASE processes' = [processes EXCEPT !["manufacturer"] =
                                  Append(@, [order |-> o, status |-> "ISSUING"])]
        <4>. "manufacturer" \in Workers
          BY DEF Workers
        <4>. QED
          BY <2>1, <2>2, <3>2, ListGrown
      <3>. QED
        BY <2>1, <3>1, <3>2
    <2>4. TablesOK'
      BY <2>1, SameTables
    <2>5. /\ work' \in [pc : {"idle", "listed", "issued"}, todo : SUBSET OrderIds,
                        order : OrderIds \union {None}]
          /\ work'.pc = "issued" => work'.order \in OrderIds
      <3>1. CASE work' = IdleWork
        BY <3>1
      <3>2. CASE work' = [work EXCEPT !.pc = "issued", !.order = o]
        BY <3>2 DEF RequestsOK
      <3>. QED
        BY <2>1, <3>1, <3>2
    <2>6. RequestsOK' /\ HoldsOrder'
      BY <2>1, <2>5 DEF RequestsOK, HoldsOrder
    <2>. QED
      BY <2>1, <2>3, <2>4, <2>6
  <1>3. CASE RecordCardOrdered
    <2>. USE DEF RecordCardOrdered
    <2>1. work.order \in OrderIds
      BY <1>3 DEF HoldsOrder
    <2>2. TablesOK'
      BY <1>3, <2>1, StatusTypes, StatusInserted, SameTables
    <2>3. RequestsOK' /\ HoldsOrder' /\ ListsOK'
      BY <1>3, SameLists DEF RequestsOK, HoldsOrder
    <2>. QED
      BY <1>3, <2>2, <2>3
  <1>. QED
    BY <1>1, <1>2, <1>3 DEF WorkStep

-----------------------------------------------------------------------------
(* The runs of the third party over their lists *)

(* A run that stands at a process holds a position of its list. *)
LEMMA AtPosition ==
    ASSUME ListsOK, NEW w \in Workers, NEW status, AtProcess(w, status)
    PROVE  /\ scan[w].at \in 1..Len(processes[w])
           /\ scan[w].at <= scan[w].size
           /\ Current(w) \in Process
  BY DEF ListsOK, WithinList, AtProcess, Current

LEMMA PassedOver ==
    ASSUME ListsOK, NEW w \in Workers, NEW status, AtProcess(w, status),
           PassOver(w), processes' = processes
    PROVE  ListsOK'
  <1>. DEFINE run == [scan[w] EXCEPT !.at = @ + 1]
  <1>1. /\ scan[w] \in Scan /\ scan[w].at \in Nat /\ scan[w].size \in Nat
        /\ scan[w].at <= scan[w].size /\ scan[w].pc = "scanning"
    BY AtPosition DEF ListsOK, Scan, AtProcess
  <1>2. /\ run \in Scan /\ run.size = scan[w].size /\ run.at = scan[w].at + 1
        /\ run.pc = "scanning" /\ run.done = scan[w].done
    BY <1>1 DEF Scan
  <1>3. scan' = [scan EXCEPT ![w] = run]
    BY DEF PassOver, ListsOK
  <1>4. scan[w].size <= Len(processes[w]) /\ scan[w].done \subseteq 1..Len(processes[w])
    BY DEF ListsOK, WithinList
  <1>5. /\ run.size <= Len(processes[w]) /\ run.done \subseteq 1..Len(processes[w])
        /\ run.at \in 1..(run.size + 1) /\ (run.pc = "waiting" => run.at <= run.size)
    BY <1>1, <1>2, <1>4
  <1>. HIDE DEF run
  <1>. QED
    BY <1>2, <1>3, <1>5, RunMoved

(* Retire does what PassOver does and marks the position; other lists may *)
(* change in the same step.                                                *)
LEMMA Retired ==
    ASSUME ListsOK, NEW w \in Workers, NEW status, AtProcess(w, status), Retire(w)
    PROVE  /\ scan' \in [Workers -> Scan]
           /\ \A v \in Workers \ {w} : scan'[v] = scan[v]
           /\ processes'[w] = processes[w] => WithinList(w)'
  <1>. DEFINE done == scan[w].done \union {scan[w].at}
              run  == [pc |-> "scanning", at |-> scan[w].at + 1,
                       size |-> scan[w].size, done |-> done]
  <1>1. /\ scan[w].at \in Nat /\ scan[w].size \in Nat /\ scan[w].done \in SUBSET Nat
        /\ scan[w].at <= scan[w].size /\ scan[w].at \in 1..Len(processes[w])
    BY AtPosition DEF ListsOK
  <1>2. scan[w].size <= Len(processes[w]) /\ scan[w].done \subseteq 1..Len(processes[w])
    BY DEF ListsOK, WithinList
  <1>3. done \in SUBSET Nat /\ done \subseteq 1..Len(processes[w])
    BY <1>1, <1>2
  <1>4. scan' = [scan EXCEPT ![w] = run]
    BY Zenon DEF Retire
  <1>. HIDE DEF done
  <1>5. run \in Scan
    BY <1>1, <1>3 DEF Scan, ScanPcs
  <1>6. /\ run.size <= Len(processes[w]) /\ run.done \subseteq 1..Len(processes[w])
        /\ run.at \in 1..(run.size + 1) /\ (run.pc = "waiting" => run.at <= run.size)
    BY <1>1, <1>2, <1>3
  <1>. HIDE DEF run
  <1>7. scan' \in [Workers -> Scan] /\ scan'[w] = run /\ \A v \in Workers \ {w} : scan'[v] = scan[v]
    BY <1>4, <1>5 DEF ListsOK, Scan
  <1>. QED
    BY <1>6, <1>7 DEF WithinList

LEMMA SetAndReported ==
    ASSUME TypeInv, NEW w \in Workers, NEW old, AtProcess(w, old),
           NEW status \in ManufactureStatus \union CourierStatus,
           NEW type \in StatusType, SetAndReport(w, status, type)
    PROVE  TypeInv'
  <1>. USE DEF TypeInv, TypeOK, SetAndReport
  <1>1. /\ scan[w].at \in 1..Len(processes[w]) /\ scan[w].at <= scan[w].size
        /\ Current(w) \in Process /\ Current(w).order \in OrderIds
    BY AtPosition DEF Process
  <1>2. [Current(w) EXCEPT !.status = status] \in Process
    BY <1>1 DEF Process
  <1>3. /\ processes' \in [Workers -> Seq(Process)]
        /\ \A v \in Workers : Len(processes'[v]) = Len(processes[v])
    <2>. DEFINE list == [processes[w] EXCEPT ![scan[w].at] = [Current(w) EXCEPT !.status = status]]
    <2>1. processes' = [processes EXCEPT ![w] = list]
      BY DEF Current, ListsOK
    <2>2. list \in Seq(Process) /\ Len(list) = Len(processes[w])
      BY <1>1, <1>2 DEF ListsOK
    <2>. HIDE DEF list
    <2>. QED
      BY <2>1, <2>2 DEF ListsOK
  <1>4. ListsOK'
    <2>1. scan' \in [Workers -> Scan]
      BY DEF ListsOK, Scan, ScanPcs
    <2>2. \A v \in Workers : WithinList(v)'
      BY <1>1, <1>3 DEF ListsOK, WithinList
    <2>. QED
      BY <1>3, <2>1, <2>2 DEF ListsOK, Scan
  <1>5. RequestsOK' /\ HoldsOrder'
    BY <1>1 DEF RequestsOK, HoldsOrder
  <1>6. TablesOK'
    BY SameTables
  <1>. QED
    BY <1>4, <1>5, <1>6 DEF budget

LEMMA RunType ==
    ASSUME TypeInv, NEW w \in Workers,
           StartScan(w) \/ FinishScan(w) \/ RemoveRetired(w) \/ AbortScan(w)
    PROVE  TypeInv'
  <1>. USE DEF TypeInv, TypeOK
  <1>0. UNCHANGED <<tables, client, work, report, budget>>
    BY DEF StartScan, FinishScan, RemoveRetired, AbortScan
  <1>1. TablesOK' /\ RequestsOK' /\ HoldsOrder'
    BY <1>0, SameTables DEF RequestsOK, HoldsOrder
  <1>2. ListsOK'
    <2>1. CASE StartScan(w)
      <3>. DEFINE run == [pc |-> "scanning", at |-> 1, size |-> Len(processes[w]), done |-> {}]
      <3>1. Len(processes[w]) \in Nat
        BY DEF ListsOK
      <3>2. run \in Scan
        BY <3>1 DEF Scan, ScanPcs
      <3>3. /\ run.size <= Len(processes[w]) /\ run.at \in 1..(run.size + 1)
            /\ (run.pc = "waiting" => run.at <= run.size)
            /\ run.done \subseteq 1..Len(processes[w])
        BY <3>1
      <3>4. scan' = [scan EXCEPT ![w] = run] /\ processes' = processes
        BY <2>1 DEF StartScan
      <3>. HIDE DEF run
      <3>. QED
        BY <3>2, <3>3, <3>4, RunMoved
    <2>2. CASE FinishScan(w) \/ AbortScan(w)
      BY <2>2, RunEnded DEF FinishScan, AbortScan
    <2>3. CASE RemoveRetired(w)
      <3>1. PICK n \in scan[w].done :
                /\ \A m \in scan[w].done : m <= n
                /\ processes' = [processes EXCEPT ![w] = WithoutNth(@, n)]
                /\ scan' = IF scan[w].done = {n} THEN [scan EXCEPT ![w] = IdleScan]
                           ELSE [scan EXCEPT ![w] = [pc |-> "removing", at |-> 1, size |-> 0,
                                                     done |-> @.done \ {n}]]
        BY <2>3 DEF RemoveRetired
      <3>2. /\ n \in 1..Len(processes[w]) /\ processes[w] \in Seq(Process)
            /\ scan[w].done \subseteq 1..Len(processes[w]) /\ scan[w].done \in SUBSET Nat
        BY DEF ListsOK, WithinList
      <3>3. /\ WithoutNth(processes[w], n) \in Seq(Process)
            /\ Len(WithoutNth(processes[w], n)) = Len(processes[w]) - 1
        BY <3>2, WithoutNthType
      <3>4. /\ processes' \in [Workers -> Seq(Process)]
            /\ Len(processes'[w]) = Len(processes[w]) - 1
            /\ \A v \in Workers \ {w} : processes'[v] = processes[v]
        BY <3>1, <3>3, Zenon DEF ListsOK
      <3>5. PICK run \in {IdleScan, [pc |-> "removing", at |-> 1, size |-> 0,
                                     done |-> scan[w].done \ {n}]} :
                scan' = [scan EXCEPT ![w] = run]
        BY <3>1
      <3>6. /\ run \in Scan /\ run.size = 0 /\ run.at = 1 /\ run.pc # "waiting"
            /\ run.done \subseteq scan[w].done \ {n}
        BY <3>2 DEF IdleScan, Scan, ScanPcs
      <3>7. run.done \subseteq 1..(Len(processes[w]) - 1)
        BY <3>1, <3>2, <3>6
      <3>8. scan' \in [Workers -> Scan] /\ scan'[w] = run
        BY <3>5, <3>6 DEF ListsOK, Scan
      <3>9. 0 <= Len(processes'[w])
        BY <3>2, <3>4
      <3>10. WithinList(w)'
        BY <3>4, <3>6, <3>7, <3>8, <3>9 DEF WithinList
      <3>11. \A v \in Workers \ {w} : WithinList(v)'
        BY <3>4, <3>5 DEF ListsOK, WithinList
      <3>. QED
        BY <3>4, <3>8, <3>10, <3>11 DEF ListsOK, Scan
    <2>. QED
      BY <2>1, <2>2, <2>3
  <1>. QED
    BY <1>0, <1>1, <1>2 DEF budget

LEMMA ManufacturerType ==
    ASSUME TypeInv, ManufacturerStep
    PROVE  TypeInv'
  <1>. USE DEF TypeInv, TypeOK
  <1>. "manufacturer" \in Workers /\ "courier" \in Workers
    BY DEF Workers
  <1>1. CASE StartScan("manufacturer") \/ FinishScan("manufacturer")
             \/ RemoveRetired("manufacturer") \/ AbortScan("manufacturer")
    BY <1>1, RunType
  <1>2. CASE ManufactureFails \/ ManufactureSucceeds
    <2>1. /\ AtProcess("manufacturer", "ISSUING") \/ AtProcess("manufacturer", "MANUFACTURE_ERROR")
          /\ \/ SetAndReport("manufacturer", "MANUFACTURE_ERROR", "CARD_ERROR")
             \/ SetAndReport("manufacturer", "CARD_CREATED", "CARD_CREATED")
      BY <1>2 DEF ManufactureFails, ManufactureSucceeds
    <2>2. {"MANUFACTURE_ERROR", "CARD_CREATED"} \subseteq ManufactureStatus \union CourierStatus
          /\ {"CARD_ERROR", "CARD_CREATED"} \subseteq StatusType
      BY StatusTypes DEF ManufactureStatus
    <2>. QED
      BY <2>1, <2>2, SetAndReported
  <1>3. CASE ManufactureBlocked
    <2>1. ListsOK'
      BY <1>3, PassedOver DEF ManufactureBlocked
    <2>2. TablesOK' /\ RequestsOK' /\ HoldsOrder'
      BY <1>3, SameTables DEF ManufactureBlocked, RequestsOK, HoldsOrder
    <2>. QED
      BY <1>3, <2>1, <2>2 DEF ManufactureBlocked, budget
  <1>4. CASE HandToCourier
    <2>. USE DEF HandToCourier
    <2>. DEFINE p == [order |-> Current("manufacturer").order, status |-> "NEW_CARD_RECEIVED"]
    <2>1. p \in Process
      BY <1>4, AtPosition DEF Process, CourierStatus
    <2>2. processes' = [processes EXCEPT !["courier"] = Append(@, p)]
      BY <1>4
    <2>. HIDE DEF p
    <2>3. /\ processes' \in [Workers -> Seq(Process)]
          /\ processes'["manufacturer"] = processes["manufacturer"]
          /\ Len(processes["courier"]) <= Len(processes'["courier"])
          /\ Len(processes["courier"]) \in Nat /\ Len(processes'["courier"]) \in Nat
      BY <2>1, <2>2 DEF ListsOK
    <2>4. /\ scan' \in [Workers -> Scan] /\ scan'["courier"] = scan["courier"]
          /\ WithinList("manufacturer")'
      BY <1>4, <2>3, Retired
    <2>5. WithinList("courier")'
      BY <2>3, <2>4 DEF ListsOK, WithinList
    <2>6. ListsOK'
      BY <2>3, <2>4, <2>5 DEF ListsOK, Scan, Workers
    <2>7. TablesOK' /\ RequestsOK' /\ HoldsOrder'
      BY <1>4, SameTables DEF RequestsOK, HoldsOrder
    <2>. QED
      BY <1>4, <2>6, <2>7 DEF budget
  <1>. QED
    BY <1>1, <1>2, <1>3, <1>4 DEF ManufacturerStep

LEMMA CourierType ==
    ASSUME TypeInv, CourierStep
    PROVE  TypeInv'
  <1>. USE DEF TypeInv, TypeOK
  <1>. "courier" \in Workers
    BY DEF Workers
  <1>1. CASE StartScan("courier") \/ FinishScan("courier")
             \/ RemoveRetired("courier") \/ AbortScan("courier")
    BY <1>1, RunType
  <1>2. CASE ShipCard \/ DeliverCard
    <2>1. /\ AtProcess("courier", "NEW_CARD_RECEIVED") \/ AtProcess("courier", "CARD_SENT")
          /\ \/ SetAndReport("courier", "CARD_SENT", "CARD_SHIPPED")
             \/ SetAndReport("courier", "CARD_DELIVERED", "CARD_DELIVERED")
      BY <1>2 DEF ShipCard, DeliverCard
    <2>2. {"CARD_SENT", "CARD_DELIVERED"} \subseteq ManufactureStatus \union CourierStatus
          /\ {"CARD_SHIPPED", "CARD_DELIVERED"} \subseteq StatusType
      BY StatusTypes DEF CourierStatus
    <2>. QED
      BY <2>1, <2>2, SetAndReported
  <1>3. CASE NoShippingAddress \/ RetireDelivered
    <2>1. UNCHANGED <<tables, client, work, processes, report, budget>>
      BY <1>3 DEF NoShippingAddress, RetireDelivered
    <2>2. ListsOK'
      <3>1. CASE NoShippingAddress
        BY <2>1, <3>1, PassedOver DEF NoShippingAddress
      <3>2. CASE RetireDelivered
        <4>1. scan' \in [Workers -> Scan] /\ WithinList("courier")'
              /\ \A v \in Workers \ {"courier"} : scan'[v] = scan[v]
          BY <2>1, <3>2, Retired DEF RetireDelivered
        <4>2. \A v \in Workers \ {"courier"} : WithinList(v)'
          BY <2>1, <4>1 DEF ListsOK, WithinList
        <4>. QED
          BY <2>1, <4>1, <4>2 DEF ListsOK, Scan
      <3>. QED
        BY <1>3, <3>1, <3>2
    <2>3. TablesOK' /\ RequestsOK' /\ HoldsOrder'
      BY <2>1, SameTables DEF RequestsOK, HoldsOrder
    <2>. QED
      BY <2>1, <2>2, <2>3 DEF budget
  <1>. QED
    BY <1>1, <1>2, <1>3 DEF CourierStep

-----------------------------------------------------------------------------
(* The handler of a report *)

LEMMA ReportAnswered ==
    ASSUME ListsOK, NEW w \in Workers, processes' = processes,
           GoOn(w)
    PROVE  ListsOK'
  <1>1. CASE scan[w].pc # "waiting"
    BY <1>1, SameLists DEF GoOn
  <1>2. CASE scan[w].pc = "waiting"
    <2>. DEFINE run == [pc |-> "scanning", at |-> scan[w].at + 1,
                        size |-> scan[w].size, done |-> scan[w].done]
    <2>1. /\ scan[w].at \in Nat /\ scan[w].size \in Nat /\ scan[w].done \in SUBSET Nat
          /\ scan[w].at <= scan[w].size /\ scan[w].size <= Len(processes[w])
          /\ scan[w].done \subseteq 1..Len(processes[w])
      BY <1>2 DEF ListsOK, WithinList
    <2>2. scan' = [scan EXCEPT ![w] = run]
      BY <1>2, Zenon DEF GoOn
    <2>3. run \in Scan
      BY <2>1 DEF Scan, ScanPcs
    <2>4. /\ run.size <= Len(processes[w]) /\ run.done \subseteq 1..Len(processes[w])
          /\ run.at \in 1..(run.size + 1) /\ (run.pc = "waiting" => run.at <= run.size)
      BY <2>1
    <2>. HIDE DEF run
    <2>. QED
      BY <2>2, <2>3, <2>4, RunMoved
  <1>. QED
    BY <1>1, <1>2

LEMMA Answered ==
    ASSUME TypeInv, NEW w \in Workers, Answer(w), processes' = processes,
           UNCHANGED <<client, work>>
    PROVE  ListsOK' /\ RequestsOK' /\ HoldsOrder' /\ faults' \in 0..MaxFaults
  <1>. USE DEF TypeInv, TypeOK
  <1>1. NoReport \in [pc : {"none", "sent", "accepted", "stored"},
                      type : StatusType, order : OrderIds \union {None}]
        /\ NoReport.pc = "none"
    BY StatusTypes DEF NoReport
  <1>2. report' = [report EXCEPT ![w] = NoReport]
    BY DEF Answer
  <1>3. RequestsOK' /\ HoldsOrder'
    BY <1>1, <1>2 DEF RequestsOK, HoldsOrder
  <1>4. ListsOK'
    BY ReportAnswered, RunEnded DEF Answer
  <1>5. faults' \in 0..MaxFaults
    BY BoundsAreNaturals DEF Answer
  <1>. QED
    BY <1>3, <1>4, <1>5

LEMMA ReportType ==
    ASSUME TypeInv, NEW w \in Workers, ReportStep(w)
    PROVE  TypeInv'
  <1>. USE DEF TypeInv, TypeOK
  <1>1. CASE RejectStatus(w)
    <2>. USE DEF RejectStatus
    <2>1. TablesOK'
      BY <1>1, SameTables
    <2>2. ListsOK' /\ RequestsOK' /\ HoldsOrder' /\ faults' \in 0..MaxFaults
      BY <1>1, Answered
    <2>. QED
      BY <1>1, <2>1, <2>2
  <1>2. CASE AcceptStatus(w)
    <2>. USE DEF AcceptStatus
    <2>1. TablesOK' /\ ListsOK'
      BY <1>2, SameTables, SameLists DEF thirdParty
    <2>2. RequestsOK' /\ HoldsOrder'
      BY <1>2 DEF RequestsOK, HoldsOrder
    <2>. QED
      BY <1>2, <2>1, <2>2 DEF budget
  <1>3. CASE StoreDetails(w)
    <2>. USE DEF StoreDetails
    <2>1. report[w].order \in OrderIds
      BY <1>3 DEF HoldsOrder
    <2>2. TablesOK'
      <3>1. /\ UNCHANGED <<orders, owner, history>>
            /\ cards' = cards \/ cards' = [cards EXCEPT ![report[w].order] = @ + 1]
            /\ shipped' = shipped \/ shipped' = shipped \union ({report[w].order} \intersect orders)
        BY <1>3
      <3>2. cards' \in [OrderIds -> Nat]
        BY <3>1 DEF TablesOK
      <3>3. shipped' \subseteq OrderIds
        BY <3>1 DEF TablesOK
      <3>. QED
        BY <3>1, <3>2, <3>3 DEF TablesOK
    <2>3. CASE Answer(w)
      BY <1>3, <2>2, <2>3, Answered
    <2>4. CASE report' = [report EXCEPT ![w].pc = "stored"] /\ UNCHANGED <<scan, faults>>
      <3>1. ListsOK'
        BY <1>3, <2>4, SameLists
      <3>2. RequestsOK' /\ HoldsOrder'
        BY <1>3, <2>1, <2>4 DEF RequestsOK, HoldsOrder
      <3>. QED
        BY <1>3, <2>2, <2>4, <3>1, <3>2
    <2>. QED
      BY <1>3, <2>3, <2>4
  <1>4. CASE InsertStatus(w)
    <2>. USE DEF InsertStatus
    <2>1. report[w].order \in OrderIds /\ report[w].type \in StatusType
      BY <1>4 DEF HoldsOrder, RequestsOK
    <2>2. TablesOK'
      BY <1>4, <2>1, StatusInserted, SameTables DEF tables
    <2>3. ListsOK' /\ RequestsOK' /\ HoldsOrder' /\ faults' \in 0..MaxFaults
      BY <1>4, Answered
    <2>. QED
      BY <1>4, <2>2, <2>3
  <1>. QED
    BY <1>1, <1>2, <1>3, <1>4 DEF ReportStep

-----------------------------------------------------------------------------
(* Faults *)

LEMMA FaultType ==
    ASSUME TypeInv, FaultStep
    PROVE  TypeInv'
  <1>. USE DEF TypeInv, TypeOK
  <1>0. faults' \in 0..MaxFaults
    <2>1. faults < MaxFaults /\ faults' = faults + 1
      BY Zenon DEF FaultStep, Fault, ClientRequestFails, ReportFails, WorkFails, AddressFails,
         OrderServiceRestarts, ThirdPartyRestarts
    <2>. QED
      BY <2>1, BoundsAreNaturals
  <1>. TablesOK' /\ crisis' \in BOOLEAN
    <2>1. UNCHANGED tables /\ crisis' = crisis
      BY DEF FaultStep, ClientRequestFails, ReportFails, WorkFails, AddressFails,
         OrderServiceRestarts, ThirdPartyRestarts
    <2>. QED
      BY <2>1, SameTables
  <1>. DEFINE ClientType0 == [pc : ClientPcs, account : Accounts \union {None},
                             order : OrderIds \union {None}]
              WorkType0 == [pc : {"idle", "listed", "issued"}, todo : SUBSET OrderIds,
                            order : OrderIds \union {None}]
              ReportType0 == [pc : {"none", "sent", "accepted", "stored"},
                              type : StatusType, order : OrderIds \union {None}]
  <1>a. IdleClient \in ClientType0 /\ IdleClient.pc = "idle"
    BY DEF IdleClient, ClientPcs
  <1>b. IdleWork \in WorkType0 /\ IdleWork.pc = "idle"
    BY DEF IdleWork
  <1>c. NoReport \in ReportType0 /\ NoReport.pc = "none"
    BY StatusTypes DEF NoReport
  <1>. HIDE DEF ClientType0, WorkType0, ReportType0
  <1>d. RequestsOK <=> /\ client \in [Clients -> ClientType0] /\ work \in WorkType0
                       /\ report \in [Workers -> ReportType0]
    BY Zenon DEF RequestsOK, ClientType0, WorkType0, ReportType0
  <1>e. RequestsOK' <=> /\ client' \in [Clients -> ClientType0] /\ work' \in WorkType0
                        /\ report' \in [Workers -> ReportType0]
    BY Zenon DEF RequestsOK, ClientType0, WorkType0, ReportType0
  <1>1. ASSUME NEW c \in Clients, ClientRequestFails(c)
        PROVE  ListsOK' /\ RequestsOK' /\ HoldsOrder'
    <2>1. ListsOK'
      BY <1>1, SameLists DEF ClientRequestFails, thirdParty
    <2>2. RequestsOK' /\ HoldsOrder'
      BY <1>1, <1>a, <1>d, <1>e DEF ClientRequestFails, HoldsOrder
    <2>. QED
      BY <2>1, <2>2
  <1>2. ASSUME NEW w \in Workers, ReportFails(w)
        PROVE  ListsOK' /\ RequestsOK' /\ HoldsOrder'
    <2>1. ListsOK'
      BY <1>2, ReportAnswered DEF ReportFails
    <2>2. RequestsOK' /\ HoldsOrder'
      BY <1>2, <1>c, <1>d, <1>e DEF ReportFails, HoldsOrder
    <2>. QED
      BY <2>1, <2>2
  <1>3. CASE WorkFails
    <2>1. ListsOK'
      BY <1>3, SameLists DEF WorkFails, thirdParty
    <2>2. UNCHANGED <<client, report>> /\ work' = IdleWork
      BY <1>3 DEF WorkFails
    <2>3. RequestsOK'
      BY <2>2, <1>b, <1>d, <1>e
    <2>4. HoldsOrder'
      BY <2>2, <1>b DEF HoldsOrder
    <2>. QED
      BY <1>0, <2>1, <2>3, <2>4
  <1>4. CASE OrderServiceRestarts
    <2>1. /\ processes' = processes
          /\ scan' = [w \in Workers |-> IF scan[w].pc = "waiting" THEN IdleScan ELSE scan[w]]
      BY <1>4 DEF OrderServiceRestarts
    <2>2. scan' \in [Workers -> Scan]
      BY <2>1, IdleScanType DEF ListsOK, Scan
    <2>3. ASSUME NEW w \in Workers PROVE WithinList(w)'
      <3>1. CASE scan'[w] = scan[w]
        BY <2>1, <3>1 DEF ListsOK, WithinList
      <3>2. CASE scan'[w] = IdleScan
        <4>1. Len(processes[w]) \in Nat
          BY DEF ListsOK
        <4>. QED
          BY <2>1, <3>2, <4>1 DEF WithinList, IdleScan
      <3>. QED
        BY <2>1, <3>1, <3>2
    <2>4. /\ client' = [c \in Clients |-> IdleClient] /\ work' = IdleWork
          /\ report' = [w \in Workers |-> NoReport]
      BY <1>4 DEF OrderServiceRestarts
    <2>5. RequestsOK'
      BY <2>4, <1>a, <1>b, <1>c, <1>e
    <2>6. HoldsOrder'
      BY <2>4, <1>a, <1>b, <1>c DEF HoldsOrder
    <2>. QED
      BY <1>0, <2>1, <2>2, <2>3, <2>5, <2>6 DEF ListsOK, Scan
  <1>5. CASE ThirdPartyRestarts
    <2>1. /\ processes' = [w \in Workers |-> << >>] /\ scan' = [w \in Workers |-> IdleScan]
      BY <1>5 DEF ThirdPartyRestarts
    <2>2. \A w \in Workers : Len(processes'[w]) = 0 /\ scan'[w] = IdleScan
      BY <2>1
    <2>3. \A w \in Workers : WithinList(w)'
      BY <2>2 DEF WithinList, IdleScan
    <2>4. ListsOK'
      BY <2>1, <2>3, IdleScanType DEF ListsOK, Scan
    <2>5. UNCHANGED <<client, report>> /\ (work' = work \/ work' = IdleWork)
      BY <1>5 DEF ThirdPartyRestarts
    <2>6. RequestsOK'
      BY <2>5, <1>b, <1>d, <1>e
    <2>7. HoldsOrder'
      BY <2>5, <1>b DEF HoldsOrder
    <2>. QED
      BY <1>0, <2>4, <2>6, <2>7
  <1>6. CASE AddressFails
    <2>1. /\ AtProcess("courier", "NEW_CARD_RECEIVED") /\ processes' = processes
          /\ PassOver("courier") \/ scan' = [scan EXCEPT !["courier"] = IdleScan]
          /\ UNCHANGED <<client, work, report>>
      BY <1>6 DEF AddressFails
    <2>2. ListsOK'
      BY <2>1, PassedOver, RunEnded DEF Workers
    <2>. QED
      BY <1>0, <2>1, <2>2 DEF RequestsOK, HoldsOrder
  <1>. QED
    BY <1>0, <1>1, <1>2, <1>3, <1>4, <1>5, <1>6 DEF FaultStep

LEMMA TypeInvKept == TypeInv /\ [Next]_vars => TypeInv'
  <1>. SUFFICES ASSUME TypeInv, [Next]_vars PROVE TypeInv'
    OBVIOUS
  <1>1. CASE SwitchCrisis
    <2>1. TablesOK' /\ ListsOK' /\ RequestsOK' /\ HoldsOrder'
      BY <1>1, SameTables, SameLists DEF SwitchCrisis, TypeInv, TypeOK, thirdParty, RequestsOK, HoldsOrder
    <2>2. crisis' \in BOOLEAN /\ faults' = faults
      BY <1>1, Zenon DEF SwitchCrisis
    <2>. QED
      BY <2>1, <2>2 DEF TypeInv, TypeOK
  <1>2. CASE UNCHANGED vars
    <2>1. TablesOK' /\ ListsOK' /\ RequestsOK' /\ HoldsOrder'
      BY <1>2, SameTables, SameLists DEF vars, TypeInv, TypeOK, thirdParty, RequestsOK, HoldsOrder
    <2>. QED
      BY <1>2, <2>1 DEF vars, budget, TypeInv, TypeOK
  <1>. QED
    BY <1>1, <1>2, ClientType, WorkType, ManufacturerType, CourierType, ReportType, FaultType DEF Next

(* Type correctness: no step of any actor, failures included, corrupts the  *)
(* tables or lets a run of ManufactureScheduler or CourierScheduler leave   *)
(* the bounds of the list it iterates or remove what is not in it.          *)
THEOREM TypeCorrect == Spec => []TypeOK
  <1>1. TypeInv => TypeOK
    BY DEF TypeInv
  <1>. QED
    BY InitType, TypeInvKept, <1>1, PTL DEF Spec

----------------------------------------------------------------------------
(* The shipping id *)

(* The id in the hands of an actor was drawn before and is never drawn again *)
(* for another order, whatever was deleted in between.                       *)
Drawn ==
    /\ \A o \in orders : owner[o] # None
    /\ \A w \in Workers : \A i \in 1..Len(processes[w]) : owner[processes[w][i].order] # None
    /\ \A w \in Workers : report[w].pc # "none" => owner[report[w].order] # None
    /\ \A c \in Clients : client[c].pc = "counted" => client[c].account \in Accounts

(* updateOrder was executed for the report whose status comes next. *)
Stored ==
    \A w \in Workers :
        report[w].pc = "stored" /\ report[w].type = "CARD_SHIPPED" /\ report[w].order \in orders
        => report[w].order \in shipped

ShipInv == TypeInv /\ Drawn /\ Stored /\ ShippedHasShippingId

LEMMA WithoutNthElements ==
    ASSUME NEW S, NEW list \in Seq(S), NEW n \in 1..Len(list),
           NEW i \in 1..Len(WithoutNth(list, n))
    PROVE  \E j \in 1..Len(list) : WithoutNth(list, n)[i] = list[j]
  <1>. DEFINE a == SubSeq(list, 1, n - 1)
              b == SubSeq(list, n + 1, Len(list))
  <1>0. /\ n \in Int /\ n - 1 \in Int /\ n + 1 \in Int /\ Len(list) \in Int
        /\ \A k \in 1..(n - 1) : list[k] \in S
        /\ \A k \in (n + 1)..Len(list) : list[k] \in S
    OBVIOUS
  <1>1. /\ a \in Seq(S) /\ Len(a) = n - 1
        /\ \A k \in 1..(n - 1) : a[k] = list[k]
    BY <1>0, SubSeqProperties
  <1>2. /\ b \in Seq(S) /\ Len(b) = Len(list) - n
        /\ \A k \in 1..(Len(list) - n) : b[k] = list[n + k]
    BY <1>0, SubSeqProperties
  <1>. HIDE DEF a, b
  <1>3. /\ Len(a \o b) = Len(a) + Len(b)
        /\ \A k \in 1..(Len(a) + Len(b)) :
                (a \o b)[k] = IF k <= Len(a) THEN a[k] ELSE b[k - Len(a)]
    BY <1>1, <1>2, ConcatProperties, Zenon
  <1>4. WithoutNth(list, n) = a \o b
    BY Zenon DEF WithoutNth, a, b
  <1>5. i \in 1..(Len(list) - 1) /\ i \in 1..(Len(a) + Len(b))
    BY <1>1, <1>2, <1>3, <1>4
  <1>6. CASE i <= n - 1
    <2>1. (a \o b)[i] = list[i]
      BY <1>1, <1>3, <1>5, <1>6
    <2>. QED
      BY <1>4, <1>5, <2>1
  <1>7. CASE i > n - 1
    <2>1. (a \o b)[i] = list[i + 1]
      <3>1. i - Len(a) \in 1..(Len(list) - n) /\ n + (i - Len(a)) = i + 1 /\ ~(i <= Len(a))
        BY <1>1, <1>5, <1>7
      <3>. QED
        BY <1>2, <1>3, <1>5, <3>1
    <2>. QED
      BY <1>4, <1>5, <1>7, <2>1
  <1>. QED
    BY <1>5, <1>6, <1>7

(* No step takes the owner of a drawn id away. *)
LEMMA OwnerKept ==
    ASSUME TypeInv, Drawn, [Next]_vars
    PROVE  \A o \in OrderIds : owner[o] # None => owner'[o] # None
  <1>1. CASE \E c \in Clients : InsertNewOrder(c)
    <2>1. PICK c \in Clients : InsertNewOrder(c)
      BY <1>1
    <2>2. client[c].account # None
      BY <2>1, NoneIsNoValue DEF InsertNewOrder, Drawn
    <2>. QED
      BY <2>1, <2>2 DEF InsertNewOrder, TypeInv, TypeOK, TablesOK
  <1>2. CASE ~ \E c \in Clients : InsertNewOrder(c)
    <2>1. owner' = owner
      BY <1>2 DEF Next, vars, tables, ClientStep, CountOrders, InsertOrderCreated, DeleteStatuses,
         DeleteCards, DeleteOrders, WorkStep, WorkList, IssueCreditCard, RecordCardOrdered,
         ManufacturerStep, CourierStep, StartScan, FinishScan, RemoveRetired, AbortScan,
         ManufactureFails, ManufactureBlocked, ManufactureSucceeds, HandToCourier, SetAndReport,
         ShipCard, NoShippingAddress, DeliverCard, RetireDelivered, ReportStep, RejectStatus,
         AcceptStatus, StoreDetails, InsertStatus, SwitchCrisis, FaultStep, ClientRequestFails,
         ReportFails, WorkFails, AddressFails, OrderServiceRestarts, ThirdPartyRestarts
    <2>. QED
      BY <2>1
  <1>. QED
    BY <1>1, <1>2

(* A list holds the orders it held before, those of another list, or one    *)
(* whose row is in the table: there is no other source of processes.        *)
Known(order) ==
    \/ order \in orders
    \/ \E v \in Workers : \E j \in 1..Len(processes[v]) : order = processes[v][j].order

LEMMA ProcessesKnown ==
    ASSUME TypeInv, [Next]_vars
    PROVE  \A w \in Workers : \A i \in 1..Len(processes'[w]) : Known(processes'[w][i].order)
  <1>. USE DEF TypeInv, TypeOK
  <1>. /\ processes \in [Workers -> Seq(Process)]
       /\ \A w \in Workers : processes[w] \in Seq(Process) /\ Len(processes[w]) \in Nat
       /\ "manufacturer" \in Workers /\ "courier" \in Workers
    BY DEF ListsOK, Workers
  <1>a. ASSUME NEW w \in Workers, NEW p \in Process, Known(p.order),
               processes' = [processes EXCEPT ![w] = Append(@, p)]
        PROVE  \A v \in Workers : \A i \in 1..Len(processes'[v]) : Known(processes'[v][i].order)
    <2>. SUFFICES ASSUME NEW v \in Workers, NEW i \in 1..Len(processes'[v])
                  PROVE  Known(processes'[v][i].order)
      OBVIOUS
    <2>1. CASE v # w \/ i <= Len(processes[v])
      <3>1. i \in 1..Len(processes[v]) /\ processes'[v][i] = processes[v][i]
        BY <1>a, <2>1
      <3>. QED
        BY <3>1 DEF Known
    <2>2. CASE v = w /\ i > Len(processes[v])
      <3>1. processes'[v][i] = p
        BY <1>a, <2>2
      <3>. QED
        BY <1>a, <3>1
    <2>. QED
      BY <2>1, <2>2
  <1>b. ASSUME NEW w \in Workers, NEW old, NEW status, NEW type, AtProcess(w, old),
               SetAndReport(w, status, type)
        PROVE  \A v \in Workers : \A i \in 1..Len(processes'[v]) : Known(processes'[v][i].order)
    <2>. DEFINE list == [processes[w] EXCEPT ![scan[w].at] = [Current(w) EXCEPT !.status = status]]
    <2>1. processes' = [processes EXCEPT ![w] = list]
      BY <1>b DEF SetAndReport, Current, ListsOK
    <2>2. /\ scan[w].at \in 1..Len(processes[w]) /\ Current(w) \in Process
          /\ processes[w] \in Seq(Process)
      BY <1>b, AtPosition
    <2>3. /\ Len(list) = Len(processes[w])
          /\ \A i \in 1..Len(processes[w]) : list[i].order = processes[w][i].order
      BY <2>2 DEF Process, Current
    <2>. HIDE DEF list
    <2>4. \A v \in Workers : /\ Len(processes'[v]) = Len(processes[v])
                             /\ \A i \in 1..Len(processes[v]) :
                                    processes'[v][i].order = processes[v][i].order
      BY <2>1, <2>3
    <2>. QED
      BY <2>4 DEF Known
  <1>1. CASE \E o \in OrderIds : IssueCreditCard(o)
    <2>1. PICK o \in OrderIds : IssueCreditCard(o)
      BY <1>1
    <2>. DEFINE p == [order |-> o, status |-> "ISSUING"]
    <2>2. CASE UNCHANGED processes
      BY <2>2 DEF Known
    <2>3. CASE processes' = [processes EXCEPT !["manufacturer"] = Append(@, p)] /\ o \in orders
      <3>1. p \in Process /\ Known(p.order)
        BY <2>3 DEF Process, ManufactureStatus, Known
      <3>. HIDE DEF p
      <3>. QED
        BY <2>3, <3>1, <1>a
    <2>. QED
      BY <2>1, <2>2, <2>3 DEF IssueCreditCard
  <1>2. CASE \E w \in Workers : RemoveRetired(w)
    <2>1. PICK w \in Workers : RemoveRetired(w)
      BY <1>2
    <2>2. PICK n \in scan[w].done : processes' = [processes EXCEPT ![w] = WithoutNth(@, n)]
      BY <2>1 DEF RemoveRetired
    <2>3. n \in 1..Len(processes[w]) /\ processes[w] \in Seq(Process)
      BY DEF ListsOK, WithinList
    <2>4. \A i \in 1..Len(WithoutNth(processes[w], n)) :
            \E j \in 1..Len(processes[w]) : WithoutNth(processes[w], n)[i] = processes[w][j]
      BY <2>3, WithoutNthElements
    <2>5. \A v \in Workers : processes'[v] = IF v = w THEN WithoutNth(processes[w], n) ELSE processes[v]
      BY <2>2
    <2>6. \A v \in Workers : \A i \in 1..Len(processes'[v]) :
            \E j \in 1..Len(processes[v]) : processes'[v][i] = processes[v][j]
      BY <2>4, <2>5
    <2>. QED
      BY <2>6 DEF Known
  <1>3. CASE ManufactureFails \/ ManufactureSucceeds
    BY <1>3, <1>b DEF ManufactureFails, ManufactureSucceeds
  <1>4. CASE ShipCard \/ DeliverCard
    BY <1>4, <1>b DEF ShipCard, DeliverCard
  <1>5. CASE HandToCourier
    <2>. DEFINE p == [order |-> Current("manufacturer").order, status |-> "NEW_CARD_RECEIVED"]
    <2>1. scan["manufacturer"].at \in 1..Len(processes["manufacturer"])
          /\ Current("manufacturer") \in Process
      BY <1>5, AtPosition DEF HandToCourier
    <2>2. p \in Process /\ Known(p.order)
      BY <2>1 DEF Process, CourierStatus, Known, Current
    <2>3. processes' = [processes EXCEPT !["courier"] = Append(@, p)]
      BY <1>5 DEF HandToCourier
    <2>. HIDE DEF p
    <2>. QED
      BY <2>2, <2>3, <1>a
  <1>6. CASE ThirdPartyRestarts
    <2>1. \A w \in Workers : Len(processes'[w]) = 0
      BY <1>6 DEF ThirdPartyRestarts
    <2>. QED
      BY <2>1
  <1>7. CASE processes' = processes
    BY <1>7 DEF Known
  <1>8. \/ \E o \in OrderIds : IssueCreditCard(o)
        \/ \E w \in Workers : RemoveRetired(w)
        \/ ManufactureFails \/ ManufactureSucceeds \/ ShipCard \/ DeliverCard \/ HandToCourier
        \/ ThirdPartyRestarts
        \/ processes' = processes
    BY DEF Next, vars, thirdParty, ClientStep, CountOrders, InsertNewOrder, InsertOrderCreated,
       DeleteStatuses, DeleteCards, DeleteOrders, WorkStep, WorkList, RecordCardOrdered,
       ManufacturerStep, CourierStep, StartScan, FinishScan, AbortScan, ManufactureBlocked,
       NoShippingAddress, RetireDelivered, ReportStep, RejectStatus, AcceptStatus, StoreDetails,
       InsertStatus, SwitchCrisis, FaultStep, ClientRequestFails, ReportFails, WorkFails, AddressFails,
       OrderServiceRestarts
  <1>. QED
    BY <1>1, <1>2, <1>3, <1>4, <1>5, <1>6, <1>7, <1>8

(* A report is about a known order from the moment it is sent. *)
LEMMA ReportsKnown ==
    ASSUME TypeInv, [Next]_vars, NEW w \in Workers, report'[w].pc # "none"
    PROVE  \/ Known(report'[w].order)
           \/ report[w].pc # "none" /\ report'[w].order = report[w].order
  <1>. USE DEF TypeInv, TypeOK
  <1>. report \in [Workers -> [pc : {"none", "sent", "accepted", "stored"},
                              type : StatusType, order : OrderIds \union {None}]]
       /\ NoReport.pc = "none" /\ "manufacturer" \in Workers /\ "courier" \in Workers
    BY DEF RequestsOK, NoReport, Workers
  <1>1. ASSUME NEW v \in Workers, NEW old, NEW status, NEW type, AtProcess(v, old),
               SetAndReport(v, status, type)
        PROVE  \/ Known(report'[w].order)
               \/ report[w].pc # "none" /\ report'[w].order = report[w].order
    <2>1. Known(Current(v).order)
      BY <1>1, AtPosition DEF Known, Current
    <2>2. report' = [report EXCEPT ![v] = [pc |-> "sent", type |-> type, order |-> Current(v).order]]
      BY <1>1 DEF SetAndReport
    <2>3. report'[w].order = IF w = v THEN Current(v).order ELSE report[w].order
      BY <2>2
    <2>4. w # v => report'[w].pc = report[w].pc
      BY <2>2
    <2>. QED
      BY <2>1, <2>3, <2>4
  <1>2. CASE ManufactureFails \/ ManufactureSucceeds
    BY <1>2, <1>1 DEF ManufactureFails, ManufactureSucceeds
  <1>3. CASE ShipCard \/ DeliverCard
    BY <1>3, <1>1 DEF ShipCard, DeliverCard
  <1>4. CASE \E v \in Workers : AcceptStatus(v)
    BY <1>4 DEF AcceptStatus
  <1>5. CASE \E v \in Workers : RejectStatus(v) \/ InsertStatus(v) \/ ReportFails(v)
    BY <1>5 DEF RejectStatus, InsertStatus, ReportFails, Answer
  <1>6. CASE \E v \in Workers : StoreDetails(v)
    BY <1>6 DEF StoreDetails, Answer
  <1>7. CASE OrderServiceRestarts
    BY <1>7 DEF OrderServiceRestarts
  <1>8. CASE report' = report
    BY <1>8
  <1>9. \/ ManufactureFails \/ ManufactureSucceeds \/ ShipCard \/ DeliverCard
        \/ \E v \in Workers : AcceptStatus(v)
        \/ \E v \in Workers : RejectStatus(v) \/ InsertStatus(v) \/ ReportFails(v)
        \/ \E v \in Workers : StoreDetails(v)
        \/ OrderServiceRestarts \/ report' = report
    BY DEF Next, vars, ClientStep, CountOrders, InsertNewOrder, InsertOrderCreated,
       DeleteStatuses, DeleteCards, DeleteOrders, WorkStep, WorkList, IssueCreditCard,
       RecordCardOrdered, ManufacturerStep, CourierStep, StartScan, FinishScan, RemoveRetired,
       AbortScan, ManufactureBlocked, HandToCourier, NoShippingAddress, RetireDelivered,
       ReportStep, SwitchCrisis, FaultStep, ClientRequestFails, WorkFails, AddressFails, ThirdPartyRestarts
  <1>. QED
    BY <1>2, <1>3, <1>4, <1>5, <1>6, <1>7, <1>8, <1>9

(* How the orders table and the requests of clients change. *)
LEMMA OrdersKnown ==
    ASSUME TypeInv, Drawn, [Next]_vars
    PROVE  /\ \A o \in orders' : owner'[o] # None
           /\ \A c \in Clients : client'[c].pc = "counted" => client'[c].account \in Accounts
  <1>. USE DEF TypeInv, TypeOK
  <1>. client \in [Clients -> [pc : ClientPcs, account : Accounts \union {None},
                              order : OrderIds \union {None}]]
       /\ IdleClient.pc = "idle"
    BY DEF RequestsOK, IdleClient
  <1>1. \A o \in orders : owner'[o] # None
    BY OwnerKept DEF Drawn, TablesOK
  <1>2. CASE \E c \in Clients : InsertNewOrder(c)
    <2>1. PICK c \in Clients : InsertNewOrder(c)
      BY <1>2
    <2>2. client[c].account # None /\ FreshGuid \in OrderIds
      BY <2>1, NoneIsNoValue DEF InsertNewOrder, Drawn, FreshGuid
    <2>3. owner'[FreshGuid] # None
      BY <2>1, <2>2 DEF InsertNewOrder, TablesOK
    <2>. QED
      BY <1>1, <2>1, <2>3 DEF InsertNewOrder, Drawn
  <1>3. CASE \E c \in Clients, a \in Accounts : CountOrders(c, a)
    BY <1>1, <1>3 DEF CountOrders, tables, Drawn
  <1>4. CASE \E c \in Clients : DeleteOrders(c)
    BY <1>1, <1>4 DEF DeleteOrders, Drawn
  <1>5. CASE /\ orders' = orders
             /\ \/ client' = client
                \/ client' = [c \in Clients |-> IdleClient]
                \/ \E c \in Clients : client' = [client EXCEPT ![c] = IdleClient]
    BY <1>1, <1>5 DEF Drawn
  <1>6. CASE \E c \in Clients : DeleteCards(c) \/ \E a \in Deletable : DeleteStatuses(c, a)
    BY <1>1, <1>6 DEF DeleteCards, DeleteStatuses, Drawn
  <1>. QED
    BY <1>2, <1>3, <1>4, <1>5, <1>6
       DEF Next, vars, tables, ClientStep, InsertOrderCreated,
       WorkStep, WorkList, IssueCreditCard, RecordCardOrdered,
       ManufacturerStep, CourierStep, StartScan, FinishScan, RemoveRetired, AbortScan,
       ManufactureFails, ManufactureSucceeds, ManufactureBlocked, HandToCourier, SetAndReport,
       ShipCard, NoShippingAddress, DeliverCard, RetireDelivered,
       ReportStep, RejectStatus, AcceptStatus, StoreDetails, InsertStatus, SwitchCrisis,
       FaultStep, ClientRequestFails, ReportFails, WorkFails, AddressFails, OrderServiceRestarts,
       ThirdPartyRestarts

LEMMA DrawnKept ==
    ASSUME TypeInv, Drawn, [Next]_vars, TypeInv'
    PROVE  Drawn'
  <1>1. \A order \in OrderIds : Known(order) => owner'[order] # None
    BY OwnerKept DEF Known, Drawn
  <1>2. \A w \in Workers : \A i \in 1..Len(processes'[w]) : owner'[processes'[w][i].order] # None
    <2>1. \A w \in Workers : \A i \in 1..Len(processes'[w]) : processes'[w][i] \in Process
      BY DEF TypeInv, TypeOK, ListsOK
    <2>2. \A w \in Workers : \A i \in 1..Len(processes'[w]) : processes'[w][i].order \in OrderIds
      BY <2>1 DEF Process
    <2>. QED
      BY <1>1, <2>2, ProcessesKnown
  <1>3. ASSUME NEW w \in Workers, report'[w].pc # "none"
        PROVE  owner'[report'[w].order] # None
    <2>1. report'[w].order \in OrderIds
      BY <1>3 DEF TypeInv, HoldsOrder
    <2>. QED
      BY <1>1, <1>3, <2>1, ReportsKnown, OwnerKept DEF Drawn
  <1>. QED
    BY <1>2, <1>3, OrdersKnown DEF Drawn

(* Between updateOrder and the insert of CARD_SHIPPED nothing takes the      *)
(* ShippingId away but the delete of the order itself.                       *)
LEMMA StoredKept ==
    ASSUME TypeInv, Drawn, Stored, [Next]_vars
    PROVE  Stored'
  <1>. USE DEF TypeInv, TypeOK
  <1>. report \in [Workers -> [pc : {"none", "sent", "accepted", "stored"},
                              type : StatusType, order : OrderIds \union {None}]]
       /\ NoReport.pc = "none"
    BY DEF RequestsOK, NoReport
  <1>1. CASE \E c \in Clients : InsertNewOrder(c)
    <2>1. owner[FreshGuid] = None /\ orders' = orders \union {FreshGuid}
          /\ report' = report /\ shipped' = shipped
      BY <1>1 DEF InsertNewOrder, FreshGuid
    <2>2. \A w \in Workers : report[w].pc = "stored" => report[w].order # FreshGuid
      BY <2>1 DEF Drawn
    <2>. QED
      BY <2>1, <2>2 DEF Stored
  <1>2. CASE \E c \in Clients : DeleteOrders(c)
    BY <1>2 DEF DeleteOrders, Stored
  <1>3. CASE \E v \in Workers : StoreDetails(v)
    BY <1>3 DEF StoreDetails, Answer, Stored
  <1>4. CASE \E v \in Workers : AcceptStatus(v)
    BY <1>4 DEF AcceptStatus, Stored, tables
  <1>5. CASE \E v \in Workers : RejectStatus(v) \/ InsertStatus(v) \/ ReportFails(v)
    BY <1>5 DEF RejectStatus, InsertStatus, ReportFails, Answer, Stored, tables
  <1>6. CASE ManufactureFails \/ ManufactureSucceeds \/ ShipCard \/ DeliverCard
    <2>1. \E v \in Workers : \E status, type : SetAndReport(v, status, type)
      BY <1>6 DEF ManufactureFails, ManufactureSucceeds, ShipCard, DeliverCard, Workers
    <2>. QED
      BY <2>1 DEF SetAndReport, Stored, tables
  <1>7. CASE OrderServiceRestarts
    BY <1>7 DEF OrderServiceRestarts, Stored
  <1>8. CASE orders' = orders /\ report' = report /\ shipped' = shipped
    BY <1>8 DEF Stored
  <1>. QED
    BY <1>1, <1>2, <1>3, <1>4, <1>5, <1>6, <1>7, <1>8
       DEF Next, vars, tables, ClientStep, CountOrders, InsertOrderCreated, DeleteStatuses,
       DeleteCards, WorkStep, WorkList, IssueCreditCard, RecordCardOrdered, ManufacturerStep,
       CourierStep, StartScan, FinishScan, RemoveRetired, AbortScan, ManufactureBlocked,
       HandToCourier, NoShippingAddress, RetireDelivered, ReportStep, SwitchCrisis, FaultStep,
       ClientRequestFails, WorkFails, AddressFails, ThirdPartyRestarts

LEMMA ShippedKept ==
    ASSUME TypeInv, Stored, ShippedHasShippingId, [Next]_vars
    PROVE  ShippedHasShippingId'
  <1>. USE DEF TypeInv, TypeOK
  <1>0. history \in [OrderIds -> Seq(StatusType)] /\ shipped \subseteq OrderIds
    BY DEF TablesOK
  <1>a. ASSUME NEW o \in OrderIds, NEW type, InsertNewStatus(o, type), shipped' = shipped,
               type = "CARD_SHIPPED" => o \in shipped
        PROVE  ShippedHasShippingId'
    <2>. SUFFICES ASSUME NEW p \in OrderIds, Recorded(p, "CARD_SHIPPED")' PROVE p \in shipped
      BY <1>a DEF ShippedHasShippingId
    <2>1. CASE p = o /\ type = "CARD_SHIPPED"
      BY <1>a, <2>1
    <2>2. CASE p # o \/ type # "CARD_SHIPPED"
      <3>1. PICK i \in 1..Len(history'[p]) : history'[p][i] = "CARD_SHIPPED"
        BY DEF Recorded
      <3>2. i \in 1..Len(history[p]) /\ history[p][i] = "CARD_SHIPPED"
        BY <1>0, <1>a, <2>2, <3>1 DEF InsertNewStatus
      <3>. QED
        BY <3>2 DEF Recorded, ShippedHasShippingId
    <2>. QED
      BY <2>1, <2>2
  <1>1. CASE \E c \in Clients : InsertOrderCreated(c)
    <2>1. PICK c \in Clients : InsertOrderCreated(c)
      BY <1>1
    <2>2. client[c].order \in OrderIds
      BY <2>1 DEF InsertOrderCreated, HoldsOrder
    <2>3. CASE UNCHANGED history
      BY <2>1, <2>3 DEF InsertOrderCreated, ShippedHasShippingId, Recorded
    <2>. QED
      BY <2>1, <2>2, <2>3, <1>a DEF InsertOrderCreated
  <1>2. CASE \E c \in Clients, a \in Deletable : DeleteStatuses(c, a)
    <2>1. PICK a : history' = [o \in OrderIds |-> IF o \in OrdersOf(a) THEN << >> ELSE history[o]]
                   /\ shipped' = shipped
      BY <1>2 DEF DeleteStatuses
    <2>2. \A o \in OrderIds : history'[o] = history[o] \/ Len(history'[o]) = 0
      BY <2>1
    <2>. QED
      BY <2>1, <2>2 DEF ShippedHasShippingId, Recorded
  <1>3. CASE \E c \in Clients : DeleteOrders(c)
    <2>1. PICK c \in Clients : DeleteOrders(c)
      BY <1>3
    <2>2. history' = history
      BY <2>1 DEF DeleteOrders
    <2>3. \A o \in OrderIds : o \in shipped => o \in shipped' \/ Len(history[o]) = 0
      BY <2>1 DEF DeleteOrders
    <2>. QED
      BY <2>2, <2>3 DEF ShippedHasShippingId, Recorded
  <1>4. CASE RecordCardOrdered
    <2>1. CASE UNCHANGED history
      BY <1>4, <2>1 DEF RecordCardOrdered, ShippedHasShippingId, Recorded
    <2>. QED
      BY <1>4, <2>1, <1>a DEF RecordCardOrdered, HoldsOrder
  <1>5. CASE \E w \in Workers : InsertStatus(w)
    <2>1. PICK w \in Workers : InsertStatus(w)
      BY <1>5
    <2>2. report[w].order \in OrderIds
      BY <2>1 DEF InsertStatus, HoldsOrder, HasDetails
    <2>3. CASE UNCHANGED history
      BY <2>1, <2>3 DEF InsertStatus, ShippedHasShippingId, Recorded
    <2>4. CASE InsertNewStatus(report[w].order, report[w].type) /\ report[w].order \in orders
      <3>1. report[w].type = "CARD_SHIPPED" => report[w].order \in shipped
        BY <2>1, <2>4 DEF InsertStatus, HasDetails, Stored
      <3>. QED
        BY <2>1, <2>2, <2>4, <3>1, <1>a DEF InsertStatus
    <2>. QED
      BY <2>1, <2>3, <2>4 DEF InsertStatus
  <1>6. CASE \E w \in Workers : StoreDetails(w)
    BY <1>6 DEF StoreDetails, ShippedHasShippingId, Recorded
  <1>7. CASE history' = history /\ shipped' = shipped
    BY <1>7 DEF ShippedHasShippingId, Recorded
  <1>. QED
    BY <1>1, <1>2, <1>3, <1>4, <1>5, <1>6, <1>7
       DEF Next, vars, tables, ClientStep, CountOrders, InsertNewOrder, DeleteCards, WorkStep,
       WorkList, IssueCreditCard, ManufacturerStep, CourierStep, StartScan, FinishScan,
       RemoveRetired, AbortScan, ManufactureFails, ManufactureSucceeds, ManufactureBlocked,
       HandToCourier, SetAndReport, ShipCard, NoShippingAddress, DeliverCard, RetireDelivered,
       ReportStep, RejectStatus, AcceptStatus, SwitchCrisis, FaultStep, ClientRequestFails,
       ReportFails, WorkFails, AddressFails, OrderServiceRestarts, ThirdPartyRestarts

(* An order that says CARD_SHIPPED has its ShippingId, for any number of     *)
(* orders, clients and failures: handleNewStatus executes updateOrder before *)
(* insertNewStatus, and a deleted order takes its statuses with it.          *)
THEOREM ShippedIsShipped == Spec => []ShippedHasShippingId
  <1>1. Init => ShipInv
    <2>. SUFFICES ASSUME Init PROVE Drawn /\ Stored /\ ShippedHasShippingId
      BY InitType DEF ShipInv
    <2>1. Drawn
      BY DEF Init, Drawn, NoReport, IdleClient
    <2>2. Stored
      BY DEF Init, Stored, NoReport
    <2>3. \A o \in OrderIds : Len(history[o]) = 0
      BY DEF Init
    <2>4. ShippedHasShippingId
      BY <2>3 DEF ShippedHasShippingId, Recorded
    <2>. QED
      BY <2>1, <2>2, <2>4
  <1>2. ShipInv /\ [Next]_vars => ShipInv'
    BY TypeInvKept, DrawnKept, StoredKept, ShippedKept DEF ShipInv
  <1>3. ShipInv => ShippedHasShippingId
    BY DEF ShipInv
  <1>. QED
    BY <1>1, <1>2, <1>3, PTL DEF Spec


----------------------------------------------------------------------------
(* The steps that change a table, a request, a list or a report *)

Idles == UNCHANGED <<tables, client, work, processes, report>>

Manufactures == ManufactureFails \/ ManufactureSucceeds
Couriers == ShipCard \/ DeliverCard

LEMMA StepCases ==
    ASSUME [Next]_vars
    PROVE  \/ \E c \in Clients : ClientStep(c)
           \/ WorkStep
           \/ Manufactures \/ Couriers \/ HandToCourier
           \/ \E w \in Workers : RemoveRetired(w)
           \/ \E w \in Workers : ReportStep(w)
           \/ FaultStep
           \/ Idles
  BY DEF Next, vars, thirdParty, ManufacturerStep, CourierStep, StartScan, FinishScan, AbortScan,
     ManufactureBlocked, NoShippingAddress, RetireDelivered, SwitchCrisis, Workers,
     Idles, Manufactures, Couriers, tables

(* The types of the columns and requests, one by one. *)
LEMMA Shapes ==
    ASSUME TypeInv
    PROVE  /\ history \in [OrderIds -> Seq(StatusType)]
           /\ cards \in [OrderIds -> Nat]
           /\ owner \in [OrderIds -> Accounts \union {None}]
           /\ orders \subseteq OrderIds
           /\ client \in [Clients -> [pc : ClientPcs, account : Accounts \union {None},
                                      order : OrderIds \union {None}]]
           /\ work \in [pc : {"idle", "listed", "issued"}, todo : SUBSET OrderIds,
                        order : OrderIds \union {None}]
           /\ report \in [Workers -> [pc : {"none", "sent", "accepted", "stored"},
                                      type : StatusType, order : OrderIds \union {None}]]
  BY DEF TypeInv, TypeOK, TablesOK, RequestsOK

LEMMA Idle ==
    /\ IdleClient.pc = "idle" /\ IdleClient.order = None
    /\ IdleWork.pc = "idle" /\ IdleWork.todo = {}
    /\ NoReport.pc = "none"
    /\ "manufacturer" \in Workers /\ "courier" \in Workers
  BY DEF IdleClient, IdleWork, NoReport, Workers

(* The owner of an order is written once, with its row. *)
LEMMA OwnerStep ==
    ASSUME TypeInv, Drawn, [Next]_vars
    PROVE  /\ \A o \in OrderIds : owner'[o] = owner[o] \/ (owner[o] = None /\ o \notin orders)
           /\ \A o \in OrderIds : owner'[o] \notin Deletable => owner[o] \notin Deletable
  <1>1. CASE \E c \in Clients : InsertNewOrder(c)
    <2>1. PICK c \in Clients : owner' = [owner EXCEPT ![FreshGuid] = client[c].account]
      BY <1>1 DEF InsertNewOrder
    <2>2. FreshGuid \in OrderIds /\ owner[FreshGuid] = None
      BY <1>1 DEF InsertNewOrder, FreshGuid
    <2>3. \A o \in OrderIds : owner'[o] = owner[o] \/ (owner[o] = None /\ o \notin orders)
      BY <2>1, <2>2, Shapes DEF Drawn
    <2>. QED
      BY <2>3, NoneIsNoValue, DeletableAreAccounts
  <1>2. CASE ~ \E c \in Clients : InsertNewOrder(c)
    <2>1. owner' = owner
      BY <1>2, StepCases DEF tables, ClientStep, CountOrders, InsertOrderCreated, DeleteStatuses,
         DeleteCards, DeleteOrders, WorkStep, WorkList, IssueCreditCard, RecordCardOrdered,
         RemoveRetired, Manufactures, Couriers, Idles,
         ManufactureFails, ManufactureSucceeds, HandToCourier, SetAndReport,
         ShipCard, DeliverCard, ReportStep, RejectStatus,
         AcceptStatus, StoreDetails, InsertStatus, FaultStep, ClientRequestFails,
         ReportFails, WorkFails, AddressFails, OrderServiceRestarts, ThirdPartyRestarts
    <2>. QED
      BY <2>1
  <1>. QED
    BY <1>1, <1>2

(* Who is about to write a status, of which order. *)
Creates(c, o) == client[c].pc = "inserted" /\ client[c].order = o
Commissions(o) == work.pc = "issued" /\ work.order = o
Records(w, o) ==
    /\ report[w].order = o
    /\ report[w].pc = IF HasDetails(report[w].type) THEN "stored" ELSE "accepted"

(* How the history of an order changes: nothing but one status at the end, by *)
(* one of three writers, unless the order is of an account that deletes it.   *)
LEMMA HistoryStep ==
    ASSUME TypeInv, [Next]_vars, NEW o \in OrderIds
    PROVE  \/ history'[o] = history[o]
           \/ owner[o] \in Deletable /\ Len(history'[o]) = 0 /\ owner' = owner
           \/ /\ o \in orders /\ owner' = owner
              /\ \/ \E c \in Clients : /\ Creates(c, o) /\ client' = [client EXCEPT ![c] = IdleClient]
                                       /\ history'[o] = Append(history[o], "ORDER_CREATED")
                 \/ /\ Commissions(o) /\ (work'.todo = {} \/ work'.todo = work.todo \ {o})
                    /\ work'.pc # "issued" /\ report' = report /\ client' = client
                    /\ history'[o] = Append(history[o], "CARD_ORDERED")
                 \/ \E w \in Workers : /\ Records(w, o) /\ report' = [report EXCEPT ![w] = NoReport]
                                       /\ work' = work /\ client' = client
                                       /\ history'[o] = Append(history[o], report[w].type)
  <1>. history \in [OrderIds -> Seq(StatusType)]
    BY Shapes
  <1>1. CASE \E c \in Clients : InsertOrderCreated(c)
    <2>1. PICK c \in Clients : InsertOrderCreated(c)
      BY <1>1
    <2>. DEFINE p == client[c].order
    <2>2. CASE UNCHANGED history
      BY <2>2
    <2>3. CASE p \in orders /\ InsertNewStatus(p, "ORDER_CREATED")
      BY <2>1, <2>3, Shapes DEF InsertOrderCreated, InsertNewStatus, Creates
    <2>. QED
      BY <2>1, <2>2, <2>3 DEF InsertOrderCreated
  <1>2. CASE \E c \in Clients, a \in Deletable : DeleteStatuses(c, a)
    <2>1. PICK a \in Deletable : /\ history' = [x \in OrderIds |-> IF x \in OrdersOf(a) THEN << >> ELSE history[x]]
                                 /\ owner' = owner
      BY <1>2 DEF DeleteStatuses
    <2>. QED
      BY <2>1 DEF OrdersOf
  <1>3. CASE RecordCardOrdered
    <2>1. CASE UNCHANGED history
      BY <2>1
    <2>2. CASE work.order \in orders /\ InsertNewStatus(work.order, "CARD_ORDERED")
      <3>1. /\ work'.pc # "issued" /\ (work'.todo = {} \/ work'.todo = work.todo \ {work.order})
            /\ report' = report /\ client' = client /\ owner' = owner
        BY <1>3, <2>2, Idle DEF RecordCardOrdered, thirdParty
      <3>. QED
        BY <1>3, <2>2, <3>1, Shapes DEF RecordCardOrdered, InsertNewStatus, Commissions
    <2>. QED
      BY <1>3, <2>1, <2>2 DEF RecordCardOrdered
  <1>4. CASE \E w \in Workers : InsertStatus(w)
    <2>1. PICK w \in Workers : InsertStatus(w)
      BY <1>4
    <2>. DEFINE p == report[w].order
    <2>2. CASE UNCHANGED history
      BY <2>2
    <2>3. CASE p \in orders /\ InsertNewStatus(p, report[w].type)
      <3>1. report' = [report EXCEPT ![w] = NoReport] /\ work' = work /\ client' = client /\ owner' = owner
        BY <2>1 DEF InsertStatus, Answer
      <3>2. history'[o] = IF o = p THEN Append(history[o], report[w].type) ELSE history[o]
        BY <2>3, Shapes DEF InsertNewStatus
      <3>. QED
        BY <2>1, <2>3, <3>1, <3>2 DEF InsertStatus, Records
    <2>. QED
      BY <2>1, <2>2, <2>3 DEF InsertStatus
  <1>5. CASE history' = history
    BY <1>5
  <1>. QED
    BY <1>1, <1>2, <1>3, <1>4, <1>5, StepCases DEF tables, ClientStep, CountOrders, InsertNewOrder,
       DeleteCards, DeleteOrders, WorkStep, WorkList, IssueCreditCard, RemoveRetired, Manufactures,
       Couriers, Idles, ManufactureFails, ManufactureSucceeds, HandToCourier, SetAndReport,
       ShipCard, DeliverCard, ReportStep, RejectStatus, AcceptStatus, StoreDetails, FaultStep,
       ClientRequestFails, ReportFails, WorkFails, AddressFails, OrderServiceRestarts, ThirdPartyRestarts

(* The cards of an order: one more for each report that is stored. *)
LEMMA CardsStep ==
    ASSUME TypeInv, [Next]_vars, NEW o \in OrderIds
    PROVE  \/ cards'[o] = cards[o]
           \/ /\ cards'[o] = 0 /\ owner' = owner
              /\ \E c \in Clients : client[c].pc = "unstatused" /\ client[c].account = owner[o]
           \/ /\ cards'[o] = cards[o] + 1 /\ o \in orders
              /\ \E w \in Workers : /\ report[w].pc = "accepted" /\ report[w].order = o
                                    /\ report[w].type = "CARD_CREATED"
                                    /\ report' = [report EXCEPT ![w].pc = "stored"]
  <1>1. CASE \E c \in Clients : DeleteCards(c)
    BY <1>1, Shapes DEF DeleteCards, OrdersOf
  <1>2. CASE \E w \in Workers : StoreDetails(w)
    <2>1. PICK w \in Workers : StoreDetails(w)
      BY <1>2
    <2>2. CASE cards' = cards
      BY <2>2
    <2>3. CASE /\ report[w].type = "CARD_CREATED" /\ report[w].order \in orders
               /\ cards' = [cards EXCEPT ![report[w].order] = @ + 1]
               /\ report' = [report EXCEPT ![w].pc = "stored"]
      BY <2>1, <2>3, Shapes DEF StoreDetails
    <2>. QED
      BY <2>1, <2>2, <2>3 DEF StoreDetails
  <1>3. CASE cards' = cards
    BY <1>3
  <1>. QED
    BY <1>1, <1>2, <1>3, StepCases DEF tables, ClientStep, CountOrders, InsertNewOrder,
       InsertOrderCreated, DeleteStatuses, DeleteOrders, WorkStep, WorkList, IssueCreditCard,
       RecordCardOrdered, RemoveRetired, Manufactures,
       Couriers, Idles, ManufactureFails, ManufactureSucceeds, HandToCourier, SetAndReport,
       ShipCard, DeliverCard, ReportStep, RejectStatus, AcceptStatus, InsertStatus, FaultStep,
       ClientRequestFails, ReportFails, WorkFails, AddressFails, OrderServiceRestarts, ThirdPartyRestarts

(* The requests of clients: what one of them holds when it has the pc. *)
LEMMA ClientsStep ==
    ASSUME TypeInv, [Next]_vars, NEW c \in Clients
    PROVE  \/ client'[c] = client[c]
           \/ client'[c].pc \in {"idle", "counted"}
           \/ client'[c].pc = "unstatused" /\ client'[c].account \in Deletable
           \/ client'[c].pc = "uncarded" /\ client[c].pc = "unstatused" /\ client'[c].account = client[c].account
           \/ InsertNewOrder(c)
  <1>. client \in [Clients -> [pc : ClientPcs, account : Accounts \union {None},
                              order : OrderIds \union {None}]]
    BY Shapes
  <1>1. CASE \E d \in Clients : ClientStep(d)
    <2>1. PICK d \in Clients : ClientStep(d)
      BY <1>1
    <2>2. CASE \E a \in Accounts : CountOrders(d, a)
      BY <2>2 DEF CountOrders
    <2>3. CASE \E a \in Deletable : DeleteStatuses(d, a)
      BY <2>3 DEF DeleteStatuses
    <2>4. CASE InsertOrderCreated(d) \/ DeleteOrders(d)
      BY <2>4, Idle DEF InsertOrderCreated, DeleteOrders
    <2>5. CASE DeleteCards(d)
      BY <2>5, Idle DEF DeleteCards
    <2>6. CASE InsertNewOrder(d)
      BY <2>6 DEF InsertNewOrder
    <2>. QED
      BY <2>1, <2>2, <2>3, <2>4, <2>5, <2>6 DEF ClientStep
  <1>2. CASE FaultStep
    BY <1>2, Idle DEF FaultStep, ClientRequestFails, ReportFails, WorkFails, AddressFails, OrderServiceRestarts, ThirdPartyRestarts
  <1>3. CASE client' = client
    BY <1>3
  <1>. QED
    BY <1>1, <1>2, <1>3, StepCases DEF WorkStep, WorkList, IssueCreditCard, RecordCardOrdered,
       RemoveRetired, Manufactures, Couriers, Idles, ManufactureFails, ManufactureSucceeds,
       HandToCourier, SetAndReport, ShipCard, DeliverCard, ReportStep, RejectStatus, AcceptStatus,
       StoreDetails, InsertStatus

(* The run of the WorkScheduler. *)
LEMMA WorkStepOf ==
    ASSUME TypeInv, [Next]_vars
    PROVE  \/ work'.todo \subseteq work.todo /\ (work'.pc = "issued" => work.pc = "issued" /\ work' = work)
           \/ WorkList
           \/ /\ work'.todo = work.todo /\ work'.order \in work.todo
              /\ UNCHANGED <<tables, client, report>>
  <1>1. CASE WorkStep
    <2>1. CASE \E o \in OrderIds : IssueCreditCard(o)
      BY <2>1, Idle, Shapes DEF IssueCreditCard, budget
    <2>2. CASE RecordCardOrdered
      BY <2>2, Idle DEF RecordCardOrdered
    <2>. QED
      BY <1>1, <2>1, <2>2 DEF WorkStep
  <1>2. CASE FaultStep
    BY <1>2, Idle DEF FaultStep, ClientRequestFails, ReportFails, WorkFails, AddressFails, OrderServiceRestarts, ThirdPartyRestarts
  <1>3. CASE work' = work
    BY <1>3
  <1>. QED
    BY <1>1, <1>2, <1>3, StepCases DEF ClientStep, CountOrders, InsertNewOrder, InsertOrderCreated,
       DeleteStatuses, DeleteCards, DeleteOrders,
       RemoveRetired, Manufactures, Couriers, Idles, ManufactureFails, ManufactureSucceeds,
       HandToCourier, SetAndReport, ShipCard, DeliverCard, ReportStep, RejectStatus, AcceptStatus,
       StoreDetails, InsertStatus

(* The report of a worker: sent, accepted if the order has a status, stored. *)
LEMMA ReportStepOf ==
    ASSUME TypeInv, [Next]_vars, NEW w \in Workers
    PROVE  \/ report'[w] = report[w]
           \/ report'[w].pc = "none"
           \/ report'[w].pc = "sent" /\ report'[w].type \in {"CARD_ERROR", "CARD_CREATED", "CARD_SHIPPED", "CARD_DELIVERED"}
           \/ /\ report'[w].type = report[w].type /\ report'[w].order = report[w].order
              /\ \/ /\ report[w].pc = "sent" /\ report'[w].pc = "accepted" /\ UNCHANGED tables
                    /\ \E old \in LatestByTimestamp(report[w].order) : TRUE
                 \/ /\ report[w].pc = "accepted" /\ report'[w].pc = "stored"
                    /\ UNCHANGED <<orders, owner, history>>
                    /\ \/ report[w].type = "CARD_SHIPPED"
                       \/ report[w].type = "CARD_CREATED" /\ cards' = [cards EXCEPT ![report[w].order] = @ + 1]
  <1>. report \in [Workers -> [pc : {"none", "sent", "accepted", "stored"},
                              type : StatusType, order : OrderIds \union {None}]]
    BY Shapes
  <1>1. CASE Manufactures
    BY <1>1 DEF Manufactures, ManufactureFails, ManufactureSucceeds, SetAndReport
  <1>2. CASE Couriers
    BY <1>2 DEF Couriers, ShipCard, DeliverCard, SetAndReport
  <1>3. CASE \E v \in Workers : AcceptStatus(v)
    BY <1>3 DEF AcceptStatus
  <1>4. CASE \E v \in Workers : RejectStatus(v) \/ InsertStatus(v)
    BY <1>4, Idle DEF RejectStatus, InsertStatus, Answer
  <1>5. CASE \E v \in Workers : StoreDetails(v)
    BY <1>5, Idle DEF StoreDetails, Answer
  <1>6. CASE FaultStep
    BY <1>6, Idle DEF FaultStep, ClientRequestFails, ReportFails, WorkFails, AddressFails, OrderServiceRestarts, ThirdPartyRestarts
  <1>7. CASE report' = report
    BY <1>7
  <1>. QED
    BY <1>1, <1>2, <1>3, <1>4, <1>5, <1>6, <1>7, StepCases DEF ClientStep, CountOrders, InsertNewOrder,
       InsertOrderCreated, DeleteStatuses, DeleteCards, DeleteOrders, WorkStep, WorkList, IssueCreditCard,
       RecordCardOrdered, RemoveRetired, HandToCourier, Idles, ReportStep
----------------------------------------------------------------------------
(* The invariant *)

(* An order of an account for which DELETE is never called. *)
Kept(o) == owner[o] \notin Deletable
HasStatus(o) == Len(history[o]) > 0

(* No id has a status before it is drawn, and the one who drew it writes the *)
(* first one: two requests never hold the same id.                           *)
Creating ==
    /\ \A o \in OrderIds : owner[o] = None => ~HasStatus(o)
    /\ \A c \in Clients : client[c].pc = "inserted" =>
            /\ owner[client[c].order] # None
            /\ Kept(client[c].order) => ~HasStatus(client[c].order)
            /\ \A d \in Clients : client[d].pc = "inserted" /\ client[d].order = client[c].order => d = c

Deleting ==
    \A c \in Clients : client[c].pc \in {"unstatused", "uncarded"} => client[c].account \in Deletable

(* The WorkScheduler commissions an order after its creation is recorded ... *)
Commissioned ==
    /\ \A o \in work.todo : Kept(o) => HasStatus(o)
    /\ work.pc = "issued" => work.order \in work.todo

(* ... and no worker reports a creation, or records anything before it. *)
Reported ==
    \A w \in Workers :
        /\ report[w].pc # "none" => report[w].type # "ORDER_CREATED"
        /\ report[w].pc \in {"accepted", "stored"} /\ Kept(report[w].order) => HasStatus(report[w].order)

(* insertNewCreditCard was executed for the report whose status comes next. *)
CardStored ==
    \A w \in Workers :
        report[w].pc = "stored" /\ report[w].type = "CARD_CREATED" /\ Kept(report[w].order)
        => cards[report[w].order] > 0

(* The statuses of an order that is not deleted only grow. *)
LEMMA Grows ==
    ASSUME TypeInv, Drawn, Deleting, [Next]_vars, NEW o \in OrderIds, Kept(o)'
    PROVE  /\ Kept(o)
           /\ HasStatus(o) => HasStatus(o)'
           /\ cards[o] > 0 => cards'[o] > 0
  <1>1. Kept(o)
    BY OwnerStep DEF Kept
  <1>2. /\ \A type \in StatusType : history'[o] = Append(history[o], type) => HasStatus(o)'
        /\ "ORDER_CREATED" \in StatusType /\ "CARD_ORDERED" \in StatusType
        /\ \A w \in Workers : report[w].type \in StatusType
    BY Shapes, StatusTypes DEF HasStatus
  <1>3. HasStatus(o) => HasStatus(o)'
    <2>1. CASE history'[o] = history[o]
      BY <2>1 DEF HasStatus
    <2>2. CASE owner[o] \in Deletable
      BY <1>1, <2>2 DEF Kept
    <2>3. CASE \E type \in StatusType : history'[o] = Append(history[o], type)
      BY <1>2, <2>3
    <2>. QED
      BY <1>2, <2>1, <2>2, <2>3, HistoryStep
  <1>. QED
    <2>1. \A c \in Clients : ~(client[c].pc = "unstatused" /\ client[c].account = owner[o])
      BY <1>1 DEF Kept, Deleting
    <2>2. cards[o] \in Nat
      BY Shapes
    <2>3. cards'[o] = cards[o] \/ cards'[o] = cards[o] + 1
      BY <2>1, CardsStep
    <2>. QED
      BY <1>1, <1>3, <2>2, <2>3

LEMMA DeletingKept ==
    ASSUME TypeInv, Deleting, [Next]_vars
    PROVE  Deleting'
  <1>. client \in [Clients -> [pc : ClientPcs, account : Accounts \union {None},
                              order : OrderIds \union {None}]]
    BY Shapes
  <1>1. \A c \in Clients : InsertNewOrder(c) => client'[c].pc = "inserted"
    BY DEF InsertNewOrder
  <1>. QED
    BY <1>1, ClientsStep DEF Deleting

(* A request that draws an id draws one without a status. *)
LEMMA CreatingKept ==
    ASSUME TypeInv, TypeInv', Drawn, Deleting, Creating, Commissioned, Reported, [Next]_vars
    PROVE  Creating'
  <1>. history \in [OrderIds -> Seq(StatusType)]
    BY Shapes
  <1>. client \in [Clients -> [pc : ClientPcs, account : Accounts \union {None},
                              order : OrderIds \union {None}]]
    BY Shapes
  <1>1. ASSUME NEW o \in OrderIds, owner'[o] = None
        PROVE  ~HasStatus(o)'
    <2>1. owner[o] = None /\ o \notin orders
      BY <1>1, OwnerKept DEF Drawn
    <2>2. ~HasStatus(o) /\ Kept(o)
      BY <2>1, NoneIsNoValue, DeletableAreAccounts DEF Creating, Kept
    <2>3. history'[o] = history[o]
      BY <2>1, <2>2, HistoryStep DEF Kept
    <2>. QED
      BY <2>2, <2>3 DEF HasStatus
  <1>2. ASSUME NEW c \in Clients, client'[c].pc = "inserted", ~InsertNewOrder(c)
        PROVE  client'[c] = client[c]
    BY <1>2, ClientsStep
  <1>3. ASSUME NEW c \in Clients, InsertNewOrder(c)
        PROVE  /\ client' = [client EXCEPT ![c].pc = "inserted", ![c].order = FreshGuid]
               /\ FreshGuid \in OrderIds /\ owner[FreshGuid] = None /\ owner'[FreshGuid] # None
               /\ history' = history
    <2>1. FreshGuid \in OrderIds /\ owner[FreshGuid] = None
      BY <1>3 DEF InsertNewOrder, FreshGuid
    <2>2. owner'[FreshGuid] = client[c].account /\ client[c].account # None
      BY <1>3, <2>1, Shapes, NoneIsNoValue DEF InsertNewOrder, Drawn
    <2>. QED
      BY <1>3, <2>1, <2>2 DEF InsertNewOrder
  <1>4. ASSUME NEW c \in Clients, client'[c].pc = "inserted"
        PROVE  /\ owner'[client'[c].order] # None
               /\ owner'[client'[c].order] \notin Deletable => ~(Len(history'[client'[c].order]) > 0)
               /\ \A d \in Clients : client'[d].pc = "inserted" /\ client'[d].order = client'[c].order => d = c
    <2>1. CASE InsertNewOrder(c)
      <3>1. client'[c].order = FreshGuid
        BY <1>3, <2>1
      <3>2. PICK o \in OrderIds : o = FreshGuid /\ owner[o] = None
        BY <1>3, <2>1
      <3>3. ~HasStatus(o)'
        BY <1>3, <2>1, <3>2 DEF Creating, HasStatus
      <3>4. ASSUME NEW d \in Clients, d # c, client'[d].pc = "inserted"
            PROVE  client'[d].order # o
        <4>1. client'[d] = client[d]
          BY <1>3, <2>1, <3>4
        <4>. QED
          BY <3>2, <3>4, <4>1 DEF Creating
      <3>5. owner'[o] # None
        BY <1>3, <2>1, <3>2
      <3>. QED
        BY <3>1, <3>2, <3>3, <3>4, <3>5 DEF HasStatus
    <2>2. CASE ~InsertNewOrder(c)
      <3>0. client'[c] = client[c] /\ client[c].order \in OrderIds
        BY <1>2, <1>4, <2>2 DEF TypeInv, HoldsOrder
      <3>1. PICK o \in OrderIds : o = client[c].order /\ client[c].pc = "inserted" /\ client'[c].order = o
        BY <1>4, <3>0
      <3>2. owner'[o] # None
        BY <1>4, <3>1, OwnerKept DEF Creating
      <3>3. ASSUME NEW d \in Clients, client'[d].pc = "inserted", client'[d].order = o
            PROVE  d = c
        <4>1. CASE InsertNewOrder(d)
          <5>1. client'[d].order = FreshGuid
            BY <1>3, <4>1
          <5>2. owner[o] # None
            BY <3>1 DEF Creating
          <5>. QED
            BY <1>3, <3>3, <4>1, <5>1, <5>2
        <4>2. CASE ~InsertNewOrder(d)
          BY <1>2, <1>4, <3>1, <3>3, <4>2 DEF Creating
        <4>. QED
          BY <4>1, <4>2
      <3>4. ASSUME Kept(o)'
            PROVE  ~HasStatus(o)'
        <4>1. Kept(o) /\ ~HasStatus(o)
          BY <3>1, <3>4, Grows DEF Creating
        <4>2. \A d \in Clients : Creates(d, o) => d = c
          BY <1>4, <3>1 DEF Creates, Creating
        <4>3. ~ (client' = [client EXCEPT ![c] = IdleClient])
          BY <1>4, Idle
        <4>4. ~Commissions(o)
          BY <4>1 DEF Commissions, Commissioned
        <4>5. \A w \in Workers : ~Records(w, o)
          BY <4>1 DEF Records, Reported
        <4>6. owner[o] \notin Deletable
          BY <4>1 DEF Kept
        <4>7. history'[o] = history[o]
          BY <3>1, <4>2, <4>3, <4>4, <4>5, <4>6, HistoryStep
        <4>. QED
          BY <4>1, <4>7 DEF HasStatus
      <3>. QED
        BY <3>1, <3>2, <3>3, <3>4 DEF Kept, HasStatus
    <2>. QED
      BY <2>1, <2>2
  <1>. QED
    BY <1>1, <1>4 DEF Creating, Kept, HasStatus

(* The list holds orders whose creation is recorded. *)
LEMMA CommissionedKept ==
    ASSUME TypeInv, TypeInv', Drawn, Deleting, Commissioned, [Next]_vars
    PROVE  Commissioned'
  <1>. history \in [OrderIds -> Seq(StatusType)] /\ work.todo \subseteq OrderIds
    BY Shapes
  <1>1. work'.todo \subseteq OrderIds
    BY Shapes DEF TypeInv, TypeOK, RequestsOK
  <1>2. ASSUME work'.todo \subseteq work.todo, NEW o \in work'.todo, owner'[o] \notin Deletable
        PROVE  Len(history'[o]) > 0
    <2>1. Kept(o)' /\ o \in OrderIds
      BY <1>1, <1>2 DEF Kept
    <2>. QED
      BY <1>2, <2>1, Grows DEF Commissioned, HasStatus
  <1>3. CASE work'.todo \subseteq work.todo /\ (work'.pc = "issued" => work.pc = "issued" /\ work' = work)
    BY <1>2, <1>3 DEF Commissioned, Kept, HasStatus
  <1>4. CASE WorkList
    <2>1. /\ work'.pc = "listed" /\ work'.todo \subseteq OrderIds
          /\ \A o \in work'.todo : history[o] # << >> /\ history'[o] = history[o]
      BY <1>1, <1>4 DEF WorkList, tables
    <2>2. \A o \in work'.todo : Len(history'[o]) > 0
      <3>1. \A o \in work'.todo : history[o] \in Seq(StatusType)
        BY <2>1
      <3>. QED
        BY <2>1, <3>1
    <2>. QED
      BY <2>1, <2>2 DEF Commissioned, HasStatus
  <1>5. CASE work'.todo = work.todo /\ work'.order \in work.todo
    BY <1>2, <1>5 DEF Commissioned, Kept, HasStatus
  <1>. QED
    BY <1>3, <1>4, <1>5, WorkStepOf

(* actOnNewStatus refuses a status for an order that has none. *)
LEMMA ReportedKept ==
    ASSUME TypeInv, TypeInv', Drawn, Deleting, Reported, [Next]_vars
    PROVE  Reported'
  <1>. SUFFICES ASSUME NEW w \in Workers
                PROVE  /\ report'[w].pc # "none" => report'[w].type # "ORDER_CREATED"
                       /\ report'[w].pc \in {"accepted", "stored"} /\ owner'[report'[w].order] \notin Deletable
                          => Len(history'[report'[w].order]) > 0
    BY DEF Reported, Kept, HasStatus
  <1>1. ASSUME report'[w].pc # "none", report'[w].order = report[w].order, HasStatus(report[w].order),
               owner'[report'[w].order] \notin Deletable
        PROVE  Len(history'[report'[w].order]) > 0
    <2>1. PICK o \in OrderIds : o = report'[w].order
      BY <1>1 DEF TypeInv, HoldsOrder
    <2>2. Kept(o)' /\ HasStatus(o)
      BY <1>1, <2>1 DEF Kept, HasStatus
    <2>3. HasStatus(o)'
      BY <2>2, Grows
    <2>. QED
      BY <2>1, <2>3 DEF HasStatus
  <1>2. ASSUME report'[w].pc # "none", report'[w].order = report[w].order,
               report[w].pc \in {"accepted", "stored"},
               owner'[report'[w].order] \notin Deletable
        PROVE  Len(history'[report'[w].order]) > 0
    <2>1. PICK o \in OrderIds : o = report'[w].order
      BY <1>2 DEF TypeInv, HoldsOrder
    <2>2. Kept(o)
      BY <1>2, <2>1, OwnerStep DEF Kept
    <2>. QED
      BY <1>1, <1>2, <2>1, <2>2 DEF Reported
  <1>3. CASE report'[w] = report[w]
    BY <1>2, <1>3 DEF Reported
  <1>4. CASE report'[w].pc = "none"
    BY <1>4
  <1>5. CASE report'[w].pc = "sent" /\ report'[w].type \in {"CARD_ERROR", "CARD_CREATED", "CARD_SHIPPED", "CARD_DELIVERED"}
    BY <1>5
  <1>6. CASE /\ report'[w].type = report[w].type /\ report'[w].order = report[w].order
             /\ report[w].pc = "sent" /\ report'[w].pc = "accepted"
             /\ \E old \in LatestByTimestamp(report[w].order) : TRUE
    <2>1. report[w].order \in OrderIds /\ history \in [OrderIds -> Seq(StatusType)]
      BY <1>6, Shapes DEF TypeInv, HoldsOrder
    <2>2. HasStatus(report[w].order)
      BY <1>6, <2>1 DEF LatestByTimestamp, HasStatus
    <2>. QED
      BY <1>1, <1>6, <2>2 DEF Reported
  <1>7. CASE /\ report'[w].type = report[w].type /\ report'[w].order = report[w].order
             /\ report[w].pc = "accepted" /\ report'[w].pc = "stored"
    BY <1>2, <1>7 DEF Reported
  <1>. QED
    BY <1>3, <1>4, <1>5, <1>6, <1>7, ReportStepOf

(* Between insertNewCreditCard and the insert of CARD_CREATED nothing takes  *)
(* the card away but a delete of the account.                                *)
LEMMA CardStoredKept ==
    ASSUME TypeInv, TypeInv', Drawn, Deleting, CardStored, [Next]_vars
    PROVE  CardStored'
  <1>. SUFFICES ASSUME NEW w \in Workers, report'[w].pc = "stored", report'[w].type = "CARD_CREATED",
                       owner'[report'[w].order] \notin Deletable
                PROVE  cards'[report'[w].order] > 0
    BY DEF CardStored, Kept
  <1>. PICK o \in OrderIds : o = report'[w].order
    BY DEF TypeInv, HoldsOrder
  <1>1. Kept(o)'
    BY DEF Kept
  <1>2. CASE report'[w] = report[w]
    BY <1>1, <1>2, Grows DEF CardStored
  <1>3. CASE cards' = [cards EXCEPT ![o] = @ + 1]
    BY <1>3, Shapes
  <1>. QED
    BY <1>2, <1>3, ReportStepOf

HistInv == TypeInv /\ Drawn /\ Deleting /\ Creating /\ Commissioned /\ Reported /\ CardStored

LEMMA InitHist == Init => HistInv /\ HistoryStartsWithCreation /\ CreatedHasCard
  <1>. SUFFICES ASSUME Init PROVE HistInv /\ HistoryStartsWithCreation /\ CreatedHasCard
    OBVIOUS
  <1>1. Drawn
    BY DEF Init, Drawn, NoReport, IdleClient
  <1>2. \A o \in OrderIds : Len(history[o]) = 0
    BY DEF Init
  <1>3. Deleting /\ Commissioned /\ Reported /\ CardStored
    BY Idle DEF Init, Deleting, Commissioned, Reported, CardStored
  <1>4. Creating
    BY <1>2, Idle DEF Init, Creating, HasStatus
  <1>. QED
    BY <1>1, <1>2, <1>3, <1>4, InitType DEF HistInv, HistoryStartsWithCreation, CreatedHasCard, Recorded

LEMMA HistInvKept == HistInv /\ [Next]_vars => HistInv'
  BY TypeInvKept, DrawnKept, DeletingKept, CreatingKept, CommissionedKept, ReportedKept, CardStoredKept
     DEF HistInv

(* The first status is the creation, and no other one is. *)
LEMMA StartKept ==
    ASSUME HistInv, HistoryStartsWithCreation, [Next]_vars
    PROVE  HistoryStartsWithCreation'
  <1>. SUFFICES ASSUME NEW o \in OrderIds, Kept(o)', NEW i \in 1..Len(history'[o])
                PROVE  (history'[o][i] = "ORDER_CREATED") <=> (i = 1)
    BY DEF HistoryStartsWithCreation, Kept
  <1>. history[o] \in Seq(StatusType) /\ TypeInv
    BY Shapes DEF HistInv
  <1>1. Kept(o) /\ owner[o] \notin Deletable
    BY Grows DEF HistInv, Kept
  <1>2. \A j \in 1..Len(history[o]) : (history[o][j] = "ORDER_CREATED") <=> (j = 1)
    BY <1>1 DEF HistoryStartsWithCreation
  <1>3. CASE history'[o] = history[o]
    BY <1>2, <1>3
  <1>4. ASSUME NEW type \in StatusType, history'[o] = Append(history[o], type),
               (type = "ORDER_CREATED") <=> ~HasStatus(o)
        PROVE  (history'[o][i] = "ORDER_CREATED") <=> (i = 1)
    BY <1>2, <1>4 DEF HasStatus
  <1>5. \A c \in Clients : Creates(c, o) => ~HasStatus(o)
    BY <1>1 DEF HistInv, Creates, Creating
  <1>6. Commissions(o) => HasStatus(o)
    BY <1>1 DEF HistInv, Commissions, Commissioned
  <1>7. \A w \in Workers : /\ Records(w, o) => HasStatus(o) /\ report[w].type # "ORDER_CREATED"
                           /\ report[w].type \in StatusType
    BY <1>1, Shapes DEF HistInv, Records, Reported
  <1>. QED
    BY <1>1, <1>3, <1>4, <1>5, <1>6, <1>7, HistoryStep, StatusTypes

(* A CARD_CREATED that is new is that of a report whose card was stored. *)
LEMMA CreatedKept ==
    ASSUME HistInv, CreatedHasCard, [Next]_vars
    PROVE  CreatedHasCard'
  <1>. SUFFICES ASSUME NEW o \in OrderIds, Kept(o)', Recorded(o, "CARD_CREATED")'
                PROVE  cards'[o] > 0
    BY DEF CreatedHasCard, Kept
  <1>. history[o] \in Seq(StatusType) /\ TypeInv
    BY Shapes DEF HistInv
  <1>1. Kept(o) /\ owner[o] \notin Deletable /\ (cards[o] > 0 => cards'[o] > 0)
    BY Grows DEF HistInv, Kept
  <1>2. PICK i \in 1..Len(history'[o]) : history'[o][i] = "CARD_CREATED"
    BY DEF Recorded
  <1>3. CASE Recorded(o, "CARD_CREATED")
    BY <1>1, <1>3 DEF CreatedHasCard
  <1>4. ASSUME NEW type \in StatusType, history'[o] = Append(history[o], type), type # "CARD_CREATED"
        PROVE  Recorded(o, "CARD_CREATED")
    BY <1>2, <1>4 DEF Recorded
  <1>5. CASE history'[o] = history[o]
    BY <1>2, <1>3, <1>5 DEF Recorded
  <1>6. ASSUME NEW w \in Workers, Records(w, o), report[w].type = "CARD_CREATED"
        PROVE  cards[o] > 0
    BY <1>1, <1>6 DEF Records, HasDetails, HistInv, CardStored
  <1>7. \A w \in Workers : report[w].type \in StatusType
    BY Shapes
  <1>. QED
    BY <1>1, <1>3, <1>4, <1>5, <1>6, <1>7, HistoryStep, StatusTypes

----------------------------------------------------------------------------
(* Nothing is recorded of an order before ORDER_CREATED, and that once,      *)
(* whatever fails: createCreditCardOrder writes it as the last statement,    *)
(* the WorkScheduler lists only orders that have it, and actOnNewStatus      *)
(* refuses an order that has no status.                                      *)
THEOREM StartsWithCreation == Spec => []HistoryStartsWithCreation
  <1>1. HistInv /\ HistoryStartsWithCreation /\ [Next]_vars => (HistInv /\ HistoryStartsWithCreation)'
    BY HistInvKept, StartKept
  <1>. QED
    BY <1>1, InitHist, PTL DEF Spec

(* An order that says CARD_CREATED has its card, whatever fails:             *)
(* handleNewStatus executes insertNewCreditCard before insertNewStatus.      *)
THEOREM CreatedIsStored == Spec => []CreatedHasCard
  <1>1. HistInv /\ CreatedHasCard /\ [Next]_vars => (HistInv /\ CreatedHasCard)'
    BY HistInvKept, CreatedKept
  <1>. QED
    BY <1>1, InitHist, PTL DEF Spec
=============================================================================
