---------------------- MODULE ContractLifecycleProofs ----------------------
(* Proofs about ContractLifecycle, for every set of contracts and machines,*)
(* every mix of sale types and every bound on the queue.                   *)
EXTENDS ContractLifecycle, TLAPS

USE DEF vars, paperVars, allocationVars, handlerVars, inventoryVars

----------------------------------------------------------------------------
(* Types.                                                                  *)

(* What SetStatus writes has the types of the columns.                     *)
LEMMA SetStatusTypes ==
    ASSUME TypeOK, NEW c \in Contract, NEW t \in Type, NEW s \in Status,
           NEW cs \in ContractStatus, SetStatus(c, t, s, cs)
    PROVE  /\ type' \in [Contract -> Type]
           /\ status' \in [Contract -> Status]
           /\ contractStatus' \in [Contract -> ContractStatus]
BY DEF TypeOK, SetStatus

(* An operation on the invoice row alone keeps every type.                 *)
LEMMA PaperTypes ==
    ASSUME TypeOK, NEW c \in Contract, NEW t \in Type, NEW s \in Status, Paper(c, t, s)
    PROVE  TypeOK'
<1>1. contractStatus[c] \in ContractStatus /\ SetStatus(c, t, s, contractStatus[c])
  BY DEF TypeOK, Paper
<1>2. /\ type' \in [Contract -> Type]
      /\ status' \in [Contract -> Status]
      /\ contractStatus' \in [Contract -> ContractStatus]
  BY <1>1, SetStatusTypes
<1>. QED
  BY <1>2 DEF TypeOK, Paper

(* Publishing events of machines keeps the types of the queue and of the   *)
(* history.                                                                *)
LEMMA PublishTypes ==
    ASSUME TypeOK, NEW events \in SUBSET Event, NEW astray \in SUBSET Machine,
           Publish(events, astray)
    PROVE  /\ queue' \subseteq Event
           /\ explained' \subseteq Machine
           /\ stock' = stock
BY DEF TypeOK, Publish, Event

(* A status event is an event of the machine, if there is one.             *)
LEMMA StatusEventType ==
    ASSUME NEW m \in Machine \cup {NoMachine}, NEW bill \in BillType
    PROVE  StatusEvent(m, bill) \subseteq Event
BY DEF StatusEvent, Event

(* The bills of the events.                                                *)
LEMMA BillTypes ==
    /\ BillType = {"RENT", "LEASE", "SALE", "RETURNED"}
    /\ TypeOK => \A c \in Contract : BillOf(c) \in BillType
BY DEF BillType, StatusOf, BillOf, Metered, TypeOK, SaleType

LEMMA InitTypeOK == Init => TypeOK
BY LifecycleAssumption DEF Init, TypeOK, SaleType, Type, Status, ContractStatus, NoSwap,
   NoRelease, NoCheck, StockStatus

(* Reading for a later save, and saving, keep the type of what was read.   *)
LEMMA CheckTypes ==
    ASSUME TypeOK, NEW c \in Contract
    PROVE  /\ \A op \in {"allocate", "replace"}, m \in Machine \cup {NoMachine} :
                Check(c, op, m) => TypeOK'
           /\ \A op : Saves(c, op) => checked' \in [Contract ->
                [op : {"none", "allocate", "replace"},
                 row : Machine \cup {NoMachine}, live : BOOLEAN]]
           /\ \A S : RowsClosed(c, S) => checked' \in [Contract ->
                [op : {"none", "allocate", "replace"},
                 row : Machine \cup {NoMachine}, live : BOOLEAN]]
<1>. DEFINE Read == [op : {"none", "allocate", "replace"},
                     row : Machine \cup {NoMachine}, live : BOOLEAN]
<1>1. checked \in [Contract -> Read] /\ NoCheck \in Read
  BY DEF TypeOK, NoCheck
<1>2. ASSUME NEW op \in {"allocate", "replace"}, NEW m \in Machine \cup {NoMachine},
             Check(c, op, m)
      PROVE TypeOK'
  <2>1. [op |-> op, row |-> m, live |-> m # NoMachine] \in Read
    OBVIOUS
  <2>2. checked' \in [Contract -> Read]
    BY <1>1, <1>2, <2>1 DEF Check
  <2>. QED
    BY <1>2, <2>2 DEF Check, TypeOK
<1>3. ASSUME NEW op, Saves(c, op) PROVE checked' \in [Contract -> Read]
  BY <1>1, <1>3 DEF Saves
<1>4. ASSUME NEW S, RowsClosed(c, S) PROVE checked' \in [Contract -> Read]
  <2>1. checked' = [checked EXCEPT ![c].live = checked[c].live /\ checked[c].row \notin S]
    BY <1>4 DEF RowsClosed
  <2>2. (checked[c].live /\ checked[c].row \notin S) \in BOOLEAN
    OBVIOUS
  <2>. QED
    BY <1>1, <2>1, <2>2
<1>. QED
  BY <1>2, <1>3, <1>4

(* What is recorded of a contract keeps its type.                          *)
LEMMA HistoryTypes ==
    ASSUME TypeOK, NEW c \in Contract, NEW S
    PROVE  /\ LeavesBehind(c, S) => stranded' \subseteq Contract
           /\ RowsPast(c, S) => past' \subseteq Contract
BY DEF TypeOK, LeavesBehind, RowsPast

LEMMA SaveAllocatedTypes ==
    ASSUME TypeOK, NEW c \in Contract, SaveAllocated(c)
    PROVE  /\ type' \in [Contract -> Type]
           /\ status' \in [Contract -> Status]
           /\ contractStatus' \in [Contract -> ContractStatus]
<1>1. "PROFORMA" \in Type /\ "PENDING_CONFIRMATION" \in ContractStatus
      /\ (IF Exists(c) THEN "FINANCE_APPROVED" ELSE "DELETED") \in Status
  BY DEF Type, Status, ContractStatus
<1>. QED
  BY <1>1, SetStatusTypes DEF SaveAllocated

LEMMA QuotationStepTypes ==
    ASSUME TypeOK, NEW c \in Contract, QuotationStep(c)
    PROVE  TypeOK'
<1>. type[c] \in Type /\ contractStatus[c] \in ContractStatus
  BY DEF TypeOK
<1>1. ASSUME NEW s \in SetByHand[saleType], UpdateStatus(c, s) PROVE TypeOK'
  <2>1. s \in Status
    BY LifecycleAssumption DEF TypeOK
  <2>2. /\ type' \in [Contract -> Type]
        /\ status' \in [Contract -> Status]
        /\ contractStatus' \in [Contract -> ContractStatus]
    BY <1>1, <2>1, SetStatusTypes DEF UpdateStatus
  <2>3. stranded' \subseteq Contract
    BY <1>1, HistoryTypes DEF UpdateStatus
  <2>. QED
    BY <1>1, <2>2, <2>3 DEF UpdateStatus, TypeOK
<1>2. CASE DeleteInvoice(c)
  <2>1. "DELETED" \in Status
    BY DEF Status
  <2>2. /\ type' \in [Contract -> Type]
        /\ status' \in [Contract -> Status]
        /\ contractStatus' \in [Contract -> ContractStatus]
    BY <1>2, <2>1, SetStatusTypes DEF DeleteInvoice
  <2>. QED
    BY <1>2, <2>2 DEF DeleteInvoice, TypeOK
<1>3. CASE CheckDelete(c)
  BY <1>3 DEF CheckDelete, TypeOK
<1>4. CASE \E t \in Type, s \in Status : Paper(c, t, s)
  BY <1>4, PaperTypes
<1>. QED
  BY <1>1, <1>2, <1>3, <1>4 DEF QuotationStep, CustomerRespond, EmployeeApprove,
     FinanceApproveQuotation, RequestValidityExtension, ConvertToTransaction,
     ApproveQuotation, ReassignCustomer, Type, Status

LEMMA ContractStepTypes ==
    ASSUME TypeOK, NEW c \in Contract, ContractStep(c)
    PROVE  TypeOK'
<1>. USE DEF StartRelease
<1>. HeldBy(c) \subseteq Machine /\ type[c] \in Type /\ status[c] \in Status
        /\ contractStatus[c] \in ContractStatus /\ item[c] \in Machine \cup {NoMachine}
        /\ release[c] \in [stage : {"none", "find", "update"}, found : SUBSET Machine]
  BY DEF HeldBy, TypeOK
<1>. {"PROFORMA", "FINAL"} \subseteq Type
        /\ {"ACTIVE_CONTRACT", "INVOICED", "FINANCE_APPROVED", "FINANCE_REJECTED", "EXPIRED"}
             \subseteq Status
        /\ {"PENDING_CONFIRMATION", "ACTIVE", "COMPLETED"} \subseteq ContractStatus
  BY DEF Type, Status, ContractStatus
<1>1. ASSUME NEW m \in Machine, AllocateMachines(c, m) PROVE TypeOK'
  <2>1. StatusEvent(m, BillOf(c)) \subseteq Event
    BY BillTypes, StatusEventType
  <2>2. /\ queue' \subseteq Event /\ explained' \subseteq Machine /\ stock' = stock
    BY <1>1, <2>1, PublishTypes DEF AllocateMachines
  <2>3. /\ type' \in [Contract -> Type]
        /\ status' \in [Contract -> Status]
        /\ contractStatus' \in [Contract -> ContractStatus]
    BY <1>1, SaveAllocatedTypes DEF AllocateMachines
  <2>4. allocated' \subseteq Contract \X Machine
    BY <1>1 DEF AllocateMachines, TypeOK
  <2>5. item' \in [Contract -> Machine \cup {NoMachine}]
    BY <1>1 DEF AllocateMachines, TypeOK
  <2>. QED
    BY <1>1, <2>2, <2>3, <2>4, <2>5, CheckTypes DEF AllocateMachines, TypeOK
<1>2. CASE AllocateOtherLines(c)
  <2>1. StatusEvent(item[c], BillOf(c)) \subseteq Event
    BY BillTypes, StatusEventType
  <2>2. (IF FreeOfIndex(item[c]) THEN {item[c]} ELSE {}) \subseteq Machine
    BY <1>2 DEF AllocateOtherLines
  <2>3. /\ queue' \subseteq Event /\ explained' \subseteq Machine /\ stock' = stock
    BY <1>2, <2>1, <2>2, PublishTypes DEF AllocateOtherLines
  <2>4. /\ type' \in [Contract -> Type]
        /\ status' \in [Contract -> Status]
        /\ contractStatus' \in [Contract -> ContractStatus]
    BY <1>2, SaveAllocatedTypes DEF AllocateOtherLines
  <2>. QED
    BY <1>2, <2>3, <2>4, CheckTypes DEF AllocateOtherLines, TypeOK
<1>3. CASE ActivateContract(c)
  <2>1. StatusEvent(item[c], BillOf(c)) \subseteq Event
    BY BillTypes, StatusEventType
  <2>2. (IF item[c] # NoMachine /\ FreeOfIndex(item[c]) THEN {item[c]} ELSE {})
          \subseteq Machine
    OBVIOUS
  <2>3. /\ queue' \subseteq Event /\ explained' \subseteq Machine /\ stock' = stock
    BY <1>3, <2>1, <2>2, PublishTypes DEF ActivateContract
  <2>4. /\ type' \in [Contract -> Type]
        /\ status' \in [Contract -> Status]
        /\ contractStatus' \in [Contract -> ContractStatus]
    BY <1>3, SetStatusTypes DEF ActivateContract
  <2>. QED
    BY <1>3, <2>3, <2>4 DEF ActivateContract, TypeOK
<1>4. CASE FinanceReject(c)
  <2>1. /\ type' \in [Contract -> Type]
        /\ status' \in [Contract -> Status]
        /\ contractStatus' \in [Contract -> ContractStatus]
    BY <1>4, SetStatusTypes DEF FinanceReject
  <2>. QED
    BY <1>4, <2>1 DEF FinanceReject, TypeOK
<1>5. CASE RecordFinalUsage(c)
  <2>1. /\ type' \in [Contract -> Type]
        /\ status' \in [Contract -> Status]
        /\ contractStatus' \in [Contract -> ContractStatus]
    BY <1>5, SetStatusTypes DEF RecordFinalUsage
  <2>2. release' \in [Contract -> [stage : {"none", "find", "update"}, found : SUBSET Machine]]
    BY <1>5 DEF RecordFinalUsage, TypeOK
  <2>. QED
    BY <1>5, <2>1, <2>2 DEF RecordFinalUsage, TypeOK
<1>6. CASE GenerateConsolidatedFinalInvoice(c)
  <2>1. /\ type' \in [Contract -> Type]
        /\ status' \in [Contract -> Status]
        /\ contractStatus' \in [Contract -> ContractStatus]
    BY <1>6, SetStatusTypes DEF GenerateConsolidatedFinalInvoice
  <2>2. release' \in [Contract -> [stage : {"none", "find", "update"}, found : SUBSET Machine]]
    BY <1>6 DEF GenerateConsolidatedFinalInvoice, TypeOK
  <2>. QED
    BY <1>6, <2>1, <2>2 DEF GenerateConsolidatedFinalInvoice, TypeOK
<1>7. CASE ReleaseFind(c)
  BY <1>7 DEF ReleaseFind, TypeOK, NoRelease
<1>8. CASE ReleaseUpdate(c)
  <2>. DEFINE found == release[c].found
  <2>. DEFINE events == {[machine |-> m, bill |-> "RETURNED"] : m \in found}
  <2>1. events \subseteq Event /\ (found \ HeldBy(c)) \cup (HeldBy(c) \ found) \subseteq Machine
    BY BillTypes DEF Event
  <2>2. /\ queue' \subseteq Event /\ explained' \subseteq Machine /\ stock' = stock
    BY <1>8, <2>1, PublishTypes DEF ReleaseUpdate
  <2>3. /\ past' \subseteq Contract /\ stranded' \subseteq Contract
        /\ allocated' \subseteq Contract \X Machine
    BY <1>8, HistoryTypes DEF ReleaseUpdate, TypeOK
  <2>4. checked' \in [Contract -> [op : {"none", "allocate", "replace"},
                                   row : Machine \cup {NoMachine}, live : BOOLEAN]]
    BY <1>8, CheckTypes DEF ReleaseUpdate
  <2>. QED
    BY <1>8, <2>2, <2>3, <2>4 DEF ReleaseUpdate, TypeOK, NoRelease
<1>9. CASE ReleaseCutShort(c)
  BY <1>9, HistoryTypes DEF ReleaseCutShort, TypeOK, NoRelease
<1>10. CASE ExpireContract(c)
  <2>. DEFINE events == {[machine |-> m, bill |-> "RETURNED"] : m \in HeldBy(c)}
  <2>1. events \subseteq Event
    BY BillTypes DEF Event
  <2>2. /\ queue' \subseteq Event /\ explained' \subseteq Machine /\ stock' = stock
    BY <1>10, <2>1, PublishTypes DEF ExpireContract
  <2>3. /\ type' \in [Contract -> Type]
        /\ status' \in [Contract -> Status]
        /\ contractStatus' \in [Contract -> ContractStatus]
    BY <1>10, SetStatusTypes DEF ExpireContract
  <2>. QED
    BY <1>10, <2>2, <2>3 DEF ExpireContract, TypeOK
<1>11. CASE CheckAllocation(c)
  BY <1>11, CheckTypes DEF CheckAllocation
<1>12. CASE AllocationFails(c)
  BY <1>12, CheckTypes DEF AllocationFails, TypeOK
<1>. QED
  BY <1>1, <1>2, <1>3, <1>4, <1>5, <1>6, <1>7, <1>8, <1>9, <1>10, <1>11, <1>12
     DEF ContractStep

(* Direct sales come from any contract.                                    *)
LEMMA DirectSaleTypes ==
    ASSUME TypeOK, NEW c \in Contract, NEW m \in Machine, DirectSale(c, m)
    PROVE  TypeOK'
<1>1. StatusEvent(m, "SALE") \subseteq Event
  BY BillTypes, StatusEventType
<1>2. /\ queue' \subseteq Event /\ explained' \subseteq Machine /\ stock' = stock
  BY <1>1, PublishTypes DEF DirectSale
<1>3. "FINAL" \in Type /\ "SENT" \in Status /\ "NONE" \in ContractStatus
  BY DEF Type, Status, ContractStatus
<1>4. /\ type' \in [Contract -> Type]
      /\ status' \in [Contract -> Status]
      /\ contractStatus' \in [Contract -> ContractStatus]
  BY <1>3, SetStatusTypes DEF DirectSale
<1>5. allocated' \subseteq Contract \X Machine
  BY DEF DirectSale, TypeOK
<1>6. item' \in [Contract -> Machine \cup {NoMachine}]
  BY DEF DirectSale, TypeOK
<1>. QED
  BY <1>2, <1>4, <1>5, <1>6 DEF DirectSale, TypeOK

LEMMA ExchangeStepTypes ==
    ASSUME TypeOK, NEW c \in Contract, ExchangeStep(c)
    PROVE  TypeOK'
<1>. item[c] \in Machine \cup {NoMachine} /\ contractStatus[c] \in ContractStatus
  BY DEF TypeOK
<1>. {"RENT", "LEASE", "SALE", "RETURNED"} = BillType
  BY BillTypes
<1>1. ASSUME NEW n \in Machine, ReplaceDevice(c, n) PROVE TypeOK'
  <2>. DEFINE m == checked[c].row
  <2>1. m \in Machine \cup {NoMachine}
    BY DEF TypeOK
  <2>2. StatusEvent(m, "RETURNED") \cup
          StatusEvent(n, IF saleType[c] = "LEASE" THEN "LEASE" ELSE "RENT") \subseteq Event
    BY <2>1, StatusEventType
  <2>3. (IF checked[c].live \/ FreeOfIndex(m) THEN {} ELSE {m}) \subseteq Machine
    <3>1. m \notin Machine => FreeOfIndex(m)
      BY DEF TypeOK, FreeOfIndex
    <3>. QED
      BY <3>1
  <2>4. /\ queue' \subseteq Event /\ explained' \subseteq Machine /\ stock' = stock
    BY <1>1, <2>2, <2>3, PublishTypes DEF ReplaceDevice
  <2>5. allocated' \subseteq Contract \X Machine
    BY <1>1 DEF ReplaceDevice, TypeOK
  <2>6. item' \in [Contract -> Machine \cup {NoMachine}]
    BY <1>1 DEF ReplaceDevice, TypeOK
  <2>7. past' \subseteq Contract /\ stranded' \subseteq Contract
    BY <1>1, HistoryTypes DEF ReplaceDevice
  <2>. QED
    BY <1>1, <2>4, <2>5, <2>6, <2>7, CheckTypes DEF ReplaceDevice, TypeOK
<1>2. ASSUME NEW current \in Machine \cup {NoMachine}, NEW n \in Machine,
             InitiateSwap(c, current, n)
      PROVE TypeOK'
  BY <1>2 DEF InitiateSwap, TypeOK
<1>3. ASSUME NEW old \in Machine \cup {NoMachine}, ApproveSwap(c, old) PROVE TypeOK'
  <2>. DEFINE current == swap[c].current
              n == swap[c].requested
  <2>1. current \in Machine \cup {NoMachine} /\ n \in Machine
    BY <1>3 DEF ApproveSwap, TypeOK, NoSwap
  <2>2. StatusEvent(current, "RETURNED") \cup StatusEvent(n, "SALE") \subseteq Event
    BY <2>1, StatusEventType
  <2>3. (IF old = current THEN {} ELSE {old, current} \ {NoMachine}) \subseteq Machine
    BY <2>1
  <2>4. /\ queue' \subseteq Event /\ explained' \subseteq Machine /\ stock' = stock
    BY <1>3, <2>2, <2>3, PublishTypes DEF ApproveSwap
  <2>5. allocated' \subseteq Contract \X Machine
    BY <1>3, <2>1 DEF ApproveSwap, TypeOK
  <2>6. swap' \in [Contract -> {NoSwap} \cup [current : Machine \cup {NoMachine},
                                              requested : Machine]]
    BY <1>3 DEF ApproveSwap, TypeOK
  <2>. QED
    BY <1>3, <2>4, <2>5, <2>6, CheckTypes DEF ApproveSwap, TypeOK
<1>4. CASE RejectSwap(c)
  BY <1>4 DEF RejectSwap, TypeOK
<1>5. CASE ApproveRefund(c)
  <2>1. StatusEvent(item[c], "RETURNED") \subseteq Event
    BY StatusEventType
  <2>2. /\ queue' \subseteq Event /\ explained' \subseteq Machine /\ stock' = stock
    BY <1>5, <2>1, PublishTypes DEF ApproveRefund
  <2>3. "FINAL" \in Type /\ "REFUNDED" \in Status
    BY DEF Type, Status
  <2>4. /\ type' \in [Contract -> Type]
        /\ status' \in [Contract -> Status]
        /\ contractStatus' \in [Contract -> ContractStatus]
    BY <1>5, <2>3, SetStatusTypes DEF ApproveRefund
  <2>. QED
    BY <1>5, <2>2, <2>4 DEF ApproveRefund, TypeOK
<1>6. ASSUME NEW n \in Machine, CompleteExchange(c, n) PROVE TypeOK'
  <2>1. StatusEvent(item[c], "RETURNED") \cup StatusEvent(n, "SALE") \subseteq Event
    BY StatusEventType
  <2>2. {item[c], n} \subseteq Machine
    BY <1>6 DEF CompleteExchange
  <2>3. /\ queue' \subseteq Event /\ explained' \subseteq Machine /\ stock' = stock
    BY <1>6, <2>1, <2>2, PublishTypes DEF CompleteExchange
  <2>. QED
    BY <1>6, <2>3 DEF CompleteExchange, TypeOK
<1>7. ASSUME NEW m \in Machine, CheckReplacement(c, m) PROVE TypeOK'
  BY <1>7, CheckTypes DEF CheckReplacement
<1>8. CASE ReplacementFails(c)
  BY <1>8, CheckTypes DEF ReplacementFails, TypeOK
<1>. QED
  BY <1>1, <1>2, <1>3, <1>4, <1>5, <1>6, <1>7, <1>8 DEF ExchangeStep

LEMMA InventoryStepTypes == ASSUME TypeOK, InventoryStep PROVE TypeOK'
<1>1. ASSUME NEW e \in queue, LoseEvent(e) PROVE TypeOK'
  BY <1>1 DEF LoseEvent, TypeOK, Event
<1>2. ASSUME NEW e \in queue, NEW again \in BOOLEAN, Consume(e, again) PROVE TypeOK'
  <2>1. e.machine \in Machine /\ StatusOf[e.bill] \in StockStatus
    BY DEF TypeOK, Event, BillType, StatusOf, StockStatus
  <2>. QED
    BY <1>2, <2>1 DEF Consume, TypeOK
<1>3. ASSUME NEW m \in Machine, BackOnShelf(m) PROVE TypeOK'
  BY <1>3 DEF BackOnShelf, TypeOK, StockStatus
<1>. QED
  BY <1>1, <1>2, <1>3 DEF InventoryStep

LEMMA NextTypeOK == ASSUME TypeOK, [Next]_vars PROVE TypeOK'
<1>1. CASE UNCHANGED vars
  BY <1>1 DEF TypeOK
<1>2. CASE Next
  BY <1>2, LifecycleAssumption, QuotationStepTypes, ContractStepTypes, ExchangeStepTypes,
     DirectSaleTypes, InventoryStepTypes DEF Next
<1>. QED
  BY <1>1, <1>2

(* Every column keeps a value of its type.                                 *)
THEOREM TypeCorrect == Spec => []TypeOK
  BY InitTypeOK, NextTypeOK, PTL DEF Spec

----------------------------------------------------------------------------
(* The allocations implement MachineHolding.                               *)

(* Only allocation, sale, release, replacement and swap touch the rows.    *)
LEMMA AllocatedKept ==
    ASSUME NEW c \in Contract,
           \/ QuotationStep(c)
           \/ CheckAllocation(c) \/ AllocateOtherLines(c) \/ AllocationFails(c)
           \/ ActivateContract(c) \/ FinanceReject(c) \/ RecordFinalUsage(c)
           \/ GenerateConsolidatedFinalInvoice(c)
           \/ ReleaseFind(c) \/ ReleaseCutShort(c) \/ ExpireContract(c)
           \/ ReplacementFails(c) \/ RejectSwap(c) \/ ApproveRefund(c)
           \/ \E m \in Machine : CheckReplacement(c, m) \/ CompleteExchange(c, m)
           \/ \E m \in Machine \cup {NoMachine}, n \in Machine : InitiateSwap(c, m, n)
           \/ InventoryStep
    PROVE  allocated' = allocated
<1>1. CASE QuotationStep(c)
  BY <1>1 DEF QuotationStep, UpdateStatus, CustomerRespond, EmployeeApprove,
     FinanceApproveQuotation, RequestValidityExtension, ConvertToTransaction,
     ApproveQuotation, ReassignCustomer, CheckDelete, DeleteInvoice, Paper
<1>2. CASE InventoryStep
  BY <1>2 DEF InventoryStep, LoseEvent, Consume, BackOnShelf
<1>. QED
  BY <1>1, <1>2 DEF CheckAllocation, Check, AllocateOtherLines, AllocationFails,
     ActivateContract, FinanceReject, RecordFinalUsage, GenerateConsolidatedFinalInvoice,
     ReleaseFind, ReleaseCutShort, ExpireContract, CheckReplacement, ReplacementFails,
     RejectSwap, ApproveRefund, CompleteExchange, InitiateSwap

(* The actions that do, as steps of MachineHolding.                        *)
LEMMA AllocateTakes ==
    ASSUME NEW c \in Contract, NEW m \in Machine, AllocateMachines(c, m)
    PROVE  [Holding!Next]_allocated
<1>1. CASE <<c, m>> \in allocated
  BY <1>1 DEF AllocateMachines
<1>2. CASE FreeOfIndex(m)
  <2>1. Holding!Take(c, m)
    BY <1>2 DEF AllocateMachines, FreeOfIndex, Holding!Take, Holding!Free
  <2>. QED
    BY <2>1 DEF Holding!Next
<1>. QED
  BY <1>1, <1>2 DEF AllocateMachines

LEMMA SaleTakes ==
    ASSUME NEW c \in Contract, NEW m \in Machine, DirectSale(c, m)
    PROVE  [Holding!Next]_allocated
<1>1. Holding!Take(c, m)
  BY DEF DirectSale, FreeOfIndex, Holding!Take, Holding!Free
<1>. QED
  BY <1>1 DEF Holding!Next

LEMMA ReleaseGivesBack ==
    ASSUME NEW c \in Contract, ReleaseUpdate(c)
    PROVE  [Holding!Next]_allocated
<1>1. Holding!GiveBack(c, Machine)
  BY DEF ReleaseUpdate, Holding!GiveBack
<1>2. Machine \in SUBSET Machine
  OBVIOUS
<1>. QED
  BY <1>1, <1>2 DEF Holding!Next

(* A replacement exchanges a row that is still there, and takes a machine  *)
(* when it is not.                                                         *)
LEMMA ReplaceExchangesOrTakes ==
    ASSUME TypeOK, NEW c \in Contract, NEW n \in Machine, ReplaceDevice(c, n)
    PROVE  [Holding!Next]_allocated
<1>1. PICK m \in Machine \cup {NoMachine}, live \in BOOLEAN :
         /\ FreeOfIndex(n)
         /\ allocated' = (IF live THEN allocated \ {<<c, m>>} ELSE allocated) \cup {<<c, n>>}
  BY DEF ReplaceDevice, TypeOK
<1>2. CASE live /\ <<c, m>> \in allocated
  <2>1. m \in Machine /\ Holding!Exchange(c, m, n)
    BY <1>1, <1>2 DEF TypeOK, FreeOfIndex, Holding!Exchange, Holding!Free
  <2>. QED
    BY <2>1 DEF Holding!Next
<1>3. CASE ~ live \/ <<c, m>> \notin allocated
  <2>1. allocated' = allocated \cup {<<c, n>>}
    BY <1>1, <1>3
  <2>2. Holding!Take(c, n)
    BY <1>1, <2>1 DEF FreeOfIndex, Holding!Take, Holding!Free
  <2>. QED
    BY <2>2 DEF Holding!Next
<1>. QED
  BY <1>2, <1>3

LEMMA SwapTakesOrExchanges ==
    ASSUME TypeOK, NEW c \in Contract, NEW old \in Machine \cup {NoMachine},
           ApproveSwap(c, old)
    PROVE  [Holding!Next]_allocated
<1>. DEFINE n == swap[c].requested
<1>1. n \in Machine
  BY DEF ApproveSwap, TypeOK, NoSwap
<1>2. /\ FreeOfIndex(n) \/ n = old
      /\ allocated' = (allocated \ {<<c, old>>}) \cup {<<c, n>>}
      /\ old = NoMachine \/ old \in HeldBy(c)
  BY DEF ApproveSwap
<1>. HIDE DEF n
<1>3. CASE n = old
  <2>1. <<c, n>> \in allocated
    BY <1>1, <1>2, <1>3, LifecycleAssumption DEF HeldBy
  <2>. QED
    BY <1>2, <1>3, <2>1
<1>4. CASE FreeOfIndex(n) /\ old = NoMachine
  <2>1. <<c, old>> \notin allocated
    BY <1>4, LifecycleAssumption DEF TypeOK
  <2>2. Holding!Take(c, n)
    BY <1>2, <1>4, <2>1 DEF FreeOfIndex, Holding!Take, Holding!Free
  <2>. QED
    BY <1>1, <2>2 DEF Holding!Next
<1>5. CASE FreeOfIndex(n) /\ old \in HeldBy(c)
  <2>1. old \in Machine /\ Holding!Exchange(c, old, n)
    BY <1>2, <1>5 DEF HeldBy, FreeOfIndex, Holding!Exchange, Holding!Free
  <2>. QED
    BY <1>1, <2>1 DEF Holding!Next
<1>. QED
  BY <1>2, <1>3, <1>4, <1>5

LEMMA StepImplementsHolding ==
    ASSUME TypeOK, [Next]_vars
    PROVE  [Holding!Next]_allocated
<1>1. CASE UNCHANGED vars
  BY <1>1
<1>2. ASSUME NEW c \in Contract, ContractStep(c) PROVE [Holding!Next]_allocated
  BY <1>2, AllocateTakes, ReleaseGivesBack, AllocatedKept DEF ContractStep
<1>3. ASSUME NEW c \in Contract, ExchangeStep(c) PROVE [Holding!Next]_allocated
  BY <1>3, ReplaceExchangesOrTakes, SwapTakesOrExchanges, AllocatedKept DEF ExchangeStep
<1>4. ASSUME NEW c \in Contract, QuotationStep(c) PROVE allocated' = allocated
  BY <1>4, AllocatedKept
<1>5. ASSUME InventoryStep PROVE allocated' = allocated
  BY <1>5 DEF InventoryStep, LoseEvent, Consume, BackOnShelf
<1>. QED
  BY <1>1, <1>2, <1>3, <1>4, <1>5, SaleTakes, LifecycleAssumption DEF Next

(* The ALLOCATED rows implement MachineHolding.                            *)
THEOREM AllocationsImplementHolding == Spec => ImplementsHolding
<1>1. Init => Holding!Init
  BY DEF Init, Holding!Init
<1>. QED
  BY <1>1, StepImplementsHolding, TypeCorrect, PTL DEF Spec, ImplementsHolding, Holding!Spec

(* A step of MachineHolding leaves a machine with one contract.            *)
LEMMA HoldingStepOneHolder ==
    ASSUME Holding!OneHolder, [Holding!Next]_allocated
    PROVE  Holding!OneHolder'
<1>. USE DEF Holding!OneHolder, Holding!Free
<1>1. CASE allocated' = allocated
  BY <1>1
<1>2. ASSUME NEW c \in Contract, NEW m \in Machine, Holding!Take(c, m)
      PROVE Holding!OneHolder'
  BY <1>2 DEF Holding!Take
<1>3. ASSUME NEW c \in Contract, NEW S \in SUBSET Machine, Holding!GiveBack(c, S)
      PROVE Holding!OneHolder'
  BY <1>3 DEF Holding!GiveBack
<1>4. ASSUME NEW c \in Contract, NEW m \in Machine, NEW n \in Machine, Holding!Exchange(c, m, n)
      PROVE Holding!OneHolder'
  BY <1>4 DEF Holding!Exchange
<1>. QED
  BY <1>1, <1>2, <1>3, <1>4 DEF Holding!Next

(* A machine is never allocated to two contracts.                          *)
THEOREM OneContractPerMachine == Spec => []Holding!OneHolder
<1>1. Init => Holding!OneHolder
  BY DEF Init, Holding!OneHolder
<1>. QED
  BY <1>1, StepImplementsHolding, HoldingStepOneHolder, TypeCorrect, PTL DEF Spec

----------------------------------------------------------------------------
(* Which contracts hold machines.                                          *)

(* Only a sale has a swap request, and one for another machine than the    *)
(* one it is to replace.                                                   *)
SwapsAreSales ==
    \A c \in Contract :
        swap[c] # NoSwap => ~ Metered(c) /\ swap[c].current # swap[c].requested

(* A handler that is to replace a machine read a row of it, and the row is *)
(* still there unless the machine came back meanwhile.                     *)
RowsReadAreRight ==
    \A c \in Contract :
        /\ checked[c].op = "replace" => checked[c].row \in Machine
        /\ checked[c].live => checked[c].op = "replace" /\ checked[c].row \in HeldBy(c)

(* The three are inductive with the types.                                 *)
HInv == TypeOK /\ SwapsAreSales /\ RowsReadAreRight /\ EndedHoldsNothing

LEMMA InitHInv == Init => HInv
<1>. SUFFICES ASSUME Init PROVE HInv
  OBVIOUS
<1>1. TypeOK
  BY InitTypeOK
<1>2. SwapsAreSales
  BY DEF Init, SwapsAreSales
<1>3. \A c \in Contract : HeldBy(c) = {}
  BY DEF Init, HeldBy
<1>4. RowsReadAreRight
  BY DEF Init, RowsReadAreRight, NoCheck
<1>. QED
  BY <1>1, <1>2, <1>3, <1>4 DEF HInv, EndedHoldsNothing

(* The steps of one contract leave every other contract's rows alone.      *)
OthersKept(c) ==
    \A d \in Contract \ {c} :
        /\ type'[d] = type[d] /\ status'[d] = status[d]
        /\ contractStatus'[d] = contractStatus[d]
        /\ HeldBy(d)' = HeldBy(d)
        /\ swap'[d] = swap[d]
        /\ release'[d] = release[d]
        /\ checked'[d] = checked[d]
        /\ d \in stranded' <=> d \in stranded

(* What is left to show of a step is about its own contract.               *)
OwnSwap(c) ==
    swap'[c] # NoSwap => ~ Metered(c) /\ swap'[c].current # swap'[c].requested
OwnRow(c) ==
    /\ checked'[c].op = "replace" => checked'[c].row \in Machine
    /\ checked'[c].live => checked'[c].op = "replace" /\ checked'[c].row \in HeldBy(c)'
OwnEnd(c) ==
    /\ release'[c] = NoRelease
    /\ c \notin stranded'
    /\ \/ Metered(c) /\ status'[c] = "FINANCE_REJECTED"
       \/ saleType[c] = "RENT" /\ contractStatus'[c] = "COMPLETED"
    => HeldBy(c)' = {}

LEMMA OwnContract ==
    ASSUME HInv, NEW c \in Contract, OthersKept(c), TypeOK', saleType' = saleType,
           OwnSwap(c), OwnRow(c), OwnEnd(c)
    PROVE  HInv'
<1>1. \A d \in Contract : Metered(d)' <=> Metered(d)
  BY DEF Metered
<1>2. SwapsAreSales'
  BY <1>1 DEF HInv, SwapsAreSales, OthersKept, OwnSwap
<1>3. RowsReadAreRight'
  BY DEF HInv, RowsReadAreRight, OthersKept, OwnRow
<1>4. EndedHoldsNothing'
  BY <1>1 DEF HInv, EndedHoldsNothing, OthersKept, OwnEnd
<1>. QED
  BY <1>2, <1>3, <1>4 DEF HInv

(* Rows of the contract that are still ALLOCATED are still read right.     *)
LEMMA RowKept ==
    ASSUME HInv, NEW c \in Contract, HeldBy(c) \subseteq HeldBy(c)',
           checked' = checked \/ checked'[c] = NoCheck
    PROVE  OwnRow(c)
BY DEF HInv, RowsReadAreRight, OwnRow, NoCheck

(* Saving ends what was read.                                              *)
LEMMA SavedRow ==
    ASSUME TypeOK, NEW c \in Contract
    PROVE  \A op : Saves(c, op) => /\ checked'[c] = NoCheck
                                   /\ \A d \in Contract \ {c} : checked'[d] = checked[d]
BY DEF TypeOK, Saves

(* What closes rows says so to the handler that read one.                  *)
LEMMA ClosedRow ==
    ASSUME HInv, NEW c \in Contract, NEW S, RowsClosed(c, S), HeldBy(c) \ S \subseteq HeldBy(c)'
    PROVE  OwnRow(c) /\ \A d \in Contract \ {c} : checked'[d] = checked[d]
<1>1. checked' = [checked EXCEPT ![c].live = checked[c].live /\ checked[c].row \notin S]
  BY DEF RowsClosed
<1>2. checked[c] \in [op : {"none", "allocate", "replace"},
                      row : Machine \cup {NoMachine}, live : BOOLEAN]
  BY DEF HInv, TypeOK
<1>3. /\ checked'[c].op = checked[c].op /\ checked'[c].row = checked[c].row
      /\ checked'[c].live = (checked[c].live /\ checked[c].row \notin S)
      /\ \A d \in Contract \ {c} : checked'[d] = checked[d]
  BY <1>1, <1>2 DEF HInv, TypeOK
<1>. QED
  BY <1>3 DEF HInv, RowsReadAreRight, OwnRow

(* History of one contract.                                                *)
LEMMA HistoryOfOthers ==
    ASSUME NEW c \in Contract, NEW S, LeavesBehind(c, S)
    PROVE  /\ \A d \in Contract \ {c} : d \in stranded' <=> d \in stranded
           /\ Metered(c) /\ S # {} => c \in stranded'
           /\ stranded \subseteq stranded'
BY DEF LeavesBehind

(* SetStatus writes one row.                                               *)
LEMMA SetStatusRow ==
    ASSUME TypeOK, NEW c \in Contract, NEW t, NEW s, NEW cs, SetStatus(c, t, s, cs)
    PROVE  /\ type'[c] = t /\ status'[c] = s /\ contractStatus'[c] = cs
           /\ \A d \in Contract \ {c} : /\ type'[d] = type[d] /\ status'[d] = status[d]
                                       /\ contractStatus'[d] = contractStatus[d]
BY DEF TypeOK, SetStatus

(* What an operation on the invoice row alone leaves to show.              *)
LEMMA PaperHInv ==
    ASSUME HInv, NEW c \in Contract, NEW t, NEW s, TypeOK',
           SetStatus(c, t, s, contractStatus[c]),
           UNCHANGED <<saleType, allocated, swap, release, checked>>,
           \A d \in Contract \ {c} : d \in stranded' <=> d \in stranded,
           c \in stranded => c \in stranded',
           s = "FINANCE_REJECTED" => c \in stranded' \/ ~ Metered(c) \/ HeldBy(c) = {}
    PROVE  HInv'
<1>. TypeOK
  BY DEF HInv
<1>1. \A d \in Contract : HeldBy(d)' = HeldBy(d)
  BY DEF HeldBy
<1>2. OthersKept(c)
  BY <1>1, SetStatusRow DEF OthersKept
<1>3. OwnSwap(c)
  BY DEF HInv, SwapsAreSales, OwnSwap
<1>4. OwnRow(c)
  BY <1>1, RowKept
<1>5. status'[c] = s /\ contractStatus'[c] = contractStatus[c]
  BY SetStatusRow
<1>6. OwnEnd(c)
  BY <1>1, <1>5 DEF HInv, EndedHoldsNothing, OwnEnd
<1>. QED
  BY <1>2, <1>3, <1>4, <1>6, OwnContract

(* Nothing of a contract changed.                                          *)
LEMMA UnchangedHInv ==
    ASSUME HInv, TypeOK',
           UNCHANGED <<saleType, paperVars, allocated, swap, release, checked, stranded>>
    PROVE  HInv'
BY DEF HInv, SwapsAreSales, RowsReadAreRight, EndedHoldsNothing, Metered, HeldBy

(* Quotation steps write the invoice row alone, and name a rejection only  *)
(* by hand.                                                                *)
LEMMA QuotationHInv == ASSUME HInv, NEW c \in Contract, QuotationStep(c) PROVE HInv'
<1>. TypeOK
  BY DEF HInv
<1>1. TypeOK'
  BY QuotationStepTypes
<1>2. ASSUME NEW s \in SetByHand[saleType], UpdateStatus(c, s) PROVE HInv'
  BY <1>1, <1>2, HistoryOfOthers, PaperHInv DEF UpdateStatus
<1>3. CASE DeleteInvoice(c)
  BY <1>1, <1>3, PaperHInv DEF DeleteInvoice
<1>4. CASE CheckDelete(c)
  BY <1>1, <1>4, UnchangedHInv DEF CheckDelete
<1>5. CASE \E t \in Type, s \in Status : Paper(c, t, s) /\ s # "FINANCE_REJECTED"
  BY <1>1, <1>5, PaperHInv DEF Paper
<1>. QED
  BY <1>2, <1>3, <1>4, <1>5 DEF QuotationStep, CustomerRespond, EmployeeApprove,
     FinanceApproveQuotation, RequestValidityExtension, ConvertToTransaction,
     ApproveQuotation, ReassignCustomer, TypeOK, Type, Status

LEMMA ContractHInv == ASSUME HInv, NEW c \in Contract, ContractStep(c) PROVE HInv'
<1>. USE DEF StartRelease
<1>. TypeOK /\ SwapsAreSales /\ RowsReadAreRight /\ EndedHoldsNothing
  BY DEF HInv
<1>1. TypeOK'
  BY ContractStepTypes
<1>2. ASSUME NEW m \in Machine, AllocateMachines(c, m) PROVE HInv'
  <2>1. /\ contractStatus'[c] = "PENDING_CONFIRMATION"
        /\ status'[c] \in {"FINANCE_APPROVED", "DELETED"}
        /\ \A d \in Contract \ {c} : /\ type'[d] = type[d] /\ status'[d] = status[d]
                                    /\ contractStatus'[d] = contractStatus[d]
    BY <1>2, SetStatusRow DEF AllocateMachines, SaveAllocated
  <2>2. HeldBy(c) \subseteq HeldBy(c)' /\ \A d \in Contract \ {c} : HeldBy(d)' = HeldBy(d)
    BY <1>2 DEF AllocateMachines, HeldBy
  <2>3. checked'[c] = NoCheck /\ \A d \in Contract \ {c} : checked'[d] = checked[d]
    BY <1>2, SavedRow DEF AllocateMachines
  <2>4. OthersKept(c)
    BY <1>2, <2>1, <2>2, <2>3 DEF AllocateMachines, OthersKept
  <2>5. OwnSwap(c)
    BY <1>2 DEF AllocateMachines, SwapsAreSales, OwnSwap
  <2>6. OwnRow(c)
    BY <2>2, <2>3, RowKept
  <2>7. OwnEnd(c)
    BY <2>1 DEF OwnEnd
  <2>. QED
    BY <1>1, <1>2, <2>4, <2>5, <2>6, <2>7, OwnContract DEF AllocateMachines
<1>3. CASE AllocateOtherLines(c)
  <2>1. /\ contractStatus'[c] = "PENDING_CONFIRMATION"
        /\ status'[c] \in {"FINANCE_APPROVED", "DELETED"}
        /\ \A d \in Contract \ {c} : /\ type'[d] = type[d] /\ status'[d] = status[d]
                                    /\ contractStatus'[d] = contractStatus[d]
    BY <1>3, SetStatusRow DEF AllocateOtherLines, SaveAllocated
  <2>2. \A d \in Contract : HeldBy(d)' = HeldBy(d)
    BY <1>3 DEF AllocateOtherLines, HeldBy
  <2>3. checked'[c] = NoCheck /\ \A d \in Contract \ {c} : checked'[d] = checked[d]
    BY <1>3, SavedRow DEF AllocateOtherLines
  <2>4. OthersKept(c)
    BY <1>3, <2>1, <2>2, <2>3 DEF AllocateOtherLines, OthersKept
  <2>5. OwnSwap(c)
    BY <1>3 DEF AllocateOtherLines, SwapsAreSales, OwnSwap
  <2>6. OwnRow(c)
    BY <2>2, <2>3, RowKept
  <2>7. OwnEnd(c)
    BY <2>1 DEF OwnEnd
  <2>. QED
    BY <1>1, <1>3, <2>4, <2>5, <2>6, <2>7, OwnContract DEF AllocateOtherLines
<1>4. CASE ActivateContract(c)
  <2>1. allocated' = allocated /\ saleType' = saleType
    BY <1>4 DEF ActivateContract
  <2>2. \A d \in Contract : HeldBy(d)' = HeldBy(d)
    BY <2>1 DEF HeldBy
  <2>3. OthersKept(c)
    BY <1>4, <2>2, SetStatusRow DEF ActivateContract, OthersKept, TypeOK
  <2>4. OwnSwap(c)
    BY <1>4 DEF ActivateContract, SwapsAreSales, OwnSwap
  <2>5. OwnRow(c)
    BY <1>4, <2>2, RowKept DEF ActivateContract
  <2>6. OwnEnd(c)
    BY <1>4, <2>2, SetStatusRow DEF ActivateContract, EndedHoldsNothing, OwnEnd, TypeOK, NoRelease
  <2>. QED
    BY <1>1, <2>1, <2>3, <2>4, <2>5, <2>6, OwnContract
<1>5. CASE FinanceReject(c)
  <2>1. allocated' = allocated /\ saleType' = saleType
    BY <1>5 DEF FinanceReject
  <2>2. \A d \in Contract : HeldBy(d)' = HeldBy(d)
    BY <2>1 DEF HeldBy
  <2>3. OthersKept(c)
    BY <1>5, <2>2, SetStatusRow DEF FinanceReject, OthersKept, TypeOK
  <2>4. OwnSwap(c)
    BY <1>5 DEF FinanceReject, SwapsAreSales, OwnSwap
  <2>5. OwnRow(c)
    BY <1>5, <2>2, RowKept DEF FinanceReject
  <2>6. OwnEnd(c)
    BY <1>5, <2>2, SetStatusRow DEF FinanceReject, EndedHoldsNothing, OwnEnd, TypeOK, NoRelease
  <2>. QED
    BY <1>1, <2>1, <2>3, <2>4, <2>5, <2>6, OwnContract
<1>6. CASE RecordFinalUsage(c)
  <2>1. allocated' = allocated /\ saleType' = saleType
    BY <1>6 DEF RecordFinalUsage
  <2>2. \A d \in Contract : HeldBy(d)' = HeldBy(d)
    BY <2>1 DEF HeldBy
  <2>3. OthersKept(c)
    BY <1>6, <2>2, SetStatusRow DEF RecordFinalUsage, OthersKept, TypeOK
  <2>4. OwnSwap(c)
    BY <1>6 DEF RecordFinalUsage, SwapsAreSales, OwnSwap
  <2>5. OwnRow(c)
    BY <1>6, <2>2, RowKept DEF RecordFinalUsage
  <2>6. OwnEnd(c)
    BY <1>6, <2>2, SetStatusRow DEF RecordFinalUsage, EndedHoldsNothing, OwnEnd, TypeOK, NoRelease
  <2>. QED
    BY <1>1, <2>1, <2>3, <2>4, <2>5, <2>6, OwnContract
<1>7. CASE GenerateConsolidatedFinalInvoice(c)
  <2>1. allocated' = allocated /\ saleType' = saleType
    BY <1>7 DEF GenerateConsolidatedFinalInvoice
  <2>2. \A d \in Contract : HeldBy(d)' = HeldBy(d)
    BY <2>1 DEF HeldBy
  <2>3. OthersKept(c)
    BY <1>7, <2>2, SetStatusRow DEF GenerateConsolidatedFinalInvoice, OthersKept, TypeOK
  <2>4. OwnSwap(c)
    BY <1>7 DEF GenerateConsolidatedFinalInvoice, SwapsAreSales, OwnSwap
  <2>5. OwnRow(c)
    BY <1>7, <2>2, RowKept DEF GenerateConsolidatedFinalInvoice
  <2>6. OwnEnd(c)
    BY <1>7, <2>2, SetStatusRow DEF GenerateConsolidatedFinalInvoice, EndedHoldsNothing, OwnEnd, TypeOK, NoRelease
  <2>. QED
    BY <1>1, <2>1, <2>3, <2>4, <2>5, <2>6, OwnContract
<1>8. CASE ReleaseFind(c)
  <2>1. allocated' = allocated /\ saleType' = saleType
    BY <1>8 DEF ReleaseFind
  <2>2. \A d \in Contract : HeldBy(d)' = HeldBy(d)
    BY <2>1 DEF HeldBy
  <2>3. OthersKept(c)
    BY <1>8, <2>2 DEF ReleaseFind, OthersKept, TypeOK
  <2>4. OwnSwap(c)
    BY <1>8 DEF ReleaseFind, SwapsAreSales, OwnSwap
  <2>5. OwnRow(c)
    BY <1>8, <2>2, RowKept DEF ReleaseFind
  <2>6. OwnEnd(c)
    BY <1>8, <2>2, SetStatusRow DEF ReleaseFind, EndedHoldsNothing, OwnEnd, TypeOK, NoRelease
  <2>. QED
    BY <1>1, <2>1, <2>3, <2>4, <2>5, <2>6, OwnContract
<1>9. CASE ReleaseCutShort(c)
  <2>1. allocated' = allocated /\ saleType' = saleType
    BY <1>9 DEF ReleaseCutShort
  <2>2. \A d \in Contract : HeldBy(d)' = HeldBy(d)
    BY <2>1 DEF HeldBy
  <2>3. OthersKept(c)
    BY <1>9, <2>2, HistoryOfOthers DEF ReleaseCutShort, OthersKept, TypeOK
  <2>4. OwnSwap(c)
    BY <1>9 DEF ReleaseCutShort, SwapsAreSales, OwnSwap
  <2>5. OwnRow(c)
    BY <1>9, <2>2, RowKept DEF ReleaseCutShort
  <2>6. OwnEnd(c)
    BY <1>9, <2>2, HistoryOfOthers DEF ReleaseCutShort, Metered, EndedHoldsNothing, OwnEnd, TypeOK, NoRelease
  <2>. QED
    BY <1>1, <2>1, <2>3, <2>4, <2>5, <2>6, OwnContract
<1>10. CASE ExpireContract(c)
  <2>1. allocated' = allocated /\ saleType' = saleType
    BY <1>10 DEF ExpireContract
  <2>2. \A d \in Contract : HeldBy(d)' = HeldBy(d)
    BY <2>1 DEF HeldBy
  <2>3. OthersKept(c)
    BY <1>10, <2>2, SetStatusRow DEF ExpireContract, OthersKept, TypeOK
  <2>4. OwnSwap(c)
    BY <1>10 DEF ExpireContract, SwapsAreSales, OwnSwap
  <2>5. OwnRow(c)
    BY <1>10, <2>2, RowKept DEF ExpireContract
  <2>6. OwnEnd(c)
    BY <1>10, <2>2, SetStatusRow DEF ExpireContract, EndedHoldsNothing, OwnEnd, TypeOK, NoRelease
  <2>. QED
    BY <1>1, <2>1, <2>3, <2>4, <2>5, <2>6, OwnContract
<1>11. CASE ReleaseUpdate(c)
  <2>1. HeldBy(c)' = {} /\ \A d \in Contract \ {c} : HeldBy(d)' = HeldBy(d)
    BY <1>11 DEF ReleaseUpdate, HeldBy
  <2>2. HeldBy(c) \ Machine \subseteq HeldBy(c)'
    BY DEF HeldBy
  <2>3. OwnRow(c) /\ \A d \in Contract \ {c} : checked'[d] = checked[d]
    BY <1>11, <2>2, ClosedRow DEF ReleaseUpdate
  <2>4. OthersKept(c)
    BY <1>11, <2>1, <2>3 DEF ReleaseUpdate, OthersKept, TypeOK
  <2>5. OwnSwap(c) /\ OwnEnd(c)
    BY <1>11, <2>1 DEF ReleaseUpdate, SwapsAreSales, OwnSwap, OwnEnd
  <2>. QED
    BY <1>1, <1>11, <2>3, <2>4, <2>5, OwnContract DEF ReleaseUpdate
<1>12. CASE CheckAllocation(c)
  <2>1. \A d \in Contract : HeldBy(d)' = HeldBy(d)
    BY <1>12 DEF CheckAllocation, Check, HeldBy
  <2>2. /\ checked'[c].op = "allocate" /\ ~ checked'[c].live
        /\ \A d \in Contract \ {c} : checked'[d] = checked[d]
    BY <1>12 DEF CheckAllocation, Check, TypeOK
  <2>3. OthersKept(c)
    BY <1>12, <2>1, <2>2 DEF CheckAllocation, Check, OthersKept
  <2>4. OwnRow(c) /\ OwnSwap(c) /\ OwnEnd(c)
    BY <1>12, <2>1, <2>2
       DEF CheckAllocation, Check, OwnRow, OwnSwap, OwnEnd, SwapsAreSales, EndedHoldsNothing
  <2>. QED
    BY <1>1, <1>12, <2>3, <2>4, OwnContract DEF CheckAllocation, Check
<1>13. CASE AllocationFails(c)
  <2>1. \A d \in Contract : HeldBy(d)' = HeldBy(d)
    BY <1>13 DEF AllocationFails, HeldBy
  <2>2. checked'[c] = NoCheck /\ \A d \in Contract \ {c} : checked'[d] = checked[d]
    BY <1>13, SavedRow DEF AllocationFails
  <2>3. OthersKept(c)
    BY <1>13, <2>1, <2>2 DEF AllocationFails, OthersKept
  <2>4. OwnRow(c)
    BY <2>1, <2>2, RowKept
  <2>5. OwnSwap(c) /\ OwnEnd(c)
    BY <1>13, <2>1 DEF AllocationFails, OwnSwap, OwnEnd, SwapsAreSales, EndedHoldsNothing
  <2>. QED
    BY <1>1, <1>13, <2>3, <2>4, <2>5, OwnContract DEF AllocationFails
<1>. QED
  BY <1>2, <1>3, <1>4, <1>5, <1>6, <1>7, <1>8, <1>9, <1>10, <1>11, <1>12, <1>13
     DEF ContractStep

(* A direct sale is no metered contract.                                   *)
LEMMA DirectSaleHInv ==
    ASSUME HInv, NEW c \in Contract, NEW m \in Machine, DirectSale(c, m)
    PROVE  HInv'
<1>. TypeOK /\ SwapsAreSales
  BY DEF HInv
<1>1. TypeOK'
  BY DirectSaleTypes
<1>2. ~ Metered(c) /\ saleType[c] # "RENT" /\ saleType' = saleType
  BY DEF DirectSale, Metered
<1>3. OthersKept(c)
  BY SetStatusRow DEF DirectSale, OthersKept, HeldBy
<1>4. OwnSwap(c) /\ OwnEnd(c)
  BY <1>2 DEF DirectSale, SwapsAreSales, OwnSwap, OwnEnd
<1>5. OwnRow(c)
  <2>1. HeldBy(c) \subseteq HeldBy(c)' /\ checked' = checked
    BY DEF DirectSale, HeldBy
  <2>. QED
    BY <2>1, RowKept
<1>. QED
  BY <1>1, <1>2, <1>3, <1>4, <1>5, OwnContract

LEMMA ExchangeHInv == ASSUME HInv, NEW c \in Contract, ExchangeStep(c) PROVE HInv'
<1>. TypeOK /\ SwapsAreSales /\ RowsReadAreRight /\ EndedHoldsNothing
  BY DEF HInv
<1>1. TypeOK'
  BY ExchangeStepTypes
<1>2. ASSUME NEW n \in Machine, ReplaceDevice(c, n) PROVE HInv'
  <2>1. checked'[c] = NoCheck /\ \A d \in Contract \ {c} : checked'[d] = checked[d]
    BY <1>2, SavedRow DEF ReplaceDevice
  <2>2. \A d \in Contract \ {c} : HeldBy(d)' = HeldBy(d)
    BY <1>2 DEF ReplaceDevice, HeldBy
  <2>3. OthersKept(c)
    BY <1>2, <2>1, <2>2, HistoryOfOthers DEF ReplaceDevice, OthersKept
  <2>4. OwnSwap(c)
    BY <1>2 DEF ReplaceDevice, SwapsAreSales, OwnSwap
  <2>5. OwnRow(c)
    BY <2>1 DEF OwnRow, NoCheck
  <2>6. CASE checked[c].live
    <3>1. HeldBy(c) # {} /\ stranded \subseteq stranded'
      BY <1>2, <2>6, HistoryOfOthers DEF RowsReadAreRight, ReplaceDevice
    <3>2. OwnEnd(c)
      BY <1>2, <3>1 DEF ReplaceDevice, EndedHoldsNothing, OwnEnd
    <3>. QED
      BY <1>1, <1>2, <2>3, <2>4, <2>5, <3>2, OwnContract DEF ReplaceDevice
  <2>7. CASE ~ checked[c].live
    <3>1. ~ Metered(c) \/ c \in stranded'
      BY <1>2, <2>7, HistoryOfOthers DEF ReplaceDevice
    <3>2. OwnEnd(c)
      BY <3>1 DEF OwnEnd, Metered
    <3>. QED
      BY <1>1, <1>2, <2>3, <2>4, <2>5, <3>2, OwnContract DEF ReplaceDevice
  <2>. QED
    BY <2>6, <2>7
<1>3. ASSUME NEW current \in Machine \cup {NoMachine}, NEW n \in Machine,
             InitiateSwap(c, current, n)
      PROVE HInv'
  <2>1. ~ Metered(c) /\ saleType[c] # "RENT"
    BY <1>3 DEF InitiateSwap, Metered
  <2>2. \A d \in Contract : HeldBy(d)' = HeldBy(d)
    BY <1>3 DEF InitiateSwap, HeldBy
  <2>3. OthersKept(c)
    BY <1>3, <2>2 DEF InitiateSwap, OthersKept, TypeOK
  <2>4. OwnSwap(c)
    BY <1>3, <2>1 DEF InitiateSwap, TypeOK, OwnSwap
  <2>5. OwnRow(c)
    BY <1>3, <2>2, RowKept DEF InitiateSwap
  <2>6. OwnEnd(c)
    BY <2>1 DEF OwnEnd
  <2>. QED
    BY <1>1, <1>3, <2>3, <2>4, <2>5, <2>6, OwnContract DEF InitiateSwap
<1>4. ASSUME NEW old \in Machine \cup {NoMachine}, ApproveSwap(c, old) PROVE HInv'
  <2>1. ~ Metered(c) /\ saleType[c] # "RENT"
    BY <1>4 DEF ApproveSwap, SwapsAreSales, Metered
  <2>2. /\ HeldBy(c) \ {old} \subseteq HeldBy(c)'
        /\ \A d \in Contract \ {c} : HeldBy(d)' = HeldBy(d)
    BY <1>4 DEF ApproveSwap, HeldBy
  <2>3. OwnRow(c) /\ \A d \in Contract \ {c} : checked'[d] = checked[d]
    BY <1>4, <2>2, ClosedRow DEF ApproveSwap
  <2>4. OthersKept(c)
    BY <1>4, <2>2, <2>3 DEF ApproveSwap, OthersKept, TypeOK
  <2>5. OwnSwap(c)
    BY <1>4 DEF ApproveSwap, TypeOK, OwnSwap
  <2>6. OwnEnd(c)
    BY <2>1 DEF OwnEnd
  <2>. QED
    BY <1>1, <1>4, <2>3, <2>4, <2>5, <2>6, OwnContract DEF ApproveSwap
<1>5. CASE RejectSwap(c)
  <2>1. \A d \in Contract : HeldBy(d)' = HeldBy(d)
    BY <1>5 DEF RejectSwap, HeldBy
  <2>2. OthersKept(c) /\ OwnSwap(c)
    BY <1>5, <2>1 DEF RejectSwap, OthersKept, OwnSwap, TypeOK
  <2>3. OwnRow(c)
    BY <1>5, <2>1, RowKept DEF RejectSwap
  <2>4. OwnEnd(c)
    BY <1>5, <2>1 DEF RejectSwap, EndedHoldsNothing, OwnEnd
  <2>. QED
    BY <1>1, <1>5, <2>2, <2>3, <2>4, OwnContract DEF RejectSwap
<1>6. CASE ApproveRefund(c)
  <2>1. \A d \in Contract : HeldBy(d)' = HeldBy(d)
    BY <1>6 DEF ApproveRefund, HeldBy
  <2>2. OthersKept(c)
    BY <1>6, <2>1, SetStatusRow DEF ApproveRefund, OthersKept
  <2>3. status'[c] = "REFUNDED" /\ contractStatus'[c] = contractStatus[c]
    BY <1>6, SetStatusRow DEF ApproveRefund
  <2>4. OwnSwap(c)
    BY <1>6 DEF ApproveRefund, SwapsAreSales, OwnSwap
  <2>5. OwnRow(c)
    BY <1>6, <2>1, RowKept DEF ApproveRefund
  <2>6. OwnEnd(c)
    BY <1>6, <2>1, <2>3 DEF ApproveRefund, EndedHoldsNothing, OwnEnd
  <2>. QED
    BY <1>1, <1>6, <2>2, <2>4, <2>5, <2>6, OwnContract DEF ApproveRefund
<1>7. ASSUME NEW n \in Machine, CompleteExchange(c, n) PROVE HInv'
  BY <1>1, <1>7, UnchangedHInv DEF CompleteExchange
<1>8. ASSUME NEW m \in Machine, CheckReplacement(c, m) PROVE HInv'
  <2>1. \A d \in Contract : HeldBy(d)' = HeldBy(d)
    BY <1>8 DEF CheckReplacement, Check, HeldBy
  <2>2. /\ checked'[c].op = "replace" /\ checked'[c].row = m
        /\ \A d \in Contract \ {c} : checked'[d] = checked[d]
    BY <1>8 DEF CheckReplacement, Check, TypeOK
  <2>3. m \in HeldBy(c)
    BY <1>8 DEF CheckReplacement, HeldBy
  <2>4. OthersKept(c)
    BY <1>8, <2>1, <2>2 DEF CheckReplacement, Check, OthersKept
  <2>5. OwnRow(c)
    BY <2>1, <2>2, <2>3 DEF OwnRow
  <2>6. OwnSwap(c) /\ OwnEnd(c)
    BY <1>8, <2>1
       DEF CheckReplacement, Check, OwnSwap, OwnEnd, SwapsAreSales, EndedHoldsNothing
  <2>. QED
    BY <1>1, <1>8, <2>4, <2>5, <2>6, OwnContract DEF CheckReplacement, Check
<1>9. CASE ReplacementFails(c)
  <2>1. \A d \in Contract : HeldBy(d)' = HeldBy(d)
    BY <1>9 DEF ReplacementFails, HeldBy
  <2>2. checked'[c] = NoCheck /\ \A d \in Contract \ {c} : checked'[d] = checked[d]
    BY <1>9, SavedRow DEF ReplacementFails
  <2>3. OthersKept(c)
    BY <1>9, <2>1, <2>2 DEF ReplacementFails, OthersKept
  <2>4. OwnRow(c)
    BY <2>1, <2>2, RowKept
  <2>5. OwnSwap(c) /\ OwnEnd(c)
    BY <1>9, <2>1 DEF ReplacementFails, OwnSwap, OwnEnd, SwapsAreSales, EndedHoldsNothing
  <2>. QED
    BY <1>1, <1>9, <2>3, <2>4, <2>5, OwnContract DEF ReplacementFails
<1>. QED
  BY <1>2, <1>3, <1>4, <1>5, <1>6, <1>7, <1>8, <1>9 DEF ExchangeStep

LEMMA NextHInv == ASSUME HInv, [Next]_vars PROVE HInv'
<1>1. TypeOK'
  BY NextTypeOK DEF HInv
<1>2. CASE UNCHANGED vars
  BY <1>1, <1>2, UnchangedHInv
<1>3. CASE InventoryStep
  BY <1>1, <1>3, UnchangedHInv DEF InventoryStep, LoseEvent, Consume, BackOnShelf
<1>. QED
  BY <1>2, <1>3, QuotationHInv, ContractHInv, ExchangeHInv, DirectSaleHInv,
     LifecycleAssumption DEF Next

(* A rejected or completed rental keeps no machine.                        *)
THEOREM EndedContractsHoldNothing == Spec => []EndedHoldsNothing
<1>1. HInv => EndedHoldsNothing
  BY DEF HInv
<1>. QED
  BY <1>1, InitHInv, NextHInv, PTL DEF Spec

----------------------------------------------------------------------------
(* The inventory follows the allocations.                                  *)

(* At most one event of m is under way; what it says, or what the          *)
(* inventory says when there is none, agrees with the allocations.         *)
TellsRight(m) ==
    /\ \A e, f \in queue : e.machine = m /\ f.machine = m => e = f
    /\ \A e \in queue : e.machine = m => (StatusOf[e.bill] \in Out <=> ~ FreeOfIndex(m))
    /\ ~ Pending(m) => (stock[m] \in Out <=> ~ FreeOfIndex(m))

ToldRight == \A m \in Machine \ explained : TellsRight(m)

SInv == HInv /\ Holding!OneHolder /\ ToldRight

(* Which statuses count as out.                                            *)
LEMMA OutBills ==
    /\ StatusOf["RENT"] \in Out /\ StatusOf["LEASE"] \in Out /\ StatusOf["SALE"] \in Out
    /\ StatusOf["RETURNED"] \notin Out
BY DEF StatusOf, Out

(* Events that say what the allocations then are keep the inventory right  *)
(* about every machine that is not astray.                                 *)
LEMMA Published ==
    ASSUME ToldRight, NEW events, NEW astray, Publish(events, astray),
           \A m \in Machine \ astray :
              /\ \A e \in events : e.machine = m =>
                                   (StatusOf[e.bill] \in Out <=> ~ FreeOfIndex(m)')
              /\ (\A e \in events : e.machine # m) => (FreeOfIndex(m)' <=> FreeOfIndex(m))
    PROVE  ToldRight'
<1>. SUFFICES ASSUME NEW m \in Machine, m \notin explained' PROVE TellsRight(m)'
  BY DEF ToldRight
<1>. DEFINE told == {e.machine : e \in events}
            crowded == {n \in told : \/ Pending(n)
                                     \/ \E e, f \in events : /\ e # f
                                                             /\ e.machine = n
                                                             /\ f.machine = n}
<1>1. /\ queue' = queue \cup events /\ stock' = stock
      /\ explained' = (explained \ (told \ crowded)) \cup crowded \cup astray
  BY DEF Publish
<1>2. m \notin astray /\ m \notin crowded
  BY <1>1
<1>. HIDE DEF crowded
<1>3. CASE m \in told
  <2>1. ~ Pending(m) /\ \A e, f \in events : e.machine = m /\ f.machine = m => e = f
    BY <1>2, <1>3 DEF crowded
  <2>2. \A e \in queue' : e.machine = m => e \in events
    BY <1>1, <2>1 DEF Pending
  <2>3. PICK e \in events : e.machine = m
    BY <1>3
  <2>4. Pending(m)'
    BY <1>1, <2>3 DEF Pending
  <2>. QED
    BY <1>2, <2>1, <2>2, <2>4 DEF TellsRight
<1>4. CASE m \notin told
  <2>1. \A e \in events : e.machine # m
    BY <1>4
  <2>2. m \notin explained /\ TellsRight(m) /\ (FreeOfIndex(m)' <=> FreeOfIndex(m))
    BY <1>1, <1>2, <1>4, <2>1 DEF ToldRight
  <2>3. \A e \in queue' : e.machine = m => e \in queue
    BY <1>1, <2>1
  <2>4. Pending(m) => Pending(m)'
    BY <1>1 DEF Pending
  <2>. QED
    BY <1>1, <2>2, <2>3, <2>4 DEF TellsRight
<1>. QED
  BY <1>3, <1>4

(* Steps that touch neither the rows nor the inventory.                    *)
LEMMA ToldRightKept ==
    ASSUME ToldRight, UNCHANGED <<allocated, inventoryVars>>
    PROVE  ToldRight'
BY DEF ToldRight, TellsRight, Pending, FreeOfIndex

(* A machine some contract has is not free.                                *)
LEMMA HeldIsNotFree ==
    ASSUME NEW c \in Contract, NEW m \in Machine
    PROVE  m \in HeldBy(c) => ~ FreeOfIndex(m)
BY DEF HeldBy, FreeOfIndex

(* Events of a machine that may be missing.                                *)
LEMMA StatusEventOf ==
    ASSUME NEW m, NEW bill, NEW e \in StatusEvent(m, bill)
    PROVE  e.machine = m /\ e.bill = bill /\ m # NoMachine
BY DEF StatusEvent

LEMMA BillOfIsOut == ASSUME TypeOK, NEW c \in Contract PROVE StatusOf[BillOf(c)] \in Out
BY OutBills DEF BillOf, Metered, TypeOK, SaleType

LEMMA ContractToldRight ==
    ASSUME SInv, NEW c \in Contract, ContractStep(c)
    PROVE  ToldRight'
<1>. TypeOK /\ ToldRight /\ Holding!OneHolder
  BY DEF SInv, HInv
<1>1. ASSUME NEW m \in Machine, AllocateMachines(c, m) PROVE ToldRight'
  <2>. DEFINE events == StatusEvent(m, BillOf(c))
  <2>1. ~ FreeOfIndex(m)' /\ \A n \in Machine \ {m} : FreeOfIndex(n)' <=> FreeOfIndex(n)
    BY <1>1 DEF AllocateMachines, FreeOfIndex
  <2>2. \A e \in events : e.machine = m /\ StatusOf[e.bill] \in Out
    BY StatusEventOf, BillOfIsOut
  <2>3. \E e \in events : e.machine = m
    BY LifecycleAssumption DEF StatusEvent
  <2>4. Publish(events, {})
    BY <1>1 DEF AllocateMachines
  <2>. HIDE DEF events
  <2>. QED
    BY <2>1, <2>2, <2>3, <2>4, Published
<1>2. CASE AllocateOtherLines(c)
  <2>. DEFINE events == StatusEvent(item[c], BillOf(c))
              astray == IF FreeOfIndex(item[c]) THEN {item[c]} ELSE {}
  <2>1. \A n \in Machine : FreeOfIndex(n)' <=> FreeOfIndex(n)
    BY <1>2 DEF AllocateOtherLines, FreeOfIndex
  <2>2. \A e \in events : e.machine = item[c] /\ StatusOf[e.bill] \in Out
    BY StatusEventOf, BillOfIsOut
  <2>3. FreeOfIndex(item[c]) => item[c] \in astray
    OBVIOUS
  <2>4. Publish(events, astray)
    BY <1>2 DEF AllocateOtherLines
  <2>. HIDE DEF events, astray
  <2>. QED
    BY <2>1, <2>2, <2>3, <2>4, Published
<1>3. CASE ActivateContract(c)
  <2>. DEFINE events == StatusEvent(item[c], BillOf(c))
              astray == IF item[c] # NoMachine /\ FreeOfIndex(item[c]) THEN {item[c]} ELSE {}
  <2>1. \A n \in Machine : FreeOfIndex(n)' <=> FreeOfIndex(n)
    BY <1>3 DEF ActivateContract, FreeOfIndex
  <2>2. \A e \in events : e.machine = item[c] /\ StatusOf[e.bill] \in Out /\ item[c] # NoMachine
    BY StatusEventOf, BillOfIsOut
  <2>3. item[c] # NoMachine /\ FreeOfIndex(item[c]) => item[c] \in astray
    OBVIOUS
  <2>4. Publish(events, astray)
    BY <1>3 DEF ActivateContract
  <2>. HIDE DEF events, astray
  <2>. QED
    BY <2>1, <2>2, <2>3, <2>4, Published
<1>4. CASE ReleaseUpdate(c)
  <2>. DEFINE found == release[c].found
              events == {[machine |-> m, bill |-> "RETURNED"] : m \in found}
              astray == (found \ HeldBy(c)) \cup (HeldBy(c) \ found)
  <2>1. \A m \in Machine : IF m \in HeldBy(c) THEN FreeOfIndex(m)'
                                             ELSE FreeOfIndex(m)' <=> FreeOfIndex(m)
    BY <1>4 DEF ReleaseUpdate, FreeOfIndex, HeldBy, Holding!OneHolder
  <2>2. \A e \in events : e.machine \in found /\ StatusOf[e.bill] \notin Out
    BY OutBills
  <2>3. ASSUME NEW m \in found PROVE \E e \in events : e.machine = m
    <3>1. [machine |-> m, bill |-> "RETURNED"] \in events
      OBVIOUS
    <3>. QED
      BY <3>1
  <2>4. \A m \in Machine \ astray : m \in found <=> m \in HeldBy(c)
    OBVIOUS
  <2>5. Publish(events, astray)
    BY <1>4 DEF ReleaseUpdate
  <2>. HIDE DEF events, astray, found
  <2>. QED
    BY <2>1, <2>2, <2>3, <2>4, <2>5, Published
<1>5. CASE ExpireContract(c)
  <2>. DEFINE events == {[machine |-> m, bill |-> "RETURNED"] : m \in HeldBy(c)}
  <2>1. \A n \in Machine : FreeOfIndex(n)' <=> FreeOfIndex(n)
    BY <1>5 DEF ExpireContract, FreeOfIndex
  <2>2. \A e \in events : e.machine \in HeldBy(c)
    OBVIOUS
  <2>3. Publish(events, HeldBy(c))
    BY <1>5 DEF ExpireContract
  <2>. HIDE DEF events
  <2>. QED
    BY <2>1, <2>2, <2>3, Published
<1>6. CASE \/ FinanceReject(c) \/ RecordFinalUsage(c) \/ GenerateConsolidatedFinalInvoice(c)
           \/ ReleaseFind(c) \/ ReleaseCutShort(c) \/ CheckAllocation(c) \/ AllocationFails(c)
  BY <1>6, ToldRightKept DEF CheckAllocation, Check, AllocationFails, FinanceReject, RecordFinalUsage, GenerateConsolidatedFinalInvoice,
     ReleaseFind, ReleaseCutShort
<1>. QED
  BY <1>1, <1>2, <1>3, <1>4, <1>5, <1>6 DEF ContractStep

LEMMA DirectSaleToldRight ==
    ASSUME SInv, NEW c \in Contract, NEW m \in Machine, DirectSale(c, m)
    PROVE  ToldRight'
<1>. DEFINE events == StatusEvent(m, "SALE")
<1>1. ToldRight
  BY DEF SInv
<1>2. ~ FreeOfIndex(m)' /\ \A n \in Machine \ {m} : FreeOfIndex(n)' <=> FreeOfIndex(n)
  BY DEF DirectSale, FreeOfIndex
<1>3. \A e \in events : e.machine = m /\ StatusOf[e.bill] \in Out
  BY StatusEventOf, OutBills
<1>4. \E e \in events : e.machine = m
  BY LifecycleAssumption DEF StatusEvent
<1>5. Publish(events, {})
  BY DEF DirectSale
<1>. HIDE DEF events
<1>. QED
  BY <1>1, <1>2, <1>3, <1>4, <1>5, Published

LEMMA ExchangeToldRight ==
    ASSUME SInv, NEW c \in Contract, ExchangeStep(c)
    PROVE  ToldRight'
<1>. TypeOK /\ SwapsAreSales /\ RowsReadAreRight /\ ToldRight /\ Holding!OneHolder
  BY DEF SInv, HInv
<1>1. ASSUME NEW n \in Machine, ReplaceDevice(c, n) PROVE ToldRight'
  <2>1. PICK m \in Machine, live \in BOOLEAN : m = checked[c].row /\ live = checked[c].live
    BY <1>1 DEF ReplaceDevice, Saves, RowsReadAreRight, TypeOK
  <2>. DEFINE back == StatusEvent(m, "RETURNED")
              out == StatusEvent(n, IF saleType[c] = "LEASE" THEN "LEASE" ELSE "RENT")
              astray == IF live \/ FreeOfIndex(m) THEN {} ELSE {m}
  <2>2. /\ m # n /\ (live => <<c, m>> \in allocated)
        /\ allocated' = (IF live THEN allocated \ {<<c, m>>} ELSE allocated) \cup {<<c, n>>}
    BY <1>1, <2>1 DEF ReplaceDevice, RowsReadAreRight, HeldBy
  <2>3. ~ FreeOfIndex(n)' /\ \A x \in Machine \ {m, n} : FreeOfIndex(x)' <=> FreeOfIndex(x)
    BY <2>2 DEF FreeOfIndex
  <2>4. FreeOfIndex(m)' \/ m \in astray
    <3>1. CASE live
      BY <2>2, <3>1 DEF FreeOfIndex, Holding!OneHolder
    <3>2. CASE ~ live /\ FreeOfIndex(m)
      BY <2>2, <3>2 DEF FreeOfIndex
    <3>3. CASE ~ live /\ ~ FreeOfIndex(m)
      BY <3>3
    <3>. QED
      BY <3>1, <3>2, <3>3
  <2>5. /\ \A e \in back : e.machine = m /\ StatusOf[e.bill] \notin Out
        /\ \A e \in out : e.machine = n /\ StatusOf[e.bill] \in Out
    BY StatusEventOf, OutBills
  <2>6. (\E e \in back : e.machine = m) /\ (\E e \in out : e.machine = n)
    BY LifecycleAssumption DEF StatusEvent
  <2>7. Publish(back \cup out, astray)
    BY <1>1, <2>1 DEF ReplaceDevice
  <2>. HIDE DEF back, out, astray
  <2>. QED
    BY <2>2, <2>3, <2>4, <2>5, <2>6, <2>7, Published
<1>2. ASSUME NEW old \in Machine \cup {NoMachine}, ApproveSwap(c, old) PROVE ToldRight'
  <2>1. PICK n \in Machine, current \in Machine \cup {NoMachine} :
           n = swap[c].requested /\ current = swap[c].current /\ current # n
    BY <1>2 DEF ApproveSwap, TypeOK, NoSwap, SwapsAreSales
  <2>. DEFINE back == StatusEvent(current, "RETURNED")
              out == StatusEvent(n, "SALE")
              astray == IF old = current THEN {} ELSE {old, current} \ {NoMachine}
  <2>2. /\ ~ FreeOfIndex(n)'
        /\ \A x \in Machine \ {old, n} : FreeOfIndex(x)' <=> FreeOfIndex(x)
        /\ old \in Machine /\ old # n => FreeOfIndex(old)'
    <3>1. /\ allocated' = (allocated \ {<<c, old>>}) \cup {<<c, n>>}
          /\ old \in Machine => <<c, old>> \in allocated
      BY <1>2, <2>1, LifecycleAssumption DEF ApproveSwap, HeldBy
    <3>2. ~ FreeOfIndex(n)'
      BY <3>1 DEF FreeOfIndex
    <3>3. ASSUME NEW x \in Machine \ {old, n} PROVE FreeOfIndex(x)' <=> FreeOfIndex(x)
      BY <3>1 DEF FreeOfIndex
    <3>4. ASSUME old \in Machine, old # n PROVE FreeOfIndex(old)'
      BY <3>1, <3>4 DEF FreeOfIndex, Holding!OneHolder
    <3>. QED
      BY <3>2, <3>3, <3>4
  <2>3. /\ \A e \in back : e.machine = current /\ StatusOf[e.bill] \notin Out
        /\ \A e \in out : e.machine = n /\ StatusOf[e.bill] \in Out
    BY StatusEventOf, OutBills
  <2>4. /\ current \in Machine => \E e \in back : e.machine = current
        /\ current \notin Machine => back = {}
        /\ \E e \in out : e.machine = n
    BY <2>1, LifecycleAssumption DEF StatusEvent
  <2>5. Publish(back \cup out, astray)
    BY <1>2, <2>1 DEF ApproveSwap
  <2>6. CASE old = current
    <3>1. astray = {}
      BY <2>6
    <3>. HIDE DEF back, out, astray
    <3>2. ASSUME NEW x \in Machine, NEW e \in back \cup out, e.machine = x
          PROVE StatusOf[e.bill] \in Out <=> ~ FreeOfIndex(x)'
      BY <2>1, <2>2, <2>3, <2>6, <3>2
    <3>3. ASSUME NEW x \in Machine, \A e \in back \cup out : e.machine # x
          PROVE FreeOfIndex(x)' <=> FreeOfIndex(x)
      <4>1. x # n /\ x # current
        BY <2>4, <3>3
      <4>. QED
        BY <2>2, <2>6, <4>1
    <3>. QED
      BY <2>5, <3>1, <3>2, <3>3, Published
  <2>7. CASE old # current
    <3>1. old \in Machine => old \in astray
      BY <2>7, LifecycleAssumption
    <3>2. current \in Machine => current \in astray
      BY <2>7, LifecycleAssumption
    <3>. HIDE DEF back, out, astray
    <3>3. ASSUME NEW x \in Machine \ astray, NEW e \in back \cup out, e.machine = x
          PROVE StatusOf[e.bill] \in Out <=> ~ FreeOfIndex(x)'
      BY <2>2, <2>3, <3>2, <3>3
    <3>4. ASSUME NEW x \in Machine \ astray, \A e \in back \cup out : e.machine # x
          PROVE FreeOfIndex(x)' <=> FreeOfIndex(x)
      BY <2>2, <2>4, <3>1, <3>4
    <3>. QED
      BY <2>5, <3>3, <3>4, Published
  <2>. QED
    BY <2>6, <2>7
<1>3. CASE ApproveRefund(c)
  <2>. DEFINE events == StatusEvent(item[c], "RETURNED")
  <2>1. \A x \in Machine : FreeOfIndex(x)' <=> FreeOfIndex(x)
    BY <1>3 DEF ApproveRefund, FreeOfIndex
  <2>2. \A e \in events : e.machine = item[c]
    BY StatusEventOf
  <2>3. Publish(events, {item[c]})
    BY <1>3 DEF ApproveRefund
  <2>. HIDE DEF events
  <2>. QED
    BY <2>1, <2>2, <2>3, Published
<1>4. ASSUME NEW n \in Machine, CompleteExchange(c, n) PROVE ToldRight'
  <2>. DEFINE events == StatusEvent(item[c], "RETURNED") \cup StatusEvent(n, "SALE")
  <2>1. \A x \in Machine : FreeOfIndex(x)' <=> FreeOfIndex(x)
    BY <1>4 DEF CompleteExchange, FreeOfIndex
  <2>2. \A e \in events : e.machine \in {item[c], n}
    BY StatusEventOf
  <2>3. Publish(events, {item[c], n})
    BY <1>4 DEF CompleteExchange
  <2>. HIDE DEF events
  <2>. QED
    BY <2>1, <2>2, <2>3, Published
<1>5. CASE \/ ReplacementFails(c) \/ RejectSwap(c)
           \/ \E m \in Machine : CheckReplacement(c, m)
           \/ \E m \in Machine \cup {NoMachine}, n \in Machine : InitiateSwap(c, m, n)
  BY <1>5, ToldRightKept DEF CheckReplacement, Check, ReplacementFails, RejectSwap, InitiateSwap
<1>. QED
  BY <1>1, <1>2, <1>3, <1>4, <1>5 DEF ExchangeStep

LEMMA InventoryToldRight == ASSUME SInv, InventoryStep PROVE ToldRight'
<1>. TypeOK /\ ToldRight
  BY DEF SInv, HInv
<1>1. ASSUME NEW e \in queue, LoseEvent(e) PROVE ToldRight'
  BY <1>1 DEF LoseEvent, ToldRight, TellsRight, Pending, FreeOfIndex
<1>2. ASSUME NEW e \in queue, NEW again \in BOOLEAN, Consume(e, again) PROVE ToldRight'
  <2>. SUFFICES ASSUME NEW m \in Machine, m \notin explained' PROVE TellsRight(m)'
    BY DEF ToldRight
  <2>1. /\ TellsRight(m) /\ (FreeOfIndex(m)' <=> FreeOfIndex(m))
        /\ queue' \subseteq queue /\ queue \ {e} \subseteq queue'
    BY <1>2 DEF Consume, ToldRight, FreeOfIndex
  <2>2. CASE e.machine = m
    <3>1. stock'[m] = StatusOf[e.bill]
      BY <1>2, <2>2 DEF Consume, TypeOK
    <3>. QED
      BY <2>1, <2>2, <3>1 DEF TellsRight
  <2>3. CASE e.machine # m
    <3>1. stock'[m] = stock[m] /\ (Pending(m)' <=> Pending(m))
      BY <1>2, <2>1, <2>3 DEF Consume, TypeOK, Pending
    <3>. QED
      BY <2>1, <3>1 DEF TellsRight
  <2>. QED
    BY <2>2, <2>3
<1>3. ASSUME NEW n \in Machine, BackOnShelf(n) PROVE ToldRight'
  <2>1. \A m \in Machine : stock'[m] \in Out <=> stock[m] \in Out
    BY <1>3 DEF BackOnShelf, TypeOK, Out
  <2>. QED
    BY <1>3, <2>1 DEF BackOnShelf, ToldRight, TellsRight, Pending, FreeOfIndex
<1>. QED
  BY <1>1, <1>2, <1>3 DEF InventoryStep

LEMMA InitSInv == Init => SInv
<1>. SUFFICES ASSUME Init PROVE SInv
  OBVIOUS
<1>1. Holding!OneHolder
  BY DEF Init, Holding!OneHolder
<1>2. ToldRight
  BY DEF Init, ToldRight, TellsRight, FreeOfIndex, Pending, Out
<1>. QED
  BY <1>1, <1>2, InitHInv DEF SInv

LEMMA NextSInv == ASSUME SInv, [Next]_vars PROVE SInv'
<1>. HInv /\ TypeOK /\ Holding!OneHolder /\ ToldRight
  BY DEF SInv, HInv
<1>1. HInv' /\ Holding!OneHolder'
  <2>1. [Holding!Next]_allocated
    BY StepImplementsHolding
  <2>. QED
    BY <2>1, NextHInv, HoldingStepOneHolder
<1>2. ASSUME UNCHANGED vars PROVE ToldRight'
  BY <1>2, ToldRightKept
<1>3. ASSUME NEW c \in Contract, QuotationStep(c) PROVE ToldRight'
  BY <1>3, ToldRightKept DEF QuotationStep, UpdateStatus, CustomerRespond,
     EmployeeApprove, FinanceApproveQuotation, RequestValidityExtension,
     ConvertToTransaction, ApproveQuotation, ReassignCustomer, CheckDelete, DeleteInvoice,
     Paper
<1>4. ASSUME Next PROVE ToldRight'
  BY <1>3, <1>4, ContractToldRight, ExchangeToldRight, DirectSaleToldRight,
     InventoryToldRight, LifecycleAssumption DEF Next
<1>. QED
  BY <1>1, <1>2, <1>4 DEF SInv

(* Where no cause of divergence applies, a handled event leaves the        *)
(* inventory and the allocations in agreement.                             *)
THEOREM InventoryFollowsAllocation == Spec => []StockFollowsAllocation
<1>1. SInv => StockFollowsAllocation
  BY DEF SInv, ToldRight, TellsRight, StockFollowsAllocation
<1>. QED
  BY <1>1, InitSInv, NextSInv, PTL DEF Spec
============================================================================
