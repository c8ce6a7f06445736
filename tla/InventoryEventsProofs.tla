----------------------- MODULE InventoryEventsProofs -----------------------
(* Proofs about InventoryEvents, for any number of sales, parts and        *)
(* machines, any redelivery, and any number of outages.                    *)
EXTENDS InventoryEvents, SumTheorems, TLAPS

USE DEF vars, saleVars, rowVars, linkVars

(* A handler that has read the row works on an item that is not on record, *)
(* one that is done on an item that is, or on a deleted row: each item has *)
(* one handler.                                                            *)
HandlerKnows ==
    \A i \in Item : /\ worker[i] = "read" => i \notin processed
                    /\ worker[i] = "done" => i \in processed \/ RowOf(i) \in deleted

(* AppliedOnce needs HandlerKnows at the commit, AckedIsApplied at the     *)
(* acknowledgement.                                                        *)
EInv == TypeOK /\ HandlerKnows /\ AppliedOnce /\ AckedIsApplied

LEMMA InitEInv == Init => EInv
BY EventsAssumption DEF Init, EInv, TypeOK, HandlerKnows, AppliedOnce, AckedIsApplied,
   SaleStage, MessageStage, WorkerStage

(* Settling a message gives it a stage.                                    *)
LEMMA SettleTypes ==
    ASSUME TypeOK, NEW i \in Item, NEW stage \in MessageStage, Settle(i, stage)
    PROVE  /\ message' \in [Item -> MessageStage]
           /\ \A j \in Item : message'[j] = message[j] \/ (j = i /\ message'[j] = stage)
BY DEF TypeOK, Settle

LEMMA BillingKeeps ==
    ASSUME EInv, NEW i \in Item, CheckStock(i) \/ CommitInvoice(i) \/ Emit(i) \/ LoseEvent(i)
    PROVE  EInv'
<1>. USE DEF EInv, TypeOK, HandlerKnows, AppliedOnce, AckedIsApplied, SaleStage, MessageStage
<1>1. CASE CheckStock(i)
  BY <1>1 DEF CheckStock
<1>2. CASE CommitInvoice(i)
  BY <1>2 DEF CommitInvoice
<1>3. CASE Emit(i)
  BY <1>3 DEF Emit
<1>4. CASE LoseEvent(i)
  BY <1>4 DEF LoseEvent
<1>. QED
  BY <1>1, <1>2, <1>3, <1>4

LEMMA DeliverKeeps == ASSUME EInv, NEW i \in Item, Deliver(i) PROVE EInv'
BY DEF Deliver, EInv, TypeOK, HandlerKnows, AppliedOnce, AckedIsApplied, MessageStage,
   WorkerStage

(* The commit records the item in the transaction that applies it.         *)
LEMMA CommitStockKeeps == ASSUME EInv, NEW i \in Item, CommitStock(i) PROVE EInv'
<1>1. TypeOK'
  <2>1. quantity' \in [Part -> Int]
    BY EventsAssumption DEF CommitStock, EInv, TypeOK
  <2>2. sold' \subseteq Machine
    BY EventsAssumption DEF CommitStock, EInv, TypeOK, Item
  <2>3. processed' \subseteq Item /\ applied' \in [Item -> Nat]
    BY DEF CommitStock, EInv, TypeOK
  <2>4. worker' \in [Item -> WorkerStage]
    BY DEF CommitStock, EInv, TypeOK, WorkerStage
  <2>. QED
    BY <2>1, <2>2, <2>3, <2>4 DEF CommitStock, EInv, TypeOK
<1>2. HandlerKnows'
  BY DEF CommitStock, EInv, TypeOK, HandlerKnows
<1>3. AppliedOnce'
  <2>1. i \notin processed /\ applied[i] = 0
    BY DEF CommitStock, EInv, HandlerKnows, AppliedOnce
  <2>2. applied'[i] = 1 /\ i \in processed'
    BY <2>1 DEF CommitStock, EInv, TypeOK
  <2>3. \A j \in Item \ {i} : applied'[j] = applied[j] /\ (j \in processed' <=> j \in processed)
    BY DEF CommitStock, EInv, TypeOK
  <2>. QED
    BY <2>2, <2>3 DEF EInv, AppliedOnce
<1>4. AckedIsApplied'
  BY DEF CommitStock, EInv, AckedIsApplied
<1>. QED
  BY <1>1, <1>2, <1>3, <1>4 DEF EInv

LEMMA HandleKeeps == ASSUME EInv, NEW i \in Item, Handle(i) PROVE EInv'
<1>1. CASE SkipProcessed(i)
  BY <1>1 DEF SkipProcessed, EInv, TypeOK, HandlerKnows, AppliedOnce, AckedIsApplied, WorkerStage
<1>6. CASE SkipMissing(i)
  BY <1>6 DEF SkipMissing, EInv, TypeOK, HandlerKnows, AppliedOnce, AckedIsApplied, WorkerStage
<1>2. CASE ReadRow(i)
  <2>1. seen' \in [PartItem -> Int]
    BY <1>2, EventsAssumption DEF ReadRow, EInv, TypeOK
  <2>. QED
    BY <1>2, <2>1 DEF ReadRow, EInv, TypeOK, HandlerKnows, AppliedOnce, AckedIsApplied, WorkerStage
<1>3. CASE CommitStock(i)
  BY <1>3, CommitStockKeeps
<1>4. CASE Ack(i)
  <2>1. /\ message' \in [Item -> MessageStage]
        /\ \A j \in Item : message'[j] = message[j] \/ (j = i /\ message'[j] = "acked")
    BY <1>4, SettleTypes DEF Ack, EInv, MessageStage
  <2>2. i \in processed \/ RowOf(i) \in deleted
    BY <1>4 DEF Ack, EInv, HandlerKnows
  <2>. QED
    BY <1>4, <2>1, <2>2 DEF Ack, EInv, TypeOK, HandlerKnows, AppliedOnce, AckedIsApplied, WorkerStage
<1>5. CASE DeadLetter(i)
  <2>1. /\ message' \in [Item -> MessageStage]
        /\ \A j \in Item : message'[j] = message[j] \/ (j = i /\ message'[j] = "dead")
    BY <1>5, SettleTypes DEF DeadLetter, EInv, MessageStage
  <2>. QED
    BY <1>5, <2>1 DEF DeadLetter, EInv, TypeOK, HandlerKnows, AppliedOnce, AckedIsApplied, WorkerStage
<1>. QED
  BY <1>1, <1>2, <1>3, <1>4, <1>5, <1>6 DEF Handle

(* A redelivery makes nothing acknowledged.                                *)
LEMMA RequeuedTypes ==
    ASSUME TypeOK
    PROVE  /\ Requeued \in [Item -> MessageStage]
           /\ \A i \in Item : Requeued[i] = "acked" => message[i] = "acked"
BY DEF TypeOK, Requeued, MessageStage

LEMMA OutageKeeps ==
    ASSUME EInv, (\E i \in Item : Redrive(i)) \/ Disconnect \/ Restart
    PROVE  EInv'
<1>. MaxOutages \in Nat
  BY EventsAssumption
<1>1. ASSUME NEW i \in Item, Redrive(i) PROVE EInv'
  BY <1>1 DEF Redrive, EInv, TypeOK, HandlerKnows, AppliedOnce, AckedIsApplied, MessageStage
<1>2. CASE Disconnect
  <2>1. /\ message' = Requeued /\ consuming' = FALSE /\ outages' \in 0..MaxOutages
        /\ UNCHANGED <<sale, worker, seen, quantity, sold, processed, deleted, applied>>
    BY <1>2 DEF Disconnect, EInv, TypeOK
  <2>2. TypeOK'
    BY <2>1, RequeuedTypes DEF EInv, TypeOK
  <2>3. HandlerKnows' /\ AppliedOnce' /\ AckedIsApplied'
    BY <2>1, RequeuedTypes DEF EInv, HandlerKnows, AppliedOnce, AckedIsApplied
  <2>. QED
    BY <2>2, <2>3 DEF EInv
<1>3. CASE Restart
  <2>1. /\ message' = Requeued /\ worker' = [i \in Item |-> "idle"]
        /\ consuming' = TRUE /\ outages' \in 0..MaxOutages
        /\ UNCHANGED <<sale, seen, quantity, sold, processed, deleted, applied>>
    BY <1>3 DEF Restart, EInv, TypeOK
  <2>2. TypeOK'
    BY <2>1, RequeuedTypes DEF EInv, TypeOK, WorkerStage
  <2>3. HandlerKnows' /\ AppliedOnce' /\ AckedIsApplied'
    BY <2>1, RequeuedTypes DEF EInv, HandlerKnows, AppliedOnce, AckedIsApplied
  <2>. QED
    BY <2>2, <2>3 DEF EInv
<1>. QED
  BY <1>1, <1>2, <1>3

(* Whoever is done with an item on record or on a deleted row stays so.    *)
LEMMA DeleteKeeps == ASSUME EInv, NEW x \in Part \cup Machine, DeleteRow(x) PROVE EInv'
<1>1. /\ deleted' = deleted \cup {x}
      /\ UNCHANGED <<sale, message, worker, seen, quantity, sold, processed, applied, linkVars>>
  BY DEF DeleteRow
<1>2. \A i \in Item : RowOf(i)' = RowOf(i)
  BY DEF RowOf
<1>3. TypeOK' /\ AppliedOnce'
  BY <1>1 DEF EInv, TypeOK, AppliedOnce
<1>4. HandlerKnows' /\ AckedIsApplied'
  BY <1>1, <1>2 DEF EInv, HandlerKnows, AckedIsApplied
<1>. QED
  BY <1>3, <1>4 DEF EInv

LEMMA NextEInv == ASSUME EInv, [Next]_vars PROVE EInv'
<1>1. CASE UNCHANGED vars
  BY <1>1 DEF EInv, TypeOK, HandlerKnows, AppliedOnce, AckedIsApplied
<1>2. CASE Next
  BY <1>2, BillingKeeps, DeliverKeeps, HandleKeeps, DeleteKeeps, OutageKeeps DEF Next
<1>. QED
  BY <1>1, <1>2

LEMMA EInvHolds == Spec => []EInv
  BY InitEInv, NextEInv, PTL DEF Spec

(* Every row, message and handler has a value of its type.                 *)
THEOREM EventTypes == Spec => []TypeOK
<1>1. EInv => TypeOK
  BY DEF EInv
<1>. QED
  BY <1>1, EInvHolds, PTL

(* The stock change of an item is committed at most once, and exactly when *)
(* the item is on record.                                                  *)
THEOREM ExactlyOnce == Spec => []AppliedOnce
<1>1. EInv => AppliedOnce
  BY DEF EInv
<1>. QED
  BY <1>1, EInvHolds, PTL

(* What was acknowledged was applied, unless its row had been deleted.     *)
THEOREM AcknowledgedIsApplied == Spec => []AckedIsApplied
<1>1. EInv => AckedIsApplied
  BY DEF EInv
<1>. QED
  BY <1>1, EInvHolds, PTL

----------------------------------------------------------------------------
(* Lost updates go one way.  A commit that overwrites a later one writes   *)
(* what its handler has read, less its own units; so the handlers need the *)
(* bound as much as the rows: what a handler has read is no less than what *)
(* the sales now on record leave of the initial stock.  Records are only   *)
(* ever added, and the bound with them only sinks.                         *)

SeenIsBounded ==
    \A i \in PartItem :
        worker[i] = "read" => seen[i] >= InitQuantity[PartOf[i]] - SoldUnits(PartOf[i])

UInv == NoUnitTakenTwice /\ SeenIsBounded

(* Items of part p on record when S is.                                    *)
OnRecord(p, S) == {i \in PartItem : PartOf[i] = p /\ i \in S}

(* The units sold are a whole number.                                      *)
LEMMA SoldUnitsInt ==
    ASSUME NEW p
    PROVE  /\ IsFiniteSet(OnRecord(p, processed))
           /\ \A i \in OnRecord(p, processed) : Qty[i] \in Nat
           /\ SoldUnits(p) = SumFunctionOnSet(Qty, OnRecord(p, processed))
           /\ SoldUnits(p) \in Nat
<1>1. OnRecord(p, processed) \in SUBSET PartItem
  BY DEF OnRecord
<1>2. /\ IsFiniteSet(OnRecord(p, processed))
      /\ \A i \in OnRecord(p, processed) : Qty[i] \in Nat
  BY <1>1, EventsAssumption, FS_Subset
<1>3. SoldUnits(p) = SumFunctionOnSet(Qty, OnRecord(p, processed))
  BY DEF SoldUnits, OnRecord
<1>. QED
  BY <1>2, <1>3, SumNat

(* An item put on record adds its quantity to the units of its part, and   *)
(* nothing to those of another.                                            *)
LEMMA SoldUnitsRecorded ==
    ASSUME NEW i \in PartItem, i \notin processed, processed' = processed \cup {i}, NEW p
    PROVE  SoldUnits(p)' = SoldUnits(p) + IF p = PartOf[i] THEN Qty[i] ELSE 0
<1>1. SoldUnits(p)' = SumFunctionOnSet(Qty, OnRecord(p, processed'))
  BY DEF SoldUnits, OnRecord
<1>2. CASE p = PartOf[i]
  <2>1. OnRecord(p, processed') = OnRecord(p, processed) \cup {i} /\ i \notin OnRecord(p, processed)
    BY <1>2 DEF OnRecord
  <2>2. \A j \in OnRecord(p, processed) \cup {i} : Qty[j] \in Int
    BY SoldUnitsInt, EventsAssumption
  <2>. QED
    BY <1>1, <1>2, <2>1, <2>2, SoldUnitsInt, SumAdd
<1>3. CASE p # PartOf[i]
  <2>1. OnRecord(p, processed') = OnRecord(p, processed)
    BY <1>3 DEF OnRecord
  <2>. QED
    BY <1>1, <1>3, <2>1, SoldUnitsInt
<1>. QED
  BY <1>2, <1>3

(* A machine put on record sells no units.                                 *)
LEMMA SoldUnitsOfMachines ==
    ASSUME NEW i \in MachineItem, processed' = processed \cup {i}, NEW p
    PROVE  SoldUnits(p)' = SoldUnits(p)
<1>1. OnRecord(p, processed') = OnRecord(p, processed)
  BY EventsAssumption DEF OnRecord
<1>. QED
  BY <1>1 DEF SoldUnits, OnRecord

LEMMA InitUInv == Init => UInv
<1>. SUFFICES ASSUME Init PROVE UInv
  OBVIOUS
<1>1. \A p \in Part : quantity[p] >= InitQuantity[p] - SoldUnits(p)
  <2>. TAKE p \in Part
  <2>1. SoldUnits(p) \in Nat /\ InitQuantity[p] \in Nat
    BY SoldUnitsInt, EventsAssumption
  <2>. QED
    BY <2>1 DEF Init
<1>2. SeenIsBounded
  BY DEF Init, SeenIsBounded, Item
<1>. QED
  BY <1>1, <1>2 DEF UInv, NoUnitTakenTwice

(* Steps that leave the rows and the record alone, and have no handler     *)
(* read.                                                                   *)
LEMMA UInvUntouched ==
    ASSUME UInv, UNCHANGED <<seen, quantity, processed>>,
           \A i \in PartItem : worker'[i] = "read" => worker[i] = "read"
    PROVE  UInv'
BY DEF UInv, NoUnitTakenTwice, SeenIsBounded, SoldUnits

LEMMA ReadRowKeepsUnits == ASSUME EInv, UInv, NEW i \in Item, ReadRow(i) PROVE UInv'
<1>1. \A p : SoldUnits(p)' = SoldUnits(p)
  BY DEF ReadRow, SoldUnits
<1>2. NoUnitTakenTwice'
  BY <1>1 DEF UInv, NoUnitTakenTwice, ReadRow
<1>3. ASSUME NEW j \in PartItem, worker'[j] = "read"
      PROVE  seen'[j] >= InitQuantity[PartOf[j]] - SoldUnits(PartOf[j])'
  <2>1. CASE j = i
    <3>1. PartOf[i] \in Part /\ seen'[i] = quantity[PartOf[i]]
      BY <2>1, EventsAssumption DEF ReadRow
    <3>. QED
      BY <1>1, <2>1, <3>1 DEF UInv, NoUnitTakenTwice
  <2>2. CASE j # i
    <3>1. seen'[j] = seen[j] /\ worker[j] = "read"
      BY <1>3, <2>2 DEF ReadRow, EInv, TypeOK
    <3>. QED
      BY <1>1, <3>1 DEF UInv, SeenIsBounded
  <2>. QED
    BY <2>1, <2>2
<1>. QED
  BY <1>2, <1>3 DEF UInv, SeenIsBounded

LEMMA CommitStockKeepsUnits == ASSUME EInv, UInv, NEW i \in Item, CommitStock(i) PROVE UInv'
<1>1. \A j \in PartItem : worker'[j] = "read" => worker[j] = "read" /\ seen'[j] = seen[j]
  BY DEF CommitStock, EInv, TypeOK
<1>2. CASE i \in PartItem
  <2>. DEFINE p == PartOf[i]
  <2>1. p \in Part /\ Qty[i] \in Nat
    BY <1>2, EventsAssumption
  <2>2. \A x : SoldUnits(x)' = SoldUnits(x) + IF x = p THEN Qty[i] ELSE 0
    BY <1>2, SoldUnitsRecorded DEF CommitStock, EInv, HandlerKnows
  <2>3. \A x : SoldUnits(x) \in Nat
    BY SoldUnitsInt
  <2>4. seen[i] \in Int /\ seen[i] >= InitQuantity[p] - SoldUnits(p)
    BY <1>2 DEF CommitStock, EInv, TypeOK, UInv, SeenIsBounded
  <2>5. NoUnitTakenTwice'
    <3>. SUFFICES ASSUME NEW x \in Part
                  PROVE  quantity'[x] >= InitQuantity[x] - SoldUnits(x)'
      BY DEF NoUnitTakenTwice
    <3>1. InitQuantity[x] \in Int /\ quantity[x] >= InitQuantity[x] - SoldUnits(x) /\ quantity[x] \in Int
      BY EventsAssumption DEF UInv, NoUnitTakenTwice, EInv, TypeOK
    <3>2. quantity'[x] = IF x = p THEN seen[i] - Qty[i] ELSE quantity[x]
      BY <1>2 DEF CommitStock, EInv, TypeOK
    <3>. HIDE DEF p
    <3>. QED
      BY <2>1, <2>2, <2>3, <2>4, <3>1, <3>2
  <2>6. SeenIsBounded'
    <3>. SUFFICES ASSUME NEW j \in PartItem, worker'[j] = "read"
                  PROVE  seen'[j] >= InitQuantity[PartOf[j]] - SoldUnits(PartOf[j])'
      BY DEF SeenIsBounded
    <3>1. seen'[j] >= InitQuantity[PartOf[j]] - SoldUnits(PartOf[j]) /\ seen'[j] \in Int
      BY <1>1 DEF UInv, SeenIsBounded, EInv, TypeOK
    <3>2. InitQuantity[PartOf[j]] \in Int
      BY EventsAssumption
    <3>. HIDE DEF p
    <3>. QED
      BY <2>1, <2>2, <2>3, <3>1, <3>2
  <2>. QED
    BY <2>5, <2>6 DEF UInv
<1>3. CASE i \notin PartItem
  <2>1. \A x : SoldUnits(x)' = SoldUnits(x)
    BY <1>3, SoldUnitsOfMachines DEF CommitStock, Item
  <2>2. quantity' = quantity
    BY <1>3 DEF CommitStock
  <2>. QED
    BY <1>1, <2>1, <2>2 DEF UInv, NoUnitTakenTwice, SeenIsBounded
<1>. QED
  BY <1>2, <1>3

LEMMA NextUInv == ASSUME EInv, UInv, [Next]_vars PROVE UInv'
<1>1. CASE UNCHANGED vars
  BY <1>1, UInvUntouched
<1>2. ASSUME NEW i \in Item, CheckStock(i) \/ CommitInvoice(i) \/ Emit(i) \/ LoseEvent(i) \/ Redrive(i)
      PROVE  UInv'
  BY <1>2, UInvUntouched DEF CheckStock, CommitInvoice, Emit, LoseEvent, Redrive
<1>3. ASSUME NEW i \in Item,
             Deliver(i) \/ SkipProcessed(i) \/ SkipMissing(i) \/ Ack(i) \/ DeadLetter(i)
      PROVE  UInv'
  <2>1. \E s \in {"started", "done", "idle"} : worker' = [worker EXCEPT ![i] = s]
    BY <1>3 DEF Deliver, SkipProcessed, SkipMissing, Ack, DeadLetter
  <2>2. \A j \in PartItem : worker'[j] = "read" => worker[j] = "read"
    BY <2>1 DEF EInv, TypeOK, Item
  <2>. QED
    BY <1>3, <2>2, UInvUntouched DEF Deliver, SkipProcessed, SkipMissing, Ack, DeadLetter
<1>4. CASE Disconnect \/ Restart
  <2>1. \A j \in PartItem : worker'[j] = "read" => worker[j] = "read"
    BY <1>4 DEF Disconnect, Restart, Item
  <2>. QED
    BY <1>4, <2>1, UInvUntouched DEF Disconnect, Restart
<1>5. ASSUME NEW x \in Part \cup Machine, DeleteRow(x) PROVE UInv'
  BY <1>5, UInvUntouched DEF DeleteRow
<1>. QED
  BY <1>1, <1>2, <1>3, <1>4, <1>5, ReadRowKeepsUnits, CommitStockKeepsUnits DEF Next, Handle

(* No overlap of events, redelivery or restart takes more units off the    *)
(* counter of a part than are on record as sold.                           *)
THEOREM UnitsTakenOnce == Spec => []NoUnitTakenTwice
<1>1. EInv /\ UInv /\ [Next]_vars => UInv'
  BY NextUInv
<1>2. UInv => NoUnitTakenTwice
  BY DEF UInv
<1>. QED
  BY <1>1, <1>2, InitUInv, EInvHolds, PTL DEF Spec
============================================================================
