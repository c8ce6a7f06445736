--------------------------- MODULE InventoryEvents ---------------------------
(***************************************************************************)
(* A direct sale reaches the stock by messages.  The billing service       *)
(* (billingService.createDirectSale) checks availability over HTTP,        *)
(* commits the invoice, and only then publishes one event per invoice item:*)
(* inventory.product.allocate for a machine, inventory.sparepart.reduce for*)
(* a spare part.  The inventory service consumes them                      *)
(* (productAllocationWorker, sparePartReductionWorker) and records the     *)
(* item in processed_invoice_items in the transaction that changes the     *)
(* stock, so that a redelivered event is recognised.                       *)
(*                                                                         *)
(* The broker delivers at least once: what was not acknowledged goes back  *)
(* to the queue when the connection is lost or the consumer restarts.  No  *)
(* prefetch is set, so all queued events are handled concurrently, and a   *)
(* lost connection is not subscribed to again until the service restarts   *)
(* (config/rabbitmq.ts reconnects publishers only).                        *)
(*                                                                         *)
(* Left out: the read-through stock cache (availability is read from the   *)
(* row, the most favourable case), prices and payments, and events without *)
(* an invoiceItemId, a quantity or a serial number (none is published).    *)
(***************************************************************************)
EXTENDS Integers, FiniteSets, Functions

CONSTANTS
    PartItem,       \* invoice items that sell units of a spare part
    MachineItem,    \* invoice items that sell a machine
    Part,
    Machine,
    PartOf,         \* [PartItem -> Part]
    MachineOf,      \* [MachineItem -> Machine]
    Qty,            \* [PartItem -> Nat \ {0}], the quantity sold
    InitQuantity,   \* [Part -> Nat]
    MaxOutages      \* bound on lost connections and restarts

Item == PartItem \cup MachineItem

ASSUME EventsAssumption ==
    /\ IsFiniteSet(PartItem)
    /\ PartItem \cap MachineItem = {}
    /\ PartOf \in [PartItem -> Part]
    /\ MachineOf \in [MachineItem -> Machine]
    /\ Qty \in [PartItem -> Nat \ {0}]
    /\ InitQuantity \in [Part -> Nat]
    /\ MaxOutages \in Nat

VARIABLES
    sale,       \* billing's side of each item
    message,    \* where the item's event is: the broker's side
    worker,     \* the consumer's handling of the event
    seen,       \* [PartItem -> quantity], the row as the handler read it
    quantity,   \* spare_parts.quantity
    sold,       \* machines with product_status SOLD
    processed,  \* processed_invoice_items
    deleted,    \* the parts and machines whose row was soft-deleted
    applied,    \* history: how often the item's stock change was committed
    consuming,  \* the consumers are subscribed
    outages

saleVars == <<sale>>
rowVars == <<quantity, sold, processed, deleted, applied>>
linkVars == <<consuming, outages>>
vars == <<sale, message, worker, seen, rowVars, linkVars>>

SaleStage == {"new", "checked", "invoiced", "emitted", "lost"}
MessageStage == {"none", "queued", "delivered", "acked", "dead"}
WorkerStage == {"idle", "started", "read", "done"}

Init ==
    /\ sale = [i \in Item |-> "new"]
    /\ message = [i \in Item |-> "none"]
    /\ worker = [i \in Item |-> "idle"]
    /\ seen = [i \in PartItem |-> 0]
    /\ quantity = InitQuantity
    /\ sold = {}
    /\ processed = {}
    /\ deleted = {}
    /\ applied = [i \in Item |-> 0]
    /\ consuming = TRUE
    /\ outages = 0

----------------------------------------------------------------------------
(* The billing service.                                                    *)

(* The row an item's event is about.                                       *)
RowOf(i) == IF i \in PartItem THEN PartOf[i] ELSE MachineOf[i]

InStock(i) ==
    /\ RowOf(i) \notin deleted
    /\ IF i \in PartItem THEN quantity[PartOf[i]] >= Qty[i] ELSE MachineOf[i] \notin sold

(* The availability check over HTTP, before the transaction.               *)
CheckStock(i) ==
    /\ sale[i] = "new"
    /\ InStock(i)
    /\ sale' = [sale EXCEPT ![i] = "checked"]
    /\ UNCHANGED <<message, worker, seen, rowVars, linkVars>>

(* The invoice commits.  A machine needs the one active product_allocation *)
(* of its productId (a partial unique index); a spare part has no such     *)
(* guard.                                                                  *)
Allocated(m) ==
    \E j \in MachineItem : MachineOf[j] = m /\ sale[j] \in {"invoiced", "emitted", "lost"}

CommitInvoice(i) ==
    /\ sale[i] = "checked"
    /\ i \in MachineItem => ~ Allocated(MachineOf[i])
    /\ sale' = [sale EXCEPT ![i] = "invoiced"]
    /\ UNCHANGED <<message, worker, seen, rowVars, linkVars>>

(* Publishing after the commit: emitProductAllocate, emitSparePartReduce.  *)
Emit(i) ==
    /\ sale[i] = "invoiced"
    /\ sale' = [sale EXCEPT ![i] = "emitted"]
    /\ message' = [message EXCEPT ![i] = "queued"]
    /\ UNCHANGED <<worker, seen, rowVars, linkVars>>

(* The service stops between commit and publish, or publishing throws: the *)
(* error is logged and the event is gone.                                  *)
LoseEvent(i) ==
    /\ sale[i] = "invoiced"
    /\ sale' = [sale EXCEPT ![i] = "lost"]
    /\ UNCHANGED <<message, worker, seen, rowVars, linkVars>>

----------------------------------------------------------------------------
(* The consumers of the inventory service.                                 *)

Deliver(i) ==
    /\ consuming
    /\ message[i] = "queued"
    /\ worker[i] = "idle"
    /\ message' = [message EXCEPT ![i] = "delivered"]
    /\ worker' = [worker EXCEPT ![i] = "started"]
    /\ UNCHANGED <<sale, seen, rowVars, linkVars>>

(* An item on record is skipped; otherwise the row is read.                *)
SkipProcessed(i) ==
    /\ worker[i] = "started"
    /\ i \in processed
    /\ worker' = [worker EXCEPT ![i] = "done"]
    /\ UNCHANGED <<sale, message, seen, rowVars, linkVars>>

(* findOne does not see a soft-deleted row: the event is acknowledged      *)
(* without having changed anything.                                        *)
SkipMissing(i) ==
    /\ worker[i] = "started"
    /\ i \notin processed
    /\ RowOf(i) \in deleted
    /\ worker' = [worker EXCEPT ![i] = "done"]
    /\ UNCHANGED <<sale, message, seen, rowVars, linkVars>>

(* Mutant: the units are taken off when the row is read, and again when it *)
(* is saved.                                                               *)
ReadRowReducing(i) ==
    /\ worker[i] = "started"
    /\ i \notin processed
    /\ RowOf(i) \notin deleted
    /\ worker' = [worker EXCEPT ![i] = "read"]
    /\ seen' = [j \in PartItem |-> IF j = i THEN quantity[PartOf[i]] - Qty[i] ELSE seen[j]]
    /\ UNCHANGED <<sale, message, rowVars, linkVars>>

ReadRow(i) ==
    /\ worker[i] = "started"
    /\ i \notin processed
    /\ RowOf(i) \notin deleted
    /\ worker' = [worker EXCEPT ![i] = "read"]
    /\ seen' = [j \in PartItem |-> IF j = i THEN quantity[PartOf[i]] ELSE seen[j]]
    /\ UNCHANGED <<sale, message, rowVars, linkVars>>

(* Mutant: the item is not put on record.                                  *)
CommitStockUnrecorded(i) ==
    /\ worker[i] = "read"
    /\ IF i \in PartItem
       THEN /\ quantity' = [quantity EXCEPT ![PartOf[i]] = seen[i] - Qty[i]]
            /\ UNCHANGED sold
       ELSE /\ sold' = sold \cup {MachineOf[i]}
            /\ UNCHANGED quantity
    /\ applied' = [applied EXCEPT ![i] = @ + 1]
    /\ worker' = [worker EXCEPT ![i] = "done"]
    /\ UNCHANGED <<sale, message, seen, processed, deleted, linkVars>>

(* Mutant: the identifiers mixed up, the item is sold instead of its       *)
(* machine.                                                                *)
CommitStockWrongId(i) ==
    /\ worker[i] = "read"
    /\ IF i \in PartItem
       THEN /\ quantity' = [quantity EXCEPT ![PartOf[i]] = seen[i] - Qty[i]]
            /\ UNCHANGED sold
       ELSE /\ sold' = sold \cup {i}
            /\ UNCHANGED quantity
    /\ processed' = processed \cup {i}
    /\ applied' = [applied EXCEPT ![i] = @ + 1]
    /\ worker' = [worker EXCEPT ![i] = "done"]
    /\ UNCHANGED <<sale, message, seen, deleted, linkVars>>

(* The stock change and the record of it, in one transaction; the row is   *)
(* saved as read, less the quantity sold, whether or not it was deleted    *)
(* meanwhile.                                                              *)
CommitStock(i) ==
    /\ worker[i] = "read"
    /\ IF i \in PartItem
       THEN /\ quantity' = [quantity EXCEPT ![PartOf[i]] = seen[i] - Qty[i]]
            /\ UNCHANGED sold
       ELSE /\ sold' = sold \cup {MachineOf[i]}
            /\ UNCHANGED quantity
    /\ processed' = processed \cup {i}
    /\ applied' = [applied EXCEPT ![i] = @ + 1]
    /\ worker' = [worker EXCEPT ![i] = "done"]
    /\ UNCHANGED <<sale, message, seen, deleted, linkVars>>

(* An acknowledgement or rejection settles the message only while the      *)
(* channel that delivered it is open.                                      *)
Settle(i, stage) ==
    message' = [message EXCEPT ![i] = IF @ = "delivered" THEN stage ELSE @]

Ack(i) ==
    /\ worker[i] = "done"
    /\ worker' = [worker EXCEPT ![i] = "idle"]
    /\ Settle(i, "acked")
    /\ UNCHANGED <<sale, seen, rowVars, linkVars>>

(* Mutant: a failed event is acknowledged like an applied one.             *)
DeadLetterAcknowledged(i) ==
    /\ worker[i] \in {"started", "read", "done"}
    /\ worker' = [worker EXCEPT ![i] = "idle"]
    /\ Settle(i, "acked")
    /\ UNCHANGED <<sale, seen, rowVars, linkVars>>

(* Mutant: a failed event is neither acknowledged nor rejected.            *)
DeadLetterUnsettled(i) ==
    /\ worker[i] \in {"started", "read", "done"}
    /\ worker' = [worker EXCEPT ![i] = "idle"]
    /\ UNCHANGED <<sale, message, seen, rowVars, linkVars>>

(* Any exception rejects the event to the dead-letter queue: before the    *)
(* commit the transaction is rolled back, after it (cache invalidation,    *)
(* model counts) the stock change stands all the same.                     *)
DeadLetter(i) ==
    /\ worker[i] \in {"started", "read", "done"}
    /\ worker' = [worker EXCEPT ![i] = "idle"]
    /\ Settle(i, "dead")
    /\ UNCHANGED <<sale, seen, rowVars, linkVars>>

(* An operator moves a dead letter back to its queue.                      *)
Redrive(i) ==
    /\ message[i] = "dead"
    /\ outages < MaxOutages
    /\ outages' = outages + 1
    /\ message' = [message EXCEPT ![i] = "queued"]
    /\ UNCHANGED <<sale, worker, seen, rowVars, consuming>>

Requeued == [i \in Item |-> IF message[i] = "delivered" THEN "queued" ELSE message[i]]

(* The connection is lost: the handlers under way run on, unable to        *)
(* acknowledge, and nothing is consumed any more.                          *)
Disconnect ==
    /\ consuming
    /\ outages < MaxOutages
    /\ outages' = outages + 1
    /\ consuming' = FALSE
    /\ message' = Requeued
    /\ UNCHANGED <<sale, worker, seen, rowVars>>

(* The service restarts: the handlers and their open transactions are gone,*)
(* the consumers subscribe again.                                          *)
Restart ==
    /\ ~ consuming \/ outages < MaxOutages
    /\ outages' = IF consuming THEN outages + 1 ELSE outages
    /\ consuming' = TRUE
    /\ message' = Requeued
    /\ worker' = [i \in Item |-> "idle"]
    /\ UNCHANGED <<sale, seen, rowVars>>

(* deleteSparePart, deleteproduct: nobody asks about sales under way, and  *)
(* nothing brings the row back.                                            *)
DeleteRow(x) ==
    /\ x \notin deleted
    /\ deleted' = deleted \cup {x}
    /\ UNCHANGED <<sale, message, worker, seen, quantity, sold, processed, applied, linkVars>>

Handle(i) ==
    SkipProcessed(i) \/ SkipMissing(i) \/ ReadRow(i) \/ CommitStock(i) \/ Ack(i) \/ DeadLetter(i)

Next ==
    \/ \E i \in Item :
         \/ CheckStock(i)
         \/ CommitInvoice(i)
         \/ Emit(i)
         \/ LoseEvent(i)
         \/ Deliver(i)
         \/ Handle(i)
         \/ Redrive(i)
    \/ \E x \in Part \cup Machine : DeleteRow(x)
    \/ Disconnect
    \/ Restart

Spec == Init /\ [][Next]_vars

(* The broker delivers what is queued to a subscribed consumer, and a      *)
(* handler that is not killed comes to its end; nobody has to restart the  *)
(* service or publish anything.                                            *)
Fairness == \A i \in Item : WF_vars(Deliver(i)) /\ WF_vars(Handle(i))

FairSpec == Spec /\ Fairness

----------------------------------------------------------------------------
(* Properties.                                                             *)

TypeOK ==
    /\ sale \in [Item -> SaleStage]
    /\ message \in [Item -> MessageStage]
    /\ worker \in [Item -> WorkerStage]
    /\ seen \in [PartItem -> Int]
    /\ quantity \in [Part -> Int]
    /\ sold \subseteq Machine
    /\ processed \subseteq Item
    /\ deleted \subseteq Part \cup Machine
    /\ applied \in [Item -> Nat]
    /\ consuming \in BOOLEAN
    /\ outages \in 0..MaxOutages

(* Exactly once: however often an event is redelivered, rejected and       *)
(* redriven, and wherever the consumer dies, its stock change is committed *)
(* at most once, and precisely when the item is on record.                 *)
AppliedOnce == \A i \in Item : applied[i] = IF i \in processed THEN 1 ELSE 0

(* An event is acknowledged only for a change of stock that is committed,  *)
(* or because the row it was to change is no longer there: no              *)
(* acknowledgement goes out for work that failed or was rolled back,       *)
(* whichever of its deliveries the handler was working on.  (Until         *)
(* then it is queued, delivered or dead-lettered.)                         *)
AckedIsApplied ==
    \A i \in Item : message[i] = "acked" => i \in processed \/ RowOf(i) \in deleted

(* Every published event is settled, applied or dead-lettered, provided    *)
(* the consumers' connection stays up in the end.                          *)
EmittedIsSettled ==
    <>[]consuming =>
        \A i \in Item : (message[i] = "queued") ~> (message[i] \in {"acked", "dead"})

SoldUnits(p) ==
    SumFunctionOnSet(Qty, {i \in PartItem : PartOf[i] = p /\ i \in processed})

(* Two events of a part that are handled at once may overwrite each other  *)
(* (the later save wins), and redelivery does not repair it; but the error *)
(* goes one way: no overlap, redelivery or restart takes more units off    *)
(* the counter than are on record as sold.                                 *)
NoUnitTakenTwice ==
    \A p \in Part : quantity[p] >= InitQuantity[p] - SoldUnits(p)
==============================================================================
