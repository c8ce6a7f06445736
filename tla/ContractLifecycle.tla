-------------------------- MODULE ContractLifecycle --------------------------
(***************************************************************************)
(* Quotations, contracts and direct sales of the billing service, the      *)
(* machines allocated to them (product_allocations), and the status of     *)
(* those machines in the inventory service, which learns of them by events *)
(* (inventory.product.status.update, inventory.product.allocate).          *)
(*                                                                         *)
(* A handler's reads and its first commit are one step, but for the three  *)
(* whose check and save lie furthest apart (DeleteInvoice; AllocateMachines*)
(* with its HTTP calls and ReplaceDevice, one of these two at a time for   *)
(* each contract).  What a handler does after its                          *)
(* first commit is not: releasing the allocations of a rejected or         *)
(* completed contract (find, then update), and publishing.  The consumer   *)
(* (productStatusUpdateWorker) has no prefetch: the events of one machine  *)
(* are handled concurrently and the last save wins, so the queue is a set  *)
(* from which any event may be applied next.  Its test for an unchanged    *)
(* status only skips a save that would change nothing when it reads.       *)
(*                                                                         *)
(* A contract has one PRODUCT line.  The expiry date of a quotation may be *)
(* past or not whenever an operation asks.  Prices, readings, payments,    *)
(* notifications, templates and service quotations are left out.           *)
(***************************************************************************)
EXTENDS Naturals, FiniteSets

CONSTANTS
    Contract,       \* rows of invoices
    Machine,
    NoMachine,      \* productId is NULL
    SaleTypes,      \* [Contract -> SaleType] functions to start from
    SetByHand,      \* [SaleTypes -> SUBSET Status]: what callers of PUT /:id/status send
    Called,         \* bound: [SaleTypes -> SUBSET {"delete", "replace"}]
    Worked,         \* bound: the contracts more is done with than a direct sale
    MaxQueue        \* bound: [SaleTypes -> Nat], events under way when a step adds to them

SaleType == {"RENT", "LEASE", "SALE", "DIRECT"}
(* InvoiceStatus, with the row that is not there yet and the removed one.  *)
Status == {"NONE", "TEMPLATE", "ASSIGNED", "DRAFT", "SENT", "CUSTOMER_ACCEPTED",
           "CUSTOMER_REJECTED", "EMPLOYEE_APPROVED", "WAITING_FINANCE_APPROVAL",
           "FINANCE_APPROVED", "FINANCE_REJECTED", "ACTIVE_CONTRACT", "INVOICED",
           "PAID", "EXPIRED", "CANCELLED", "RETAKEN", "SUPERSEDED", "REFUNDED",
           "DELETED"}

ASSUME LifecycleAssumption ==
    /\ NoMachine \notin Machine
    /\ SaleTypes \subseteq [Contract -> SaleType]
    /\ SetByHand \in [SaleTypes -> SUBSET (Status \ {"NONE", "DELETED"})]
    /\ Called \in [SaleTypes -> SUBSET {"delete", "replace"}]
    /\ Worked \subseteq Contract
    /\ MaxQueue \in [SaleTypes -> Nat]

VARIABLES
    saleType,
    type,
    status,
    contractStatus,
    item,           \* productId of the PRODUCT line
    allocated,      \* pairs <<contract, machine>> with an ALLOCATED row
    past,           \* rentals and leases with a RETURNED or REPLACED row
    swap,           \* the PENDING machine_swap_request of each contract
    release,        \* how far a handler is with releasing the contract's machines
    removing,       \* contracts a DeleteInvoice has read and not yet removed
    checked,        \* what a handler has read of the contract and not yet saved
    queue,          \* events published or about to be
    stock,          \* products.product_status
    stranded,       \* history: rentals and leases known to keep machines past their end
    explained       \* history: machines whose status is known to go astray

paperVars == <<type, status, contractStatus>>
handlerVars == <<release, removing, checked>>
allocationVars == <<item, allocated, past>>
inventoryVars == <<queue, stock, explained>>
vars == <<saleType, paperVars, allocationVars, swap, handlerVars, stranded, inventoryVars>>

Type == {"NONE", "QUOTATION", "PROFORMA", "FINAL"}
ContractStatus == {"NONE", "PENDING_CONFIRMATION", "ACTIVE", "COMPLETED"}

(* STATUS_MAP of the consumer.                                             *)
StatusOf == [RENT |-> "RENTED", LEASE |-> "LEASE", SALE |-> "SOLD", RETURNED |-> "RETURNED"]
BillType == DOMAIN StatusOf
StockStatus == {"AVAILABLE", "RENTED", "LEASE", "SOLD", "RETURNED"}
Out == {"RENTED", "LEASE", "SOLD"}

Event == [machine : Machine, bill : BillType]
NoSwap == [current |-> NoMachine, requested |-> NoMachine]
NoRelease == [stage |-> "none", found |-> {}]
NoCheck == [op |-> "none", row |-> NoMachine, live |-> FALSE]

Metered(c) == saleType[c] \in {"RENT", "LEASE"}

Init ==
    /\ saleType \in SaleTypes
    /\ type = [c \in Contract |-> IF saleType[c] = "DIRECT" THEN "NONE" ELSE "QUOTATION"]
    /\ status = [c \in Contract |-> IF saleType[c] = "DIRECT" THEN "NONE" ELSE "DRAFT"]
    /\ contractStatus = [c \in Contract |-> "NONE"]
    /\ item \in [Contract -> Machine \cup {NoMachine}]
    /\ \A c \in Contract : item[c] # NoMachine => saleType[c] = "SALE"
    /\ allocated = {}
    /\ past = {}
    /\ swap = [c \in Contract |-> NoSwap]
    /\ release = [c \in Contract |-> NoRelease]
    /\ removing = {}
    /\ checked = [c \in Contract |-> NoCheck]
    /\ queue = {}
    /\ stock = [m \in Machine |-> "AVAILABLE"]
    /\ stranded = {}
    /\ explained = {}

----------------------------------------------------------------------------
(* Allocations and events.                                                 *)

HeldBy(c) == {m \in Machine : <<c, m>> \in allocated}

(* The partial unique index uniq_product_allocation_active: a new          *)
(* ALLOCATED row is refused while another row of the machine is ALLOCATED. *)
FreeOfIndex(m) == \A c \in Contract : <<c, m>> \notin allocated

Exists(c) == type[c] # "NONE" /\ status[c] # "DELETED"

BillOf(c) == IF Metered(c) THEN saleType[c] ELSE "SALE"

Pending(m) == \E e \in queue : e.machine = m

(* Publishing events.  The status of a machine goes astray when an event   *)
(* meets another one still under way, or when the code publishes what its  *)
(* own allocations do not say (astray); it is right again after the next   *)
(* event that is alone.                                                    *)
Publish(events, astray) ==
    LET told == {e.machine : e \in events}
        crowded == {m \in told : \/ Pending(m)
                                 \/ \E e, f \in events : e # f /\ e.machine = m /\ f.machine = m}
    IN /\ queue' = queue \cup events
       /\ queue = {} \/ Cardinality(queue') <= MaxQueue[saleType]
       /\ explained' = (explained \ (told \ crowded)) \cup crowded \cup astray
       /\ UNCHANGED stock

(* Mutant: a line without a machine is reported like any other.            *)
StatusEventUnchecked(m, bill) == {[machine |-> m, bill |-> bill]}

StatusEvent(m, bill) == IF m = NoMachine THEN {} ELSE {[machine |-> m, bill |-> bill]}

(* Machines S of a rental or lease may stay with it past its end.          *)
LeavesBehind(c, S) ==
    stranded' = IF Metered(c) /\ S # {} THEN stranded \cup {c} ELSE stranded

(* Rows of machines S become RETURNED or REPLACED (nothing asks it of the  *)
(* rows of a sale).                                                        *)
RowsPast(c, S) == past' = IF Metered(c) /\ S # {} THEN past \cup {c} ELSE past

SetStatus(c, t, s, cs) ==
    /\ type' = [type EXCEPT ![c] = t]
    /\ status' = [status EXCEPT ![c] = s]
    /\ contractStatus' = [contractStatus EXCEPT ![c] = cs]

(* An operation on the invoice row alone.                                  *)
Paper(c, t, s) ==
    /\ SetStatus(c, t, s, contractStatus[c])
    /\ UNCHANGED <<saleType, allocationVars, swap, handlerVars, stranded, inventoryVars>>

----------------------------------------------------------------------------
(* Quotation and approvals.                                                *)

(* PUT /:id/status "e.g. DRAFT -> SENT": any status, whatever the old one. *)
UpdateStatus(c, s) ==
    /\ Exists(c)
    /\ SetStatus(c, type[c], s, contractStatus[c])
    /\ LeavesBehind(c, HeldBy(c))
    /\ UNCHANGED <<saleType, allocationVars, swap, handlerVars, inventoryVars>>

CustomerRespond(c, accept) ==
    /\ status[c] \in {"SENT", "DRAFT"}
    /\ Paper(c, type[c], IF accept THEN "CUSTOMER_ACCEPTED" ELSE "CUSTOMER_REJECTED")

EmployeeApprove(c) ==
    /\ Exists(c)
    /\ status[c] \notin {"EMPLOYEE_APPROVED", "FINANCE_APPROVED", "CUSTOMER_REJECTED",
                         "FINANCE_REJECTED"}
    /\ Paper(c, type[c], "EMPLOYEE_APPROVED")

FinanceApproveQuotation(c) ==
    /\ status[c] \in {"EMPLOYEE_APPROVED", "WAITING_FINANCE_APPROVAL"}
    /\ Paper(c, type[c], "FINANCE_APPROVED")

RequestValidityExtension(c) ==
    /\ Exists(c) /\ type[c] = "QUOTATION"
    /\ Paper(c, "QUOTATION", "WAITING_FINANCE_APPROVAL")

(* A quotation of any status; a transaction is returned as it is.          *)
ConvertToTransaction(c) ==
    /\ Exists(c) /\ type[c] = "QUOTATION"
    /\ Paper(c, "PROFORMA", "DRAFT")

(* PUT /:id/approve: the test of the status has an empty body.             *)
ApproveQuotation(c) ==
    /\ Exists(c)
    /\ Paper(c, "PROFORMA", "FINANCE_APPROVED")

(* The quotation is cloned for another customer; the clone is one of the   *)
(* quotations of Init.                                                     *)
ReassignCustomer(c) ==
    /\ Exists(c) /\ type[c] = "QUOTATION"
    /\ Paper(c, "QUOTATION", "SUPERSEDED")

(* A handler has read the contract, and the ALLOCATED row of machine m     *)
(* when it is to replace one (live: that row is still ALLOCATED).  One at  *)
(* a time for each contract.                                               *)
Check(c, op, m) ==
    /\ checked[c] = NoCheck
    /\ checked' = [checked EXCEPT ![c] = [op |-> op, row |-> m, live |-> m # NoMachine]]
    /\ UNCHANGED <<saleType, paperVars, allocationVars, swap, release, removing, stranded, inventoryVars>>

Saves(c, op) ==
    /\ checked[c].op = op
    /\ checked' = [checked EXCEPT ![c] = NoCheck]

(* The rows of machines S of the contract are no longer ALLOCATED.         *)
RowsClosed(c, S) ==
    checked' = [checked EXCEPT ![c].live = @ /\ checked[c].row \notin S]

CheckDelete(c) ==
    /\ "delete" \in Called[saleType]
    /\ status[c] \in {"ASSIGNED", "DRAFT", "RETAKEN", "SUPERSEDED"}
    /\ c \notin removing
    /\ removing' = removing \cup {c}
    /\ UNCHANGED <<saleType, paperVars, allocationVars, swap, release, checked, stranded, inventoryVars>>

(* softRemove, whatever became of the status.                              *)
DeleteInvoice(c) ==
    /\ c \in removing
    /\ removing' = removing \ {c}
    /\ SetStatus(c, type[c], "DELETED", contractStatus[c])
    /\ UNCHANGED <<saleType, allocationVars, swap, release, checked, stranded, inventoryVars>>

----------------------------------------------------------------------------
(* From allocation to activation.                                          *)

Allocatable(c) ==
    /\ type[c] = "PROFORMA"
    /\ status[c] \in {"DRAFT", "EMPLOYEE_APPROVED", "FINANCE_APPROVED"}

(* allocateMachines tests the contract, asks the inventory for each        *)
(* machine over HTTP, and saves.                                           *)
CheckAllocation(c) ==
    /\ Allocatable(c)
    /\ Check(c, "allocate", NoMachine)

(* A contract removed meanwhile stays removed.                             *)
SaveAllocated(c) ==
    SetStatus(c, "PROFORMA", IF Exists(c) THEN "FINANCE_APPROVED" ELSE "DELETED",
              "PENDING_CONFIRMATION")

(* With a machine for the line.  A machine the contract has already is     *)
(* skipped; a machine the line had before stays allocated.                 *)
AllocateMachines(c, m) ==
    /\ Saves(c, "allocate")
    /\ <<c, m>> \in allocated \/ FreeOfIndex(m)
    /\ allocated' = allocated \cup {<<c, m>>}
    /\ item' = [item EXCEPT ![c] = m]
    /\ SaveAllocated(c)
    /\ Publish(StatusEvent(m, BillOf(c)), {})
    /\ UNCHANGED <<saleType, past, swap, release, removing, stranded>>

(* For the other lines: a line whose machine was set on the quotation      *)
(* counts as allocated and gets no row.                                    *)
AllocateOtherLines(c) ==
    /\ Saves(c, "allocate")
    /\ item[c] # NoMachine
    /\ SaveAllocated(c)
    /\ Publish(StatusEvent(item[c], BillOf(c)),
               IF FreeOfIndex(item[c]) THEN {item[c]} ELSE {})
    /\ UNCHANGED <<saleType, allocationVars, swap, release, removing, stranded>>

(* The transaction is rolled back: the inventory does not answer, a line   *)
(* has no machine, or the index refuses the row.                           *)
AllocationFails(c) ==
    /\ Saves(c, "allocate")
    /\ UNCHANGED <<saleType, paperVars, allocationVars, swap, release, removing, stranded, inventoryVars>>

(* The count of rows that activateContract makes is of any status.         *)
EverAllocated(c) == HeldBy(c) # {} \/ c \in past

ActivateContract(c) ==
    /\ Exists(c)
    /\ contractStatus[c] = "PENDING_CONFIRMATION"
    /\ Metered(c) => EverAllocated(c)
    /\ IF Metered(c)
       THEN SetStatus(c, type[c], "ACTIVE_CONTRACT", "ACTIVE")
       ELSE SetStatus(c, "FINAL", "INVOICED", "ACTIVE")
    /\ Publish(StatusEvent(item[c], BillOf(c)),
               IF item[c] # NoMachine /\ FreeOfIndex(item[c]) THEN {item[c]} ELSE {})
    /\ UNCHANGED <<saleType, allocationVars, swap, handlerVars, stranded>>

(* Mutant: the check over HTTP alone keeps a machine from a second sale.   *)
DirectSaleUnindexed(c, m) ==
    /\ saleType[c] = "DIRECT" /\ type[c] = "NONE"
    /\ stock[m] = "AVAILABLE"
    /\ allocated' = allocated \cup {<<c, m>>}
    /\ item' = [item EXCEPT ![c] = m]
    /\ SetStatus(c, "FINAL", "SENT", "NONE")
    /\ Publish(StatusEvent(m, "SALE"), {})
    /\ UNCHANGED <<saleType, past, swap, handlerVars, stranded>>

(* createDirectSale: the check over HTTP, the transaction, the event.      *)
DirectSale(c, m) ==
    /\ saleType[c] = "DIRECT" /\ type[c] = "NONE"
    /\ stock[m] = "AVAILABLE"
    /\ FreeOfIndex(m)
    /\ allocated' = allocated \cup {<<c, m>>}
    /\ item' = [item EXCEPT ![c] = m]
    /\ SetStatus(c, "FINAL", "SENT", "NONE")
    /\ Publish(StatusEvent(m, "SALE"), {})
    /\ UNCHANGED <<saleType, past, swap, handlerVars, stranded>>

----------------------------------------------------------------------------
(* Giving machines back.  Rejection, the final usage record and the        *)
(* consolidated invoice commit the contract first; the same handler then   *)
(* reads the ALLOCATED rows, updates whatever is ALLOCATED by then, and    *)
(* publishes for the rows it read.  Contracts release one at a time.       *)

StartRelease(c) ==
    /\ release[c] = NoRelease
    /\ release' = [release EXCEPT ![c] = [stage |-> "find", found |-> {}]]

FinanceReject(c) ==
    /\ status[c] \in {"EMPLOYEE_APPROVED", "FINANCE_APPROVED", "WAITING_FINANCE_APPROVAL"}
    /\ SetStatus(c, type[c], "FINANCE_REJECTED", contractStatus[c])
    /\ StartRelease(c)
    /\ UNCHANGED <<saleType, allocationVars, swap, removing, checked, stranded, inventoryVars>>

(* recordUsage for the last period.  A LEASE keeps its machines.           *)
RecordFinalUsage(c) ==
    /\ Exists(c) /\ type[c] = "PROFORMA"
    /\ contractStatus[c] # "COMPLETED"
    /\ SetStatus(c, "PROFORMA", status[c], "COMPLETED")
    /\ IF saleType[c] = "RENT" THEN StartRelease(c) ELSE UNCHANGED release
    /\ UNCHANGED <<saleType, allocationVars, swap, removing, checked, stranded, inventoryVars>>

GenerateConsolidatedFinalInvoice(c) ==
    /\ Exists(c) /\ type[c] = "PROFORMA"
    /\ contractStatus[c] # "COMPLETED"
    /\ SetStatus(c, "FINAL", "INVOICED", "COMPLETED")
    /\ IF saleType[c] = "RENT" THEN StartRelease(c) ELSE UNCHANGED release
    /\ UNCHANGED <<saleType, allocationVars, swap, removing, checked, stranded, inventoryVars>>

ReleaseFind(c) ==
    /\ release[c].stage = "find"
    /\ release' = [release EXCEPT ![c] =
                     IF HeldBy(c) = {} THEN NoRelease
                     ELSE [stage |-> "update", found |-> HeldBy(c)]]
    /\ stranded' = IF HeldBy(c) = {} THEN stranded \ {c} ELSE stranded
    /\ UNCHANGED <<saleType, paperVars, allocationVars, swap, removing, checked, inventoryVars>>

(* Mutant: the update names the rows that were found.                      *)
ReleaseUpdateFound(c) ==
    LET found == release[c].found IN
    /\ release[c].stage = "update"
    /\ allocated' = allocated \ ({c} \X found)
    /\ RowsPast(c, HeldBy(c))
    /\ stranded' = stranded \ {c}
    /\ RowsClosed(c, found)
    /\ release' = [release EXCEPT ![c] = NoRelease]
    /\ Publish({[machine |-> m, bill |-> "RETURNED"] : m \in found},
               (found \ HeldBy(c)) \cup (HeldBy(c) \ found))
    /\ UNCHANGED <<saleType, paperVars, item, swap, removing>>

(* Mutant: nothing is published for the machines that come back.           *)
ReleaseUpdateSilently(c) ==
    LET found == release[c].found IN
    /\ release[c].stage = "update"
    /\ allocated' = allocated \ ({c} \X Machine)
    /\ RowsPast(c, HeldBy(c))
    /\ stranded' = stranded \ {c}
    /\ RowsClosed(c, Machine)
    /\ release' = [release EXCEPT ![c] = NoRelease]
    /\ Publish({}, (found \ HeldBy(c)) \cup (HeldBy(c) \ found))
    /\ UNCHANGED <<saleType, paperVars, item, swap, removing>>

ReleaseUpdate(c) ==
    LET found == release[c].found IN
    /\ release[c].stage = "update"
    /\ allocated' = allocated \ ({c} \X Machine)
    /\ RowsPast(c, HeldBy(c))
    /\ stranded' = stranded \ {c}
    /\ RowsClosed(c, Machine)
    /\ release' = [release EXCEPT ![c] = NoRelease]
    /\ Publish({[machine |-> m, bill |-> "RETURNED"] : m \in found},
               (found \ HeldBy(c)) \cup (HeldBy(c) \ found))
    /\ UNCHANGED <<saleType, paperVars, item, swap, removing>>

(* The service stops, or the query throws, after the first commit.  No     *)
(* retry finds the contract again.                                         *)
ReleaseCutShort(c) ==
    /\ release[c].stage # "none"
    /\ release' = [release EXCEPT ![c] = NoRelease]
    /\ LeavesBehind(c, HeldBy(c))
    /\ UNCHANGED <<saleType, paperVars, allocationVars, swap, removing, checked, inventoryVars>>

(* expireContractsJob: the inventory is told, the rows stay ALLOCATED.     *)
ExpireContract(c) ==
    /\ type[c] = "PROFORMA" /\ status[c] = "ACTIVE_CONTRACT"
    /\ SetStatus(c, "PROFORMA", "EXPIRED", contractStatus[c])
    /\ Publish({[machine |-> m, bill |-> "RETURNED"] : m \in HeldBy(c)}, HeldBy(c))
    /\ UNCHANGED <<saleType, allocationVars, swap, handlerVars, stranded>>

----------------------------------------------------------------------------
(* Replacements, swaps and credit notes.                                   *)

(* replaceDeviceAllocation, by allocation: the contract is not looked at,  *)
(* and nothing keeps the row from being released before it is saved.       *)
CheckReplacement(c, m) ==
    /\ "replace" \in Called[saleType]
    /\ <<c, m>> \in allocated
    /\ Check(c, "replace", m)

(* The row read is saved as REPLACED by its id; the machine is told to be  *)
(* back, and another one is out, whatever became of the row.               *)
ReplaceDevice(c, n) ==
    LET m == checked[c].row
        live == checked[c].live
    IN
    /\ Saves(c, "replace")
    /\ m # n
    /\ FreeOfIndex(n)
    /\ allocated' = (IF live THEN allocated \ {<<c, m>>} ELSE allocated) \cup {<<c, n>>}
    /\ RowsPast(c, {m})
    /\ item' = IF Exists(c) /\ item[c] = m THEN [item EXCEPT ![c] = n] ELSE item
    /\ LeavesBehind(c, IF live THEN {} ELSE {n})
    /\ Publish(StatusEvent(m, "RETURNED")
                 \cup StatusEvent(n, IF saleType[c] = "LEASE" THEN "LEASE" ELSE "RENT"),
               IF live \/ FreeOfIndex(m) THEN {} ELSE {m})
    /\ UNCHANGED <<saleType, paperVars, swap, release, removing>>

(* The index refuses the new row.                                          *)
ReplacementFails(c) ==
    /\ Saves(c, "replace")
    /\ UNCHANGED <<saleType, paperVars, allocationVars, swap, release, removing, stranded, inventoryVars>>

InitiateSwap(c, current, n) ==
    /\ Exists(c) /\ ~ Metered(c)
    /\ swap[c] = NoSwap
    /\ current \in IF HeldBy(c) = {} THEN {NoMachine} ELSE HeldBy(c)
    /\ n # current
    /\ stock[n] = "AVAILABLE"
    /\ swap' = [swap EXCEPT ![c] = [current |-> current, requested |-> n]]
    /\ UNCHANGED <<saleType, paperVars, allocationVars, handlerVars, stranded, inventoryVars>>

(* The row closed is one that is ALLOCATED now (old), the machine told to  *)
(* be back is the one the request was made for (current).                  *)
ApproveSwap(c, old) ==
    LET current == swap[c].current
        n == swap[c].requested
    IN
    /\ swap[c] # NoSwap
    /\ stock[n] = "AVAILABLE"
    /\ old \in IF HeldBy(c) = {} THEN {NoMachine} ELSE HeldBy(c)
    /\ FreeOfIndex(n) \/ n = old
    /\ allocated' = (allocated \ {<<c, old>>}) \cup {<<c, n>>}
    /\ swap' = [swap EXCEPT ![c] = NoSwap]
    /\ Publish(StatusEvent(current, "RETURNED") \cup StatusEvent(n, "SALE"),
               IF old = current THEN {} ELSE {old, current} \ {NoMachine})
    /\ RowsClosed(c, {old})
    /\ UNCHANGED <<saleType, paperVars, item, past, release, removing, stranded>>

RejectSwap(c) ==
    /\ swap[c] # NoSwap
    /\ swap' = [swap EXCEPT ![c] = NoSwap]
    /\ UNCHANGED <<saleType, paperVars, allocationVars, handlerVars, stranded, inventoryVars>>

(* Credit notes: DIRECT_REFUND at its approval, REPLACEMENT and            *)
(* CREDIT_EXCHANGE when completed.  Neither touches product_allocations.   *)
ApproveRefund(c) ==
    /\ type[c] = "FINAL" /\ Exists(c)
    /\ item[c] # NoMachine
    /\ SetStatus(c, "FINAL", "REFUNDED", contractStatus[c])
    /\ Publish(StatusEvent(item[c], "RETURNED"), {item[c]})
    /\ UNCHANGED <<saleType, allocationVars, swap, handlerVars, stranded>>

CompleteExchange(c, n) ==
    /\ type[c] = "FINAL" /\ Exists(c)
    /\ item[c] \notin {NoMachine, n}
    /\ Publish(StatusEvent(item[c], "RETURNED") \cup StatusEvent(n, "SALE"), {item[c], n})
    /\ UNCHANGED <<saleType, paperVars, allocationVars, swap, handlerVars, stranded>>

----------------------------------------------------------------------------
(* The inventory service.                                                  *)

(* An event is applied and acknowledged, or applied and delivered again    *)
(* because the acknowledgement was lost.                                   *)
Consume(e, again) ==
    /\ e \in queue
    /\ stock' = [stock EXCEPT ![e.machine] = StatusOf[e.bill]]
    /\ queue' = IF again THEN queue ELSE queue \ {e}
    /\ UNCHANGED <<saleType, paperVars, allocationVars, swap, handlerVars, stranded, explained>>

(* The publisher stops before it publishes, or publishing throws and is    *)
(* only logged.                                                            *)
LoseEvent(e) ==
    /\ e \in queue
    /\ queue' = queue \ {e}
    /\ explained' = explained \cup {e.machine}
    /\ UNCHANGED <<saleType, paperVars, allocationVars, swap, handlerVars, stranded, stock>>

(* A returned machine is inspected and put back on the shelf by hand (the  *)
(* other edits of the status that updateProduct allows are left out).      *)
BackOnShelf(m) ==
    /\ stock[m] = "RETURNED"
    /\ stock' = [stock EXCEPT ![m] = "AVAILABLE"]
    /\ UNCHANGED <<saleType, paperVars, allocationVars, swap, handlerVars, stranded, queue, explained>>

QuotationStep(c) ==
    \/ \E s \in SetByHand[saleType] : UpdateStatus(c, s)
    \/ \E accept \in BOOLEAN : CustomerRespond(c, accept)
    \/ EmployeeApprove(c)
    \/ FinanceApproveQuotation(c)
    \/ RequestValidityExtension(c)
    \/ ConvertToTransaction(c)
    \/ ApproveQuotation(c)
    \/ ReassignCustomer(c)
    \/ CheckDelete(c)
    \/ DeleteInvoice(c)

ContractStep(c) ==
    \/ CheckAllocation(c)
    \/ \E m \in Machine : AllocateMachines(c, m)
    \/ AllocateOtherLines(c)
    \/ AllocationFails(c)
    \/ ActivateContract(c)
    \/ FinanceReject(c)
    \/ RecordFinalUsage(c)
    \/ GenerateConsolidatedFinalInvoice(c)
    \/ ReleaseFind(c)
    \/ ReleaseUpdate(c)
    \/ ReleaseCutShort(c)
    \/ ExpireContract(c)

ExchangeStep(c) ==
    \/ \E m \in Machine : CheckReplacement(c, m)
    \/ \E n \in Machine : ReplaceDevice(c, n)
    \/ ReplacementFails(c)
    \/ \E current \in Machine \cup {NoMachine}, n \in Machine : InitiateSwap(c, current, n)
    \/ \E old \in Machine \cup {NoMachine} : ApproveSwap(c, old)
    \/ RejectSwap(c)
    \/ ApproveRefund(c)
    \/ \E n \in Machine : CompleteExchange(c, n)

InventoryStep ==
    \/ \E e \in queue : LoseEvent(e) \/ \E again \in BOOLEAN : Consume(e, again)
    \/ \E m \in Machine : BackOnShelf(m)

Next ==
    \/ \E c \in Worked : QuotationStep(c) \/ ContractStep(c) \/ ExchangeStep(c)
    \/ \E c \in Contract, m \in Machine : DirectSale(c, m)
    \/ InventoryStep

Spec == Init /\ [][Next]_vars

----------------------------------------------------------------------------
(* Properties.                                                             *)

TypeOK ==
    /\ saleType \in SaleTypes \cap [Contract -> SaleType]
    /\ type \in [Contract -> Type]
    /\ status \in [Contract -> Status]
    /\ contractStatus \in [Contract -> ContractStatus]
    /\ item \in [Contract -> Machine \cup {NoMachine}]
    /\ allocated \subseteq Contract \X Machine
    /\ past \subseteq Contract
    /\ swap \in [Contract ->
                   {NoSwap} \cup [current : Machine \cup {NoMachine}, requested : Machine]]
    /\ release \in [Contract -> [stage : {"none", "find", "update"}, found : SUBSET Machine]]
    /\ removing \subseteq Contract
    /\ checked \in [Contract -> [op : {"none", "allocate", "replace"},
                                 row : Machine \cup {NoMachine}, live : BOOLEAN]]
    /\ queue \subseteq Event
    /\ stock \in [Machine -> StockStatus]
    /\ stranded \subseteq Contract
    /\ explained \subseteq Machine

(* The ALLOCATED rows implement MachineHolding: one contract per machine,  *)
(* and no hand-over from one contract to another without the machine       *)
(* coming back first, whichever of allocation, sale, replacement, swap and *)
(* release meet.                                                           *)
Holding == INSTANCE MachineHolding WITH held <- allocated

ImplementsHolding == Holding!Spec

(* A rejected or completed rental keeps no machine, in whatever order      *)
(* rejection, completion, replacement and repeated allocation came.  The   *)
(* causes by which one does, and keeps it until the next release, are      *)
(* recorded where they happen: a release cut short, a status set by hand   *)
(* while the contract had machines, and a replacement saved after the row  *)
(* it read had been given back.                                            *)
EndedHoldsNothing ==
    \A c \in Contract \ stranded :
        /\ release[c] = NoRelease
        /\ \/ Metered(c) /\ status[c] = "FINANCE_REJECTED"
           \/ saleType[c] = "RENT" /\ contractStatus[c] = "COMPLETED"
        => HeldBy(c) = {}

(* Once its events are handled, the inventory counts a machine as out      *)
(* exactly when billing has it allocated, except for the causes named in   *)
(* Publish: events that overtake each other or are lost, and flows that    *)
(* tell the inventory one thing and the allocations another.               *)
StockFollowsAllocation ==
    \A m \in Machine \ explained :
        ~ Pending(m) => (stock[m] \in Out <=> ~ FreeOfIndex(m))

(* "A metered contract must have at least one machine allocated before it  *)
(* goes live."                                                             *)
GoesLiveWithMachine ==
    [][\A c \in Contract :
         Metered(c) /\ contractStatus[c] # "ACTIVE" /\ contractStatus'[c] = "ACTIVE"
         => HeldBy(c) # {}]_vars
==============================================================================
