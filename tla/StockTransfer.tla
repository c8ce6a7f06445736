--------------------------- MODULE StockTransfer ---------------------------
(***************************************************************************)
(* Stock transfers of the inventory service                                *)
(* (ven_inv_service/src/services/stockTransferService.ts), with the        *)
(* receiving lots they create (repositories/lotRepository.ts).             *)
(*                                                                         *)
(* A transfer moves machines (one row per serial number) and spare parts   *)
(* (one counter row per part and warehouse) between the warehouses of one  *)
(* branch (INTRA) or to another branch (INTER).  An INTER request goes     *)
(* through submit, approve, dispatch and receipt; an INTRA one is          *)
(* dispatched straight from its draft.                                     *)
(*                                                                         *)
(* Here every operation is one step: this is what the service promises     *)
(* when the handlers of one transfer do not overlap.  StockTransferRace    *)
(* has the same operations as the code runs them, read and commit apart.   *)
(*                                                                         *)
(* The rows are not the transfers' own: sales, returns and service tickets *)
(* take from and add to the same spare_parts rows, the product status      *)
(* events and the product form write the same products rows.  They are     *)
(* here as they touch those rows, and no more.                             *)
(*                                                                         *)
(* Who may call an operation (assertBranch, the ban on approving one's own *)
(* request), prices, notifications and caches are left out: they restrict  *)
(* or follow a step and change none of the state below.                    *)
(***************************************************************************)
EXTENDS Integers, FiniteSets, Functions

CONSTANTS
    Transfer,       \* transfer numbers
    Machine,        \* serial numbers
    Model,          \* machine models
    ModelOf,        \* [Machine -> Model]
    Kind,           \* spare parts up to part_name, brand and model
    Branch,
    Warehouse,
    BranchOf,       \* [Warehouse -> Branch]
    NoWarehouse,    \* source_warehouse_id of an INTER request
    Body,           \* the request bodies clients send (CreateTransferBody)
    MaxQty,         \* bound on the requested quantity of a spare-part line
    InitQuantity,   \* [Row -> Nat], the stock to begin with
    InitWarehouse,  \* [Machine -> Warehouse]
    SharedRow,      \* the rows sales, returns and tickets touch
    MaxOther,       \* bound on the units they take off, put on or hold of a row
    Edit            \* the warehouses staff give machines in the product form

(* One spare_parts row per part and warehouse; a missing row is one with   *)
(* zero counters (resolveDestSparePart creates it so).                     *)
Row == Kind \X Warehouse

(* The lines of a request: spare-part lines as a quantity per row (0: no   *)
(* line), machine lines as a count per model (INTER) or as serials (INTRA).*)
BodyType ==
    [type     : {"INTRA", "INTER"},
     srcBranch: Branch,
     src      : Warehouse \cup {NoWarehouse},
     dst      : Warehouse,
     parts    : [Row -> 0..MaxQty],
     models   : [Model -> Nat],
     machines : SUBSET Machine]

ASSUME ConstantsAssumption ==
    /\ IsFiniteSet(Transfer) /\ IsFiniteSet(Machine) /\ IsFiniteSet(Warehouse)
    /\ ModelOf \in [Machine -> Model]
    /\ BranchOf \in [Warehouse -> Branch]
    /\ MaxQty \in Nat
    /\ Body \subseteq BodyType
    /\ InitQuantity \in [Row -> Nat]
    /\ InitWarehouse \in [Machine -> Warehouse]
    /\ SharedRow \subseteq Row
    /\ MaxOther \in Nat
    /\ Edit \subseteq Machine \X Warehouse

Status == {"DRAFT", "SENT", "APPROVED", "REJECTED", "IN_TRANSIT", "COMPLETED",
           "CANCELLED"}
LotStatus == {"PENDING", "RECEIVING", "RECEIVED", "CANCELLED"}
TransferStatus == {"NONE", "COMMITTED", "IN_TRANSIT"}

VARIABLES
    status,         \* [Transfer -> Status \cup {"NEW"}]
    body,           \* [Transfer -> Body], fixed: what transfer t asks for
    assigned,       \* assigned_product_ids of the approved machine lines
    approved,       \* approved_qty per spare-part row, 0 for no such line
    lot,            \* status of lot TRF-t, "NONE" when there is none
    quantity,       \* spare_parts.quantity
    reserved,       \* spare_parts.reserved_quantity
    warehouse,      \* products.warehouse_id
    transferStatus, \* products.transfer_status
    available,      \* products.product_status = AVAILABLE
    ticketed,       \* the part of reserved that service tickets hold
    others,         \* history: units sales, returns and tickets put on a row,
                    \* less the units they took off it
    moved           \* history: machines staff moved since a transfer took them

transferVars == <<status, assigned, approved, lot>>
partVars == <<quantity, reserved, ticketed, others>>
machineVars == <<warehouse, transferStatus, available, moved>>
vars == <<transferVars, body, partVars, machineVars>>

NoParts == [r \in Row |-> 0]

----------------------------------------------------------------------------
(* What the handlers compute from the rows.                                *)

Free(r) == quantity[r] - reserved[r]

(* Mutant: transfer_status forgotten.                                      *)
FreeMachineWhateverTransfer(m) == available[m]

FreeMachine(m) == available[m] /\ transferStatus[m] = "NONE"

OfModel(S, d) == {m \in S : ModelOf[m] = d}

InBranch(m, b) == BranchOf[warehouse[m]] = b

(* The serials a transfer carries: the assigned ones, else the product_id  *)
(* of the line.                                                            *)
Carried(t) == IF body[t].type = "INTRA" THEN body[t].machines ELSE assigned[t]

(* The units of part k in the rows of all warehouses, counted by q.        *)
UnitsOf(k, q) == SumFunction([w \in Warehouse |-> q[<<k, w>>]])

(* Mutant: what was requested lands, not what was approved.                *)
LandingUnitsRequested(t, r) ==
    IF r[2] = body[t].dst THEN UnitsOf(r[1], body[t].parts) ELSE 0

(* What the lines of a transfer put on row r at its destination: the units *)
(* of the same part from every source row.                                 *)
LandingUnits(t, r) == IF r[2] = body[t].dst THEN UnitsOf(r[1], approved[t]) ELSE 0

Monus(a, b) == IF a >= b THEN a - b ELSE 0

Init ==
    /\ status = [t \in Transfer |-> "NEW"]
    /\ body \in [Transfer -> Body]
    /\ assigned = [t \in Transfer |-> {}]
    /\ approved = [t \in Transfer |-> NoParts]
    /\ lot = [t \in Transfer |-> "NONE"]
    /\ quantity = InitQuantity
    /\ reserved = NoParts
    /\ warehouse = InitWarehouse
    /\ transferStatus = [m \in Machine |-> "NONE"]
    /\ available = [m \in Machine |-> TRUE]
    /\ ticketed = NoParts
    /\ others = NoParts
    /\ moved = {}

----------------------------------------------------------------------------
(* createDraft, with validateIntraItems and validateInterItems.            *)

ValidIntraItems(b) ==
    /\ \A m \in b.machines : warehouse[m] = b.src /\ FreeMachine(m)
    /\ \A r \in Row : b.parts[r] > 0 => r[2] = b.src /\ b.parts[r] <= Free(r)

ValidInterItems(b) ==
    /\ \A d \in Model :
         b.models[d] <= Cardinality({m \in OfModel(Machine, d) :
                                        FreeMachine(m) /\ InBranch(m, b.srcBranch)})
    /\ \A r \in Row :
         b.parts[r] > 0 => BranchOf[r[2]] = b.srcBranch /\ b.parts[r] <= Free(r)

CreateDraft(t) ==
    LET b == body[t] IN
    /\ status[t] = "NEW"
    /\ \/ /\ b.type = "INTRA"
          /\ b.srcBranch = BranchOf[b.dst]
          /\ b.src \in Warehouse /\ b.src # b.dst
          /\ ValidIntraItems(b)
       \/ /\ b.type = "INTER"
          /\ b.srcBranch # BranchOf[b.dst]
          /\ ValidInterItems(b)
    /\ status' = [status EXCEPT ![t] = "DRAFT"]
    /\ UNCHANGED <<assigned, approved, lot, body, partVars, machineVars>>

Submit(t) ==
    /\ body[t].type = "INTER"
    /\ status[t] = "DRAFT"
    /\ status' = [status EXCEPT ![t] = "SENT"]
    /\ UNCHANGED <<assigned, approved, lot, body, partVars, machineVars>>

(* approve: q gives each spare-part line its approved quantity and S the   *)
(* serials assigned to the machine lines.  All lines at zero: the request  *)
(* is rejected and no lot is made.                                         *)
ApprovableMachines(t, S) ==
    /\ \A m \in S : FreeMachine(m) /\ InBranch(m, body[t].srcBranch)
    /\ \A d \in Model : Cardinality(OfModel(S, d)) <= body[t].models[d]

(* Mutant: units reserved by other transfers count as available.           *)
ApprovablePartsIgnoringReserved(t, q) ==
    \A r \in Row : q[r] > 0 => q[r] <= body[t].parts[r] /\ q[r] <= quantity[r]

ApprovableParts(t, q) ==
    \A r \in Row : q[r] > 0 => q[r] <= body[t].parts[r] /\ q[r] <= Free(r)

Approve(t, S, q) ==
    /\ body[t].type = "INTER"
    /\ status[t] = "SENT"
    /\ ApprovableMachines(t, S)
    /\ ApprovableParts(t, q)
    /\ S # {} \/ q # NoParts
    /\ assigned' = [assigned EXCEPT ![t] = S]
    /\ approved' = [approved EXCEPT ![t] = q]
    /\ transferStatus' = [m \in Machine |->
                            IF m \in S THEN "COMMITTED" ELSE transferStatus[m]]
    /\ reserved' = [r \in Row |-> reserved[r] + q[r]]
    /\ lot' = [lot EXCEPT ![t] = "PENDING"]
    /\ status' = [status EXCEPT ![t] = "APPROVED"]
    /\ moved' = moved \ S
    /\ UNCHANGED <<body, quantity, warehouse, available, ticketed, others>>

(* reject, and approve with every line at zero.                            *)
Reject(t) ==
    /\ status[t] = "SENT"
    /\ status' = [status EXCEPT ![t] = "REJECTED"]
    /\ UNCHANGED <<assigned, approved, lot, body, partVars, machineVars>>

(* Mutant: the machines move when they leave.                              *)
DispatchIntraMoving(t) ==
    LET b == body[t] IN
    /\ b.type = "INTRA"
    /\ status[t] = "DRAFT"
    /\ \A m \in b.machines : warehouse[m] = b.src /\ transferStatus[m] = "NONE"
    /\ \A r \in Row : b.parts[r] > 0 => b.parts[r] <= Free(r)
    /\ transferStatus' = [m \in Machine |->
                            IF m \in b.machines THEN "IN_TRANSIT" ELSE transferStatus[m]]
    /\ warehouse' = [m \in Machine |-> IF m \in b.machines THEN b.dst ELSE warehouse[m]]
    /\ quantity' = [r \in Row |-> quantity[r] - b.parts[r]]
    /\ approved' = [approved EXCEPT ![t] = b.parts]
    /\ lot' = [lot EXCEPT ![t] = "PENDING"]
    /\ status' = [status EXCEPT ![t] = "IN_TRANSIT"]
    /\ moved' = moved \ b.machines
    /\ UNCHANGED <<assigned, body, reserved, available, ticketed, others>>

(* dispatchIntra: no approval came first, so it checks, deducts and makes  *)
(* the lot itself.  It does not look at product_status again.              *)
DispatchIntra(t) ==
    LET b == body[t] IN
    /\ b.type = "INTRA"
    /\ status[t] = "DRAFT"
    /\ \A m \in b.machines : warehouse[m] = b.src /\ transferStatus[m] = "NONE"
    /\ \A r \in Row : b.parts[r] > 0 => b.parts[r] <= Free(r)
    /\ transferStatus' = [m \in Machine |->
                            IF m \in b.machines THEN "IN_TRANSIT" ELSE transferStatus[m]]
    /\ quantity' = [r \in Row |-> quantity[r] - b.parts[r]]
    /\ approved' = [approved EXCEPT ![t] = b.parts]
    /\ lot' = [lot EXCEPT ![t] = "PENDING"]
    /\ status' = [status EXCEPT ![t] = "IN_TRANSIT"]
    /\ moved' = moved \ b.machines
    /\ UNCHANGED <<assigned, body, reserved, warehouse, available, ticketed, others>>

(* dispatchInter: trusts what approve set aside and checks nothing.        *)
DispatchInter(t) ==
    /\ body[t].type = "INTER"
    /\ status[t] = "APPROVED"
    /\ transferStatus' = [m \in Machine |->
                            IF m \in assigned[t] THEN "IN_TRANSIT" ELSE transferStatus[m]]
    /\ quantity' = [r \in Row |-> quantity[r] - approved[t][r]]
    /\ reserved' = [r \in Row |-> Monus(reserved[r], approved[t][r])]
    /\ status' = [status EXCEPT ![t] = "IN_TRANSIT"]
    /\ UNCHANGED <<assigned, approved, lot, body, warehouse, available, ticketed, others, moved>>

(* cancel: an approval is undone, anything earlier held nothing.           *)
CancelUnapproved(t) ==
    /\ status[t] \in {"DRAFT", "SENT"}
    /\ status' = [status EXCEPT ![t] = "CANCELLED"]
    /\ UNCHANGED <<assigned, approved, lot, body, partVars, machineVars>>

(* Mutant: the reservation of the parts is left behind.                    *)
CancelApprovedKeepingReservation(t) ==
    /\ status[t] = "APPROVED"
    /\ transferStatus' = [m \in Machine |->
                            IF m \in assigned[t] THEN "NONE" ELSE transferStatus[m]]
    /\ lot' = [lot EXCEPT ![t] = "CANCELLED"]
    /\ status' = [status EXCEPT ![t] = "CANCELLED"]
    /\ UNCHANGED <<assigned, approved, body, partVars, warehouse, available, moved>>

(* Mutant: what was requested is released, not what was approved, and      *)
(* without the Math.max.                                                   *)
CancelApprovedAsRequested(t) ==
    /\ status[t] = "APPROVED"
    /\ transferStatus' = [m \in Machine |->
                            IF m \in assigned[t] THEN "NONE" ELSE transferStatus[m]]
    /\ reserved' = [r \in Row |-> reserved[r] - body[t].parts[r]]
    /\ lot' = [lot EXCEPT ![t] = "CANCELLED"]
    /\ status' = [status EXCEPT ![t] = "CANCELLED"]
    /\ UNCHANGED <<assigned, approved, body, quantity, warehouse, available, ticketed, others,
                   moved>>

CancelApproved(t) ==
    /\ status[t] = "APPROVED"
    /\ transferStatus' = [m \in Machine |->
                            IF m \in assigned[t] THEN "NONE" ELSE transferStatus[m]]
    /\ reserved' = [r \in Row |-> Monus(reserved[r], approved[t][r])]
    /\ lot' = [lot EXCEPT ![t] = "CANCELLED"]
    /\ status' = [status EXCEPT ![t] = "CANCELLED"]
    /\ UNCHANGED <<assigned, approved, body, quantity, warehouse, available, ticketed, others,
                   moved>>

(* Mutant: a received lot is counted again.                                *)
UpdateReceivingAlways(t) ==
    /\ lot[t] \in LotStatus
    /\ lot' = [lot EXCEPT ![t] = "RECEIVING"]
    /\ UNCHANGED <<status, assigned, approved, body, partVars, machineVars>>

(* updateReceivingQuantities: counting the goods of a lot; only a RECEIVED *)
(* lot refuses it.                                                         *)
UpdateReceiving(t) ==
    /\ lot[t] \in LotStatus \ {"RECEIVED"}
    /\ lot' = [lot EXCEPT ![t] = "RECEIVING"]
    /\ UNCHANGED <<status, assigned, approved, body, partVars, machineVars>>

(* confirmLotReceived with completeFromLot, one transaction.  It fails as  *)
(* a whole unless the transfer is in transit.                              *)
ConfirmReceived(t) ==
    /\ lot[t] \in LotStatus \ {"RECEIVED"}
    /\ status[t] = "IN_TRANSIT"
    /\ lot' = [lot EXCEPT ![t] = "RECEIVED"]
    /\ warehouse' = [m \in Machine |->
                       IF m \in Carried(t) THEN body[t].dst ELSE warehouse[m]]
    /\ transferStatus' = [m \in Machine |->
                            IF m \in Carried(t) THEN "NONE" ELSE transferStatus[m]]
    /\ quantity' = [r \in Row |-> quantity[r] + LandingUnits(t, r)]
    /\ status' = [status EXCEPT ![t] = "COMPLETED"]
    /\ UNCHANGED <<assigned, approved, body, reserved, available, ticketed, others, moved>>

----------------------------------------------------------------------------
(* The other writers of the same rows.                                     *)

(* productStatusUpdateWorker: a sale, rental, return or damage reported by *)
(* billing rewrites product_status and never looks at transfer_status.     *)
ProductStatusUpdate(m, a) ==
    /\ available' = [available EXCEPT ![m] = a]
    /\ UNCHANGED <<transferVars, body, partVars, warehouse, transferStatus, moved>>

(* updateproduct: the form sends warehouse_id and product_status with      *)
(* every save, and nobody looks at transfer_status.                        *)
EditProduct(m, w, a) ==
    /\ warehouse' = [warehouse EXCEPT ![m] = w]
    /\ available' = [available EXCEPT ![m] = a]
    /\ moved' = IF w # warehouse[m] /\ transferStatus[m] # "NONE"
                THEN moved \cup {m} ELSE moved
    /\ UNCHANGED <<transferVars, body, partVars, transferStatus>>

(* What the other services do to a row, n units at a time: how many it     *)
(* puts on the shelf (a sale takes them off) and how many more a ticket    *)
(* holds.                                                                  *)
Sale(n) == [shelf |-> -n, held |-> 0]
Return(n) == [shelf |-> n, held |-> 0]
TicketReserve(n) == [shelf |-> -n, held |-> n]
TicketRelease(n) == [shelf |-> n, held |-> -n]
TicketConsume(n) == [shelf |-> 0, held |-> -n]

Change == UNION {{Sale(n), Return(n), TicketReserve(n), TicketRelease(n), TicketConsume(n)} :
                    n \in 1..MaxQty}

(* reserveSparePart looks at quantity alone; a ticket gives back only what *)
(* it holds; a sale checks nothing.                                        *)
MayChange(r, c) ==
    /\ c.held > 0 => c.held <= quantity[r]
    /\ ticketed[r] + c.held \in 0..MaxOther
    /\ others[r] + c.shelf \in (-MaxOther)..MaxOther

PutHeld(n, held) == IF held < 0 THEN Monus(n, -held) ELSE n + held

OtherChange(r, c) ==
    /\ MayChange(r, c)
    /\ quantity' = [quantity EXCEPT ![r] = @ + c.shelf]
    /\ reserved' = [reserved EXCEPT ![r] = PutHeld(@, c.held)]
    /\ ticketed' = [ticketed EXCEPT ![r] = @ + c.held]
    /\ others' = [others EXCEPT ![r] = @ + c.shelf]
    /\ UNCHANGED <<transferVars, body, machineVars>>

Next ==
    \/ \E t \in Transfer :
         \/ CreateDraft(t)
         \/ Submit(t)
         \/ \E S \in SUBSET Machine, q \in [Row -> 0..MaxQty] : Approve(t, S, q)
         \/ Reject(t)
         \/ DispatchIntra(t)
         \/ DispatchInter(t)
         \/ CancelUnapproved(t)
         \/ CancelApproved(t)
         \/ UpdateReceiving(t)
         \/ ConfirmReceived(t)
    \/ \E m \in Machine, a \in BOOLEAN : ProductStatusUpdate(m, a)
    \/ \E e \in Edit, a \in BOOLEAN : EditProduct(e[1], e[2], a)
    \/ \E r \in SharedRow, c \in Change : OtherChange(r, c)

Spec == Init /\ [][Next]_vars

----------------------------------------------------------------------------
(* Properties.                                                             *)

(* Every row holds a value of its column's type.  A sale may drive         *)
(* quantity below zero (the comment at sparePartReductionWorker.ts:90-94   *)
(* tells of one); reserved_quantity, with all its writers, never is.       *)
TypeOK ==
    /\ status \in [Transfer -> Status \cup {"NEW"}]
    /\ body \in [Transfer -> Body]
    /\ assigned \in [Transfer -> SUBSET Machine]
    /\ approved \in [Transfer -> [Row -> 0..MaxQty]]
    /\ lot \in [Transfer -> LotStatus \cup {"NONE"}]
    /\ quantity \in [Row -> Int]
    /\ reserved \in [Row -> Nat]
    /\ warehouse \in [Machine -> Warehouse]
    /\ transferStatus \in [Machine -> TransferStatus]
    /\ available \in [Machine -> BOOLEAN]
    /\ ticketed \in [Row -> Nat]
    /\ others \in [Row -> Int]
    /\ moved \subseteq Machine

(* The units of row r that approved, not yet dispatched transfers hold.    *)
HeldUnits(r) ==
    SumFunction([t \in Transfer |-> IF status[t] = "APPROVED" THEN approved[t][r] ELSE 0])

(* reserved_quantity counts exactly the units that approved transfers and  *)
(* tickets hold: the Math.max(0, ...) of dispatchInter, cancel and the     *)
(* tickets never hides a release without its reservation, and no path      *)
(* leaves a reservation behind.                                            *)
ReservedMatchesApprovals == \A r \in Row : reserved[r] = HeldUnits(r) + ticketed[r]

(* What approved transfers were promised of row r and its shelf lacks.     *)
Shortage(r) == HeldUnits(r) - quantity[r]

(* Approvals and INTRA dispatches that compete for a row keep each other's *)
(* promises, and dispatchInter, which checks nothing, may rely on them: a  *)
(* row that lacks units approved transfers were promised got so by a sale  *)
(* or a ticket that took units off its shelf, which nothing stops.  No     *)
(* step of a transfer takes a row short, or shorter.                       *)
PromisesKept ==
    [][\A r \in Row : Shortage(r)' > 0 =>
         Shortage(r)' <= Shortage(r) \/ others'[r] < others[r]]_vars

CarriesNow(t, m, s) == status[t] = s /\ m \in Carried(t)

(* A machine is carried by at most one live transfer, and transfer_status  *)
(* says which stage it is at: COMMITTED while approved, IN_TRANSIT while   *)
(* dispatched, NONE otherwise, whichever way the transfer ended.           *)
MachineInOneTransfer ==
    /\ \A m \in Machine :
         /\ transferStatus[m] = "COMMITTED" <=> \E t \in Transfer : CarriesNow(t, m, "APPROVED")
         /\ transferStatus[m] = "IN_TRANSIT" <=> \E t \in Transfer : CarriesNow(t, m, "IN_TRANSIT")
    /\ \A t, u \in Transfer, m \in Machine :
         /\ CarriesNow(t, m, "APPROVED") \/ CarriesNow(t, m, "IN_TRANSIT")
         /\ CarriesNow(u, m, "APPROVED") \/ CarriesNow(u, m, "IN_TRANSIT")
         => t = u

(* The lot and its transfer tell the same story: goods on their way always *)
(* have a lot that can still be received, a lot is RECEIVED exactly when   *)
(* its transfer is COMPLETED, and a dead request has no receivable lot     *)
(* (counting a cancelled one reopens it as RECEIVING, but it never         *)
(* completes).                                                             *)
LotFollowsTransfer ==
    \A t \in Transfer :
        /\ status[t] \in {"NEW", "DRAFT", "SENT", "REJECTED"} => lot[t] = "NONE"
        /\ status[t] \in {"APPROVED", "IN_TRANSIT"} => lot[t] \in {"PENDING", "RECEIVING"}
        /\ lot[t] = "RECEIVED" <=> status[t] = "COMPLETED"
        /\ status[t] = "CANCELLED" => lot[t] # "PENDING"

(* The units of part k that have left a shelf and not arrived.             *)
OnTheWay(k) ==
    SumFunction([t \in Transfer |->
                    IF status[t] = "IN_TRANSIT" THEN UnitsOf(k, approved[t]) ELSE 0])

(* No unit is created or lost: the shelves of all warehouses and the       *)
(* transfers on the way always hold what there was to begin with and what  *)
(* the other services put on the shelves since, through partial approvals, *)
(* cancellations and receipts on a shared row.                             *)
StockConserved ==
    \A k \in Kind :
        UnitsOf(k, quantity) + OnTheWay(k) = UnitsOf(k, InitQuantity) + UnitsOf(k, others)

(* A machine that a transfer has taken stands in its source until the      *)
(* receipt, whatever other transfers of it and other receipts there are:   *)
(* the warehouse of an INTRA request, the branch of an INTER one.  Only    *)
(* the product form moves it earlier.                                      *)
TakenStandsAtSource ==
    \A t \in Transfer, m \in Machine \ moved :
        /\ CarriesNow(t, m, "APPROVED") => InBranch(m, body[t].srcBranch)
        /\ CarriesNow(t, m, "IN_TRANSIT") =>
             IF body[t].type = "INTRA" THEN warehouse[m] = body[t].src
                                       ELSE InBranch(m, body[t].srcBranch)
============================================================================
