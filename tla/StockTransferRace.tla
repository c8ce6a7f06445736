------------------------- MODULE StockTransferRace -------------------------
(***************************************************************************)
(* The operations of StockTransfer as the service runs them.  A request    *)
(* handler first loads the transfer (getByIdOrFail) and checks its status, *)
(* outside any transaction; it then opens a transaction, reads the product *)
(* and spare-part rows, and saves them.  Nothing re-reads or locks the     *)
(* transfer row, so other handlers may commit in between.                  *)
(*                                                                         *)
(* The database runs at READ COMMITTED.  approve alone locks the rows it   *)
(* reads (setLock('pessimistic_write')): its reads and writes are one step.*)
(* TypeORM's save(entity) writes back every column of the entity that      *)
(* differs from the row: the columns the handler never assigned come back  *)
(* with the values of its read, unless the other transaction commits       *)
(* after save compared them ("fresh").  The serial of a lot                *)
(* (TRF-<transfer_number>) is UNIQUE: a second lot of one transfer rolls   *)
(* its transaction back.                                                   *)
(*                                                                         *)
(* The other services write the rows the same way, read first and save     *)
(* later: the status worker the whole product, the sale worker, the        *)
(* returns and the tickets a whole spare part.  The product form alone     *)
(* updates its columns in one statement.                                   *)
(***************************************************************************)
EXTENDS StockTransfer

CONSTANTS
    Handler,    \* request handlers in flight at a time
    Op          \* what the handlers of this instance do

TransferOp == {"submit", "approve", "reject", "dispatch", "cancel", "count", "confirm"}

(* status: productStatusUpdateWorker; edit: updateproduct; stock: a sale,  *)
(* return or ticket.                                                       *)
OpType == TransferOp \cup {"status", "edit", "stock"}

ASSUME RaceAssumption == Op \subseteq OpType

VARIABLES
    linked,     \* stock_transfers.lot_id is set
    req         \* [Handler -> what the handler has read so far]

raceVars == <<vars, linked, req>>

Idle == [stage |-> "idle"]

(* What a transaction can read of the stock rows.                          *)
Rows == [quantity |-> quantity, reserved |-> reserved, warehouse |-> warehouse,
         transferStatus |-> transferStatus, available |-> available]

(* Mutant: approve without its pessimistic_write locks.                    *)
NoLockingOps == {}

(* The operations that lock the stock rows before they read them.          *)
LockingOps == {"approve"}

RaceInit ==
    /\ Init
    /\ linked = [t \in Transfer |-> FALSE]
    /\ req = [h \in Handler |-> Idle]

----------------------------------------------------------------------------
(* Loading: the status check of each operation, on the row as it is now.   *)

Admits(op, t) ==
    \/ op = "submit" /\ body[t].type = "INTER" /\ status[t] = "DRAFT"
    \/ op = "approve" /\ body[t].type = "INTER" /\ status[t] = "SENT"
    \/ op = "reject" /\ status[t] = "SENT"
    \/ op = "dispatch" /\ status[t] = (IF body[t].type = "INTRA" THEN "DRAFT" ELSE "APPROVED")
    \/ op = "cancel" /\ status[t] \in {"DRAFT", "SENT", "APPROVED"}
    \/ op \in {"count", "confirm"} /\ lot[t] \in LotStatus \ {"RECEIVED"}

Load(h, op, t) ==
    /\ req[h] = Idle
    /\ Admits(op, t)
    /\ req' = [req EXCEPT ![h] =
                 [stage |-> "loaded", op |-> op, t |-> t, status |-> status[t],
                  linked |-> linked[t], assigned |-> assigned[t], approved |-> approved[t]]]
    /\ UNCHANGED <<vars, linked>>

(* Reading the stock rows at the start of the transaction.  confirm has    *)
(* updated the lot row first and so excludes another confirm of that lot;  *)
(* cancel reads the items here, dispatch had them loaded.                  *)
ReadsRows(h) ==
    /\ req[h].op \notin LockingOps
    /\ \/ req[h].op \in {"approve", "dispatch", "confirm"}
       \/ req[h].op = "cancel" /\ req[h].status = "APPROVED"

ReadRows(h) ==
    LET t == req[h].t
        itemsNow == req[h].op \in {"cancel", "confirm"}
    IN
    /\ req[h].stage = "loaded"
    /\ ReadsRows(h)
    /\ req[h].op = "confirm" =>
         \A g \in Handler : ~ (req[g].stage = "read" /\ req[g].op = "confirm" /\ req[g].t = t)
    /\ req' = [req EXCEPT ![h] =
                 [stage |-> "read", op |-> req[h].op, t |-> t,
                  status |-> IF req[h].op = "confirm" THEN status[t] ELSE req[h].status,
                  linked |-> IF req[h].op = "confirm" THEN linked[t] ELSE req[h].linked,
                  assigned |-> IF itemsNow THEN assigned[t] ELSE req[h].assigned,
                  approved |-> IF itemsNow THEN approved[t] ELSE req[h].approved,
                  rows |-> Rows]]
    /\ UNCHANGED <<vars, linked>>

(* A handler about to commit: it has all it reads.                         *)
Ready(h, op) ==
    /\ req[h].stage = (IF req[h].stage # "idle" /\ ReadsRows(h) THEN "read" ELSE "loaded")
    /\ req[h].op = op

Seen(h) == IF req[h].op \in LockingOps THEN Rows ELSE req[h].rows

Done(h) == req' = [req EXCEPT ![h] = Idle]

(* An exception: the transaction rolls back and the request is over.       *)
Fail(h) ==
    /\ req[h] # Idle
    /\ Done(h)
    /\ UNCHANGED <<vars, linked>>

----------------------------------------------------------------------------
(* Saving: the columns a handler did not assign are written back as it     *)
(* read them, or keep their present value when fresh.                      *)

SaveTransfer(h, s, lotLinked) ==
    /\ status' = [status EXCEPT ![req[h].t] = s]
    /\ linked' = [linked EXCEPT ![req[h].t] = lotLinked]

KeptLink(h, fresh) == IF fresh THEN linked[req[h].t] ELSE req[h].linked

(* The lines of the transfer, saved after the goods.                       *)
SaveItems(h, fresh) ==
    /\ assigned' = [assigned EXCEPT ![req[h].t] = IF fresh THEN @ ELSE req[h].assigned]
    /\ approved' = [approved EXCEPT ![req[h].t] = IF fresh THEN @ ELSE req[h].approved]

SaveParts(h, touched, q, r) ==
    /\ quantity' = [x \in Row |-> IF x \in touched THEN q[x] ELSE quantity[x]]
    /\ reserved' = [x \in Row |-> IF x \in touched THEN r[x] ELSE reserved[x]]
    /\ UNCHANGED <<ticketed, others>>

SaveMachines(h, S, ts, fresh) ==
    /\ transferStatus' = [m \in Machine |-> IF m \in S THEN ts ELSE transferStatus[m]]
    /\ warehouse' = [m \in Machine |->
                       IF m \in S /\ ~ fresh THEN Seen(h).warehouse[m] ELSE warehouse[m]]
    /\ available' = [m \in Machine |->
                       IF m \in S /\ ~ fresh THEN Seen(h).available[m] ELSE available[m]]

Lines(q) == {r \in Row : q[r] > 0}

CommitSubmit(h, fresh) ==
    /\ Ready(h, "submit")
    /\ SaveTransfer(h, "SENT", KeptLink(h, fresh))
    /\ Done(h)
    /\ UNCHANGED <<assigned, approved, lot, body, partVars, machineVars>>

CommitApprove(h, S, q) ==
    LET t == req[h].t
        seen == Seen(h)
    IN
    /\ Ready(h, "approve")
    /\ \A m \in S : /\ seen.available[m] /\ seen.transferStatus[m] = "NONE"
                    /\ BranchOf[seen.warehouse[m]] = body[t].srcBranch
    /\ \A d \in Model : Cardinality(OfModel(S, d)) <= body[t].models[d]
    /\ \A r \in Lines(q) : /\ q[r] <= body[t].parts[r]
                           /\ q[r] <= seen.quantity[r] - seen.reserved[r]
    /\ S # {} \/ q # NoParts
    /\ lot[t] = "NONE"
    /\ lot' = [lot EXCEPT ![t] = "PENDING"]
    /\ assigned' = [assigned EXCEPT ![t] = S]
    /\ approved' = [approved EXCEPT ![t] = q]
    /\ SaveMachines(h, S, "COMMITTED", FALSE)
    /\ SaveParts(h, Lines(q), seen.quantity, [r \in Row |-> seen.reserved[r] + q[r]])
    /\ SaveTransfer(h, "APPROVED", TRUE)
    /\ Done(h)
    /\ moved' = moved \ S
    /\ UNCHANGED body

(* approve with every line at zero.                                        *)
CommitApproveNothing(h, fresh) ==
    LET t == req[h].t IN
    /\ Ready(h, "approve")
    /\ assigned' = [assigned EXCEPT ![t] = {}]
    /\ approved' = [approved EXCEPT ![t] = NoParts]
    /\ SaveTransfer(h, "REJECTED", KeptLink(h, fresh))
    /\ Done(h)
    /\ UNCHANGED <<lot, body, partVars, machineVars>>

(* reject marks every line REJECTED, whatever approve made of it, in a     *)
(* commit of its own; the transfer follows in another.                     *)
CommitRejectItems(h) ==
    LET t == req[h].t IN
    /\ Ready(h, "reject")
    /\ assigned' = [assigned EXCEPT ![t] = {}]
    /\ approved' = [approved EXCEPT ![t] = NoParts]
    /\ req' = [req EXCEPT ![h].stage = "items"]
    /\ UNCHANGED <<status, linked, lot, body, partVars, machineVars>>

CommitReject(h, fresh) ==
    /\ req[h].stage = "items"
    /\ SaveTransfer(h, "REJECTED", KeptLink(h, fresh))
    /\ Done(h)
    /\ UNCHANGED <<assigned, approved, lot, body, partVars, machineVars>>

CommitDispatchIntra(h, fresh) ==
    LET t == req[h].t
        b == body[t]
        seen == Seen(h)
    IN
    /\ Ready(h, "dispatch") /\ b.type = "INTRA"
    /\ \A m \in b.machines : seen.warehouse[m] = b.src /\ seen.transferStatus[m] = "NONE"
    /\ \A r \in Lines(b.parts) : b.parts[r] <= seen.quantity[r] - seen.reserved[r]
    /\ lot[t] = "NONE"
    /\ lot' = [lot EXCEPT ![t] = "PENDING"]
    /\ approved' = [approved EXCEPT ![t] = b.parts]
    /\ SaveMachines(h, b.machines, "IN_TRANSIT", fresh)
    /\ SaveParts(h, Lines(b.parts), [r \in Row |-> seen.quantity[r] - b.parts[r]],
                 IF fresh THEN reserved ELSE seen.reserved)
    /\ SaveTransfer(h, "IN_TRANSIT", TRUE)
    /\ Done(h)
    /\ moved' = moved \ b.machines
    /\ UNCHANGED <<assigned, body>>

(* Mutant: the reservation is not released at dispatch.                    *)
CommitDispatchInterKeepingReservation(h, fresh) ==
    LET q == req[h].approved
        seen == Seen(h)
    IN
    /\ Ready(h, "dispatch") /\ body[req[h].t].type = "INTER"
    /\ SaveMachines(h, req[h].assigned, "IN_TRANSIT", fresh)
    /\ SaveParts(h, Lines(q), [r \in Row |-> seen.quantity[r] - q[r]], seen.reserved)
    /\ SaveItems(h, fresh)
    /\ SaveTransfer(h, "IN_TRANSIT", KeptLink(h, fresh))
    /\ Done(h)
    /\ UNCHANGED <<lot, body, moved>>

CommitDispatchInter(h, fresh) ==
    LET q == req[h].approved
        seen == Seen(h)
    IN
    /\ Ready(h, "dispatch") /\ body[req[h].t].type = "INTER"
    /\ SaveMachines(h, req[h].assigned, "IN_TRANSIT", fresh)
    /\ SaveParts(h, Lines(q), [r \in Row |-> seen.quantity[r] - q[r]],
                 [r \in Row |-> Monus(seen.reserved[r], q[r])])
    /\ SaveItems(h, fresh)
    /\ SaveTransfer(h, "IN_TRANSIT", KeptLink(h, fresh))
    /\ Done(h)
    /\ UNCHANGED <<lot, body, moved>>

CommitCancel(h, fresh) ==
    /\ Ready(h, "cancel")
    /\ IF req[h].status = "APPROVED"
       THEN LET q == req[h].approved
                seen == Seen(h)
            IN /\ SaveMachines(h, req[h].assigned, "NONE", fresh)
               /\ SaveParts(h, Lines(q), IF fresh THEN quantity ELSE seen.quantity,
                            [r \in Row |-> Monus(seen.reserved[r], q[r])])
               /\ lot' = [lot EXCEPT ![req[h].t] = IF req[h].linked THEN "CANCELLED" ELSE @]
               /\ UNCHANGED moved
       ELSE UNCHANGED <<partVars, machineVars, lot>>
    /\ SaveTransfer(h, "CANCELLED", KeptLink(h, fresh))
    /\ Done(h)
    /\ UNCHANGED <<assigned, approved, body>>

(* updateReceivingQuantities saves the lot it read.                        *)
CommitCount(h) ==
    /\ Ready(h, "count")
    /\ lot' = [lot EXCEPT ![req[h].t] = "RECEIVING"]
    /\ Done(h)
    /\ UNCHANGED <<status, linked, assigned, approved, body, partVars, machineVars>>

(* confirmLotReceived: the lot is saved as RECEIVED; completeFromLot looks *)
(* for the transfer by lot_id, gives up silently when there is none or it  *)
(* is COMPLETED, and throws unless it is in transit.                       *)
Arrivals(h, r) ==
    IF r[2] = body[req[h].t].dst THEN UnitsOf(r[1], req[h].approved) ELSE 0

(* Mutant: a receipt before the dispatch returns instead of throwing.      *)
CommitConfirmAnyway(h, fresh) ==
    LET t == req[h].t
        S == IF body[t].type = "INTRA" THEN body[t].machines ELSE req[h].assigned
        landing == {r \in Row : Arrivals(h, r) > 0}
        seen == Seen(h)
    IN
    /\ Ready(h, "confirm")
    /\ lot' = [lot EXCEPT ![t] = "RECEIVED"]
    /\ IF req[h].linked /\ req[h].status = "IN_TRANSIT"
       THEN /\ transferStatus' = [m \in Machine |-> IF m \in S THEN "NONE" ELSE transferStatus[m]]
            /\ warehouse' = [m \in Machine |-> IF m \in S THEN body[t].dst ELSE warehouse[m]]
            /\ available' = [m \in Machine |->
                               IF m \in S /\ ~ fresh THEN seen.available[m] ELSE available[m]]
            /\ SaveParts(h, landing,
                         [r \in Row |-> seen.quantity[r] + Arrivals(h, r)],
                         IF fresh THEN reserved ELSE seen.reserved)
            /\ SaveItems(h, fresh)
            /\ SaveTransfer(h, "COMPLETED", KeptLink(h, fresh))
            /\ UNCHANGED moved
       ELSE UNCHANGED <<status, linked, assigned, approved, partVars, machineVars>>
    /\ Done(h)
    /\ UNCHANGED body

CommitConfirm(h, fresh) ==
    LET t == req[h].t
        S == IF body[t].type = "INTRA" THEN body[t].machines ELSE req[h].assigned
        landing == {r \in Row : Arrivals(h, r) > 0}
        seen == Seen(h)
    IN
    /\ Ready(h, "confirm")
    /\ req[h].linked => req[h].status \in {"IN_TRANSIT", "COMPLETED"}
    /\ lot' = [lot EXCEPT ![t] = "RECEIVED"]
    /\ IF req[h].linked /\ req[h].status = "IN_TRANSIT"
       THEN /\ transferStatus' = [m \in Machine |-> IF m \in S THEN "NONE" ELSE transferStatus[m]]
            /\ warehouse' = [m \in Machine |-> IF m \in S THEN body[t].dst ELSE warehouse[m]]
            /\ available' = [m \in Machine |->
                               IF m \in S /\ ~ fresh THEN seen.available[m] ELSE available[m]]
            /\ SaveParts(h, landing,
                         [r \in Row |-> seen.quantity[r] + Arrivals(h, r)],
                         IF fresh THEN reserved ELSE seen.reserved)
            /\ SaveItems(h, fresh)
            /\ SaveTransfer(h, "COMPLETED", KeptLink(h, fresh))
            /\ UNCHANGED moved
       ELSE UNCHANGED <<status, linked, assigned, approved, partVars, machineVars>>
    /\ Done(h)
    /\ UNCHANGED body

----------------------------------------------------------------------------
(* The other writers of the rows, each in a handler of its own.            *)

(* productStatusUpdateWorker: findOne, then addProduct of the whole row.   *)
ReadMachine(h, m) ==
    /\ "status" \in Op
    /\ req[h] = Idle
    /\ req' = [req EXCEPT ![h] = [stage |-> "writing", op |-> "status", m |-> m, rows |-> Rows]]
    /\ UNCHANGED <<vars, linked>>

SaveStatus(h, a, fresh) ==
    LET m == req[h].m
        seen == req[h].rows
    IN
    /\ req[h].stage = "writing" /\ req[h].op = "status"
    /\ available' = [available EXCEPT ![m] = a]
    /\ warehouse' = [warehouse EXCEPT ![m] = IF fresh THEN @ ELSE seen.warehouse[m]]
    /\ transferStatus' = [transferStatus EXCEPT ![m] = IF fresh THEN @ ELSE seen.transferStatus[m]]
    /\ Done(h)
    /\ UNCHANGED <<transferVars, linked, body, partVars, moved>>

EditRow(h, m, w, a) ==
    /\ "edit" \in Op
    /\ req[h] = Idle
    /\ EditProduct(m, w, a)
    /\ UNCHANGED <<linked, req>>

(* A sale, return or ticket: findOne, then save of the whole row.          *)
ReadPart(h, r) ==
    /\ "stock" \in Op
    /\ req[h] = Idle
    /\ req' = [req EXCEPT ![h] = [stage |-> "writing", op |-> "stock", r |-> r, rows |-> Rows]]
    /\ UNCHANGED <<vars, linked>>

SavePart(h, c, fresh) ==
    LET r == req[h].r
        seen == req[h].rows
    IN
    /\ req[h].stage = "writing" /\ req[h].op = "stock"
    /\ c.held > 0 => c.held <= seen.quantity[r]
    /\ ticketed[r] + c.held \in 0..MaxOther
    /\ others[r] + c.shelf \in (-MaxOther)..MaxOther
    /\ quantity' = [quantity EXCEPT ![r] =
                      IF c.shelf = 0 /\ fresh THEN @ ELSE seen.quantity[r] + c.shelf]
    /\ reserved' = [reserved EXCEPT ![r] =
                      IF c.held = 0 /\ fresh THEN @ ELSE PutHeld(seen.reserved[r], c.held)]
    /\ ticketed' = [ticketed EXCEPT ![r] = @ + c.held]
    /\ others' = [others EXCEPT ![r] = @ + c.shelf]
    /\ Done(h)
    /\ UNCHANGED <<transferVars, linked, body, machineVars>>

RaceNext ==
    \/ \E t \in Transfer : CreateDraft(t) /\ UNCHANGED <<linked, req>>
    \/ \E h \in Handler :
         \/ \E op \in Op, t \in Transfer : Load(h, op, t)
         \/ ReadRows(h)
         \/ Fail(h)
         \/ \E S \in SUBSET Machine, q \in [Row -> 0..MaxQty] : CommitApprove(h, S, q)
         \/ CommitRejectItems(h)
         \/ CommitCount(h)
         \/ \E m \in Machine : ReadMachine(h, m)
         \/ \E e \in Edit, a \in BOOLEAN : EditRow(h, e[1], e[2], a)
         \/ \E r \in SharedRow : ReadPart(h, r)
         \/ \E fresh \in BOOLEAN :
              \/ CommitSubmit(h, fresh)
              \/ CommitApproveNothing(h, fresh)
              \/ CommitReject(h, fresh)
              \/ CommitDispatchIntra(h, fresh)
              \/ CommitDispatchInter(h, fresh)
              \/ CommitCancel(h, fresh)
              \/ CommitConfirm(h, fresh)
              \/ \E a \in BOOLEAN : SaveStatus(h, a, fresh)
              \/ \E c \in Change : SavePart(h, c, fresh)

RaceSpec == RaceInit /\ [][RaceNext]_raceVars

----------------------------------------------------------------------------
(* Properties.                                                             *)

(* With one handler at a time the steps above are the atomic operations of *)
(* StockTransfer: reading first and writing later loses nothing.  The rows *)
(* are the same variables there, so they map to themselves; what handlers  *)
(* keep to themselves (req) and the lot_id column (linked) are not seen.   *)
ImplementsStockTransfer == Spec

(* However handlers overlap, an approved transfer has the one lot its      *)
(* approval made, linked and receivable ("giver approved; lot created at   *)
(* requesting branch"): the UNIQUE lot number lets at most one of several  *)
(* stale approvals through.                                                *)
ApprovedHasLot ==
    \A t \in Transfer : status[t] = "APPROVED" => linked[t] /\ lot[t] \in {"PENDING", "RECEIVING"}

(* The row locks of approve hold between approvals: no two approvals take  *)
(* the same machine, and together they never take more units of a row than *)
(* it has, whichever transfers they are for - as long as no client         *)
(* dispatches or cancels and no worker saves these rows, from a read that  *)
(* takes no lock.                                                          *)
ApprovalsExclusive ==
    /\ \A t, u \in Transfer :
         t # u /\ status[t] = "APPROVED" /\ status[u] = "APPROVED"
         => assigned[t] \cap assigned[u] = {}
    /\ \A r \in Row : HeldUnits(r) <= quantity[r]

(* "dispatched; receiving happens via the linked lot": goods in transit    *)
(* have a linked lot that can still be received.                           *)
InTransitCanBeReceived ==
    \A t \in Transfer : status[t] = "IN_TRANSIT" => linked[t] /\ lot[t] \in {"PENDING", "RECEIVING"}
============================================================================
