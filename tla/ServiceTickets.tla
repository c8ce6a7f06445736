--------------------------- MODULE ServiceTickets ---------------------------
(***************************************************************************)
(* Service tickets and the spare parts they hold.  ServiceController keeps *)
(* the ticket's status, its estimates and its reservation rows; it shares  *)
(* the counters of a spare_parts row with stock transfers and with sales.  *)
(*                                                                         *)
(* An action is a request handler that runs alone.  A handler saves as it  *)
(* goes, without a transaction: when a part of the list is short it throws *)
(* and leaves behind everything saved before (ReserveParts).               *)
(*                                                                         *)
(* Left out: who may call, prices, coverage and discounts, meter readings, *)
(* history and yield records, notifications, lead conversion, and the      *)
(* copies billing keeps of a quotation.                                    *)
(***************************************************************************)
EXTENDS Integers, Sequences, FiniteSets, Functions

CONSTANTS
    Ticket,         \* service_tickets
    Part,           \* spare_parts rows
    Item,           \* lines of an estimate, revision or diagnosis
    ItemPart,       \* [Item -> Part]: sparePartId
    ItemQty,        \* [Item -> 1..MaxQty]: quantity
    MaxQty,         \* bound: quantity of a line
    Stock,          \* [Part -> Nat]: quantity at the start
    MaxEstimates    \* bound: estimates of one ticket

ASSUME ConstantsAssumption ==
    /\ IsFiniteSet(Ticket)
    /\ IsFiniteSet(Item)
    /\ ItemPart \in [Item -> Part]
    /\ MaxQty \in Nat
    /\ ItemQty \in [Item -> 1..MaxQty]
    /\ Stock \in [Part -> Nat]
    /\ MaxEstimates \in Nat

VARIABLES
    status,         \* [Ticket -> TicketStatus], "NONE" before its creation
    trackA,         \* tickets of free contexts (track 'A')
    diagnosed,      \* tickets with diagnosisCompletedAt
    started,        \* tickets with repairStartedAt
    paused,         \* tickets with repairPausedAt
    quoted,         \* tickets with serviceQuotationId
    estimates,      \* [Ticket -> Seq(Estimate)], oldest first
    revision,       \* [Ticket -> Revision]: the one revision of an estimate
    held,           \* [Ticket -> [Part -> Nat]]: units in its RESERVED rows
    quantity, reserved, consumed, damaged,  \* counters of a spare_parts row
    promised,       \* [Part -> Nat]: units that approved transfers reserved
    gone,           \* [Part -> Nat]: units sold or dispatched
    closedByLink    \* history: closed tickets whose status came from the
                    \* request of PatchQuotationLink

flowVars  == <<trackA, diagnosed, started, paused, quoted>>
paperVars == <<estimates, revision>>
stockVars == <<held, quantity, reserved, consumed, damaged, promised, gone>>
statusVars == <<status, closedByLink>>
vars == <<statusVars, flowVars, paperVars, stockVars>>

Closed == {"COMPLETED", "CANCELLED"}

TicketStatus == Closed \cup
    {"NONE", "OPEN", "ASSIGNED", "QUOTED", "WAITING_FINANCE_APPROVAL",
     "FINANCE_APPROVED", "FINANCE_REJECTED", "CUSTOMER_APPROVED",
     "CUSTOMER_REJECTED", "IN_PROGRESS", "FREE_SERVICE",
     "WAITING_FINANCE_APPROVAL_2", "FINANCE_APPROVED_2"}

EstimateStatus == {"DRAFT", "WAITING_FINANCE_APPROVAL", "FINANCE_APPROVED",
                   "CUSTOMER_APPROVED", "REJECTED"}

Estimate == [status : EstimateStatus, items : SUBSET Item]

(* Nothing reads the status of a revision, so it has none here.            *)
NoRevision == [of |-> 0, items |-> {}]
Revision == [of : Nat, items : SUBSET Item]

NoUnits == [p \in Part |-> 0]

TypeOK ==
    /\ status \in [Ticket -> TicketStatus]
    /\ trackA \subseteq Ticket /\ diagnosed \subseteq Ticket /\ started \subseteq Ticket
    /\ paused \subseteq Ticket /\ quoted \subseteq Ticket
    /\ estimates \in [Ticket -> Seq(Estimate)]
    /\ revision \in [Ticket -> Revision]
    /\ held \in [Ticket -> [Part -> Nat]]
    /\ quantity \in [Part -> Int]
    /\ reserved \in [Part -> Nat] /\ consumed \in [Part -> Nat]
    /\ damaged \in [Part -> Nat] /\ promised \in [Part -> Nat]
    /\ gone \in [Part -> Nat]
    /\ closedByLink \subseteq Ticket

Init ==
    /\ status = [t \in Ticket |-> "NONE"]
    /\ trackA = {} /\ diagnosed = {} /\ started = {} /\ paused = {} /\ quoted = {}
    /\ estimates = [t \in Ticket |-> <<>>]
    /\ revision = [t \in Ticket |-> NoRevision]
    /\ held = [t \in Ticket |-> NoUnits]
    /\ quantity = Stock
    /\ reserved = NoUnits /\ consumed = NoUnits /\ damaged = NoUnits
    /\ promised = NoUnits /\ gone = NoUnits
    /\ closedByLink = {}

Exists(t) == status[t] # "NONE"

SetStatus(t, s) ==
    /\ status' = [status EXCEPT ![t] = s]
    /\ closedByLink' = closedByLink \ {t}

Monus(a, b) == IF a >= b THEN a - b ELSE 0

----------------------------------------------------------------------------
(* Reservations.                                                           *)

(* Units of part p on the lines S.                                         *)
Units(S, p) ==
    Cardinality({u \in S \X (1..MaxQty) : ItemPart[u[1]] = p /\ u[2] <= ItemQty[u[1]]})

Fits(i, done) == ItemQty[i] <= quantity[ItemPart[i]] - Units(done, ItemPart[i])

(* A loop over the lines S, in the order the database returned them, ends  *)
(* with the lines done reserved: all of them, or those before one that     *)
(* does not fit.                                                           *)
LoopEnds(S, done) ==
    /\ \A p \in Part : Units(done, p) > 0 => Units(done, p) <= quantity[p]
    /\ done = S \/ \E i \in S \ done : ~ Fits(i, done)

(* reserveSparePart for each line of done: the units leave quantity.       *)
ReserveParts(t, done) ==
    /\ quantity' = [p \in Part |-> quantity[p] - Units(done, p)]
    /\ reserved' = [p \in Part |-> reserved[p] + Units(done, p)]
    /\ held' = [held EXCEPT ![t] = [p \in Part |-> held[t][p] + Units(done, p)]]
    /\ UNCHANGED <<consumed, damaged, promised, gone>>

(* Mutant: releaseReservations does not put the units back on the shelf.   *)
ForgetReservations(t) ==
    /\ reserved' = [p \in Part |-> Monus(reserved[p], held[t][p])]
    /\ held' = [held EXCEPT ![t] = NoUnits]
    /\ UNCHANGED <<quantity, consumed, damaged, promised, gone>>

ReleaseReservations(t) ==
    /\ quantity' = [p \in Part |-> quantity[p] + held[t][p]]
    /\ reserved' = [p \in Part |-> Monus(reserved[p], held[t][p])]
    /\ held' = [held EXCEPT ![t] = NoUnits]
    /\ UNCHANGED <<consumed, damaged, promised, gone>>

(* Mutant: consumeReservations leaves reserved_quantity alone.             *)
ConsumeWithoutRelease(t) ==
    /\ consumed' = [p \in Part |-> consumed[p] + held[t][p]]
    /\ held' = [held EXCEPT ![t] = NoUnits]
    /\ UNCHANGED <<quantity, reserved, damaged, promised, gone>>

ConsumeReservations(t) ==
    /\ reserved' = [p \in Part |-> Monus(reserved[p], held[t][p])]
    /\ consumed' = [p \in Part |-> consumed[p] + held[t][p]]
    /\ held' = [held EXCEPT ![t] = NoUnits]
    /\ UNCHANGED <<quantity, damaged, promised, gone>>

----------------------------------------------------------------------------
(* Opening and diagnosing a ticket.                                        *)

(* The machine's contract or warranty decides the track.                   *)
CreateTicket(t) ==
    /\ ~ Exists(t)
    /\ trackA' \in {trackA, trackA \cup {t}}
    /\ SetStatus(t, IF t \in trackA' THEN "FREE_SERVICE" ELSE "OPEN")
    /\ UNCHANGED <<diagnosed, started, paused, quoted, paperVars, stockVars>>

(* A ticket already in the estimate flow keeps its status.                 *)
AssignTechnician(t) ==
    /\ Exists(t) /\ status[t] \notin Closed
    /\ SetStatus(t, IF \/ status[t] \in {"OPEN", "ASSIGNED"}
                       \/ status[t] = "FREE_SERVICE" /\ t \notin diagnosed
                    THEN "ASSIGNED" ELSE status[t])
    /\ UNCHANGED <<flowVars, paperVars, stockVars>>

Diagnosable(t) == status[t] \in {"OPEN", "ASSIGNED", "FREE_SERVICE"}

(* A free ticket reserves its lines at once.                               *)
DiagnoseFree(t, S, done) ==
    /\ t \in trackA /\ Diagnosable(t)
    /\ LoopEnds(S, done)
    /\ ReserveParts(t, done)
    /\ diagnosed' = diagnosed \cup {t}
    /\ SetStatus(t, "FREE_SERVICE")
    /\ UNCHANGED <<trackA, started, paused, quoted, paperVars>>

(* Lines already used by the ticket are other rows.                        *)
NewItems(t) ==
    SUBSET (Item \ (revision[t].items
                    \cup UNION {estimates[t][k].items : k \in DOMAIN estimates[t]}))

AddEstimate(t, s, S) ==
    /\ Len(estimates[t]) < MaxEstimates
    /\ S \in NewItems(t)
    /\ estimates' = [estimates EXCEPT ![t] = Append(@, [status |-> s, items |-> S])]
    /\ UNCHANGED revision

(* Posting the quotation to billing may fail; the handler goes on.         *)
PostQuotation(t) == quoted' \in {quoted, quoted \cup {t}}

(* A chargeable ticket gets an estimate, or none when there is nothing to  *)
(* charge or the discount is refused after the ticket was saved.           *)
DiagnoseChargeable(t, S) ==
    /\ t \notin trackA /\ Diagnosable(t)
    /\ diagnosed' = diagnosed \cup {t}
    /\ SetStatus(t, "WAITING_FINANCE_APPROVAL")
    /\ \/ AddEstimate(t, "WAITING_FINANCE_APPROVAL", S) /\ PostQuotation(t)
       \/ UNCHANGED <<paperVars, quoted>>
    /\ UNCHANGED <<trackA, started, paused, stockVars>>

----------------------------------------------------------------------------
(* Estimates.  None of these handlers looks at a status before it sets it. *)

SetEstimate(t, k, s) ==
    /\ estimates' = [estimates EXCEPT ![t][k].status = s]
    /\ UNCHANGED revision

IsDraft(t, k) == k \in DOMAIN estimates[t] /\ estimates[t][k].status = "DRAFT"

(* The draft, when there is one, gets new lines.                           *)
CreateEstimate(t, S) ==
    /\ Exists(t)
    /\ \/ /\ \A k \in DOMAIN estimates[t] : ~ IsDraft(t, k)
          /\ AddEstimate(t, "DRAFT", S)
       \/ \E k \in DOMAIN estimates[t] :
             /\ IsDraft(t, k)
             /\ S \in NewItems(t)
             /\ estimates' = [estimates EXCEPT ![t][k].items = S]
             /\ UNCHANGED revision
    /\ UNCHANGED <<statusVars, flowVars, stockVars>>

SubmitEstimate(t, k) ==
    /\ IsDraft(t, k)
    /\ SetEstimate(t, k, "WAITING_FINANCE_APPROVAL")
    /\ SetStatus(t, "WAITING_FINANCE_APPROVAL")
    /\ PostQuotation(t)
    /\ UNCHANGED <<trackA, diagnosed, started, paused, stockVars>>

ApproveEstimateFinance(t, k) ==
    /\ SetEstimate(t, k, "FINANCE_APPROVED")
    /\ SetStatus(t, "FINANCE_APPROVED")
    /\ UNCHANGED <<flowVars, stockVars>>

RejectEstimateFinance(t, k) ==
    /\ SetEstimate(t, k, "REJECTED")
    /\ SetStatus(t, "FINANCE_REJECTED")
    /\ UNCHANGED <<flowVars, stockVars>>

ApproveEstimateCustomer(t, k, done) ==
    /\ LoopEnds(estimates[t][k].items, done)
    /\ SetEstimate(t, k, "CUSTOMER_APPROVED")
    /\ SetStatus(t, "CUSTOMER_APPROVED")
    /\ ReserveParts(t, done)
    /\ UNCHANGED flowVars

RejectEstimateCustomer(t, k) ==
    /\ SetEstimate(t, k, "REJECTED")
    /\ SetStatus(t, "CUSTOMER_REJECTED")
    /\ UNCHANGED <<flowVars, stockVars>>

CreateEstimateRevision(t, k, S) ==
    /\ revision[t] = NoRevision
    /\ estimates[t][k].status = "CUSTOMER_APPROVED"
    /\ S \in NewItems(t)
    /\ revision' = [revision EXCEPT ![t] = [of |-> k, items |-> S]]
    /\ SetStatus(t, "WAITING_FINANCE_APPROVAL_2")
    /\ UNCHANGED <<estimates, flowVars, stockVars>>

ApproveRevisionFinance(t) ==
    /\ revision[t] # NoRevision
    /\ SetStatus(t, "FINANCE_APPROVED_2")
    /\ UNCHANGED <<flowVars, paperVars, stockVars>>

(* Each line joins the estimate before it is reserved, so the line that    *)
(* does not fit has joined as well.                                        *)
ApproveRevisionCustomer(t, done) ==
    LET r == revision[t]
        short == {i \in r.items \ done : ~ Fits(i, done)}
    IN
    /\ r # NoRevision
    /\ LoopEnds(r.items, done)
    /\ \E last \in IF done = r.items THEN {{}} ELSE {{i} : i \in short} :
          estimates' = [estimates EXCEPT ![t][r.of].items = @ \cup done \cup last]
    /\ SetStatus(t, "IN_PROGRESS")
    /\ ReserveParts(t, done)
    /\ UNCHANGED <<revision, flowVars>>

----------------------------------------------------------------------------
(* The quotation in billing, and its callbacks.                            *)

SubmitQuotation(t) ==
    /\ Exists(t)
    /\ \E s \in {"CUSTOMER_APPROVED", "WAITING_FINANCE_APPROVAL"} : SetStatus(t, s)
    /\ quoted' = quoted \cup {t}
    /\ UNCHANGED <<trackA, diagnosed, started, paused, paperVars, stockVars>>

(* The link and the status come from the request, and nothing is checked:  *)
(* billing sends FINANCE_APPROVED and FINANCE_REJECTED, a caller of the    *)
(* route any status, and none at all means QUOTED.                         *)
PatchQuotationLink(t) ==
    /\ Exists(t)
    /\ \E s \in TicketStatus \ {"NONE"} :
          /\ status' = [status EXCEPT ![t] = s]
          /\ closedByLink' = IF s \in Closed THEN closedByLink \cup {t} ELSE closedByLink \ {t}
    /\ quoted' \in {quoted, quoted \cup {t}, quoted \ {t}}
    /\ UNCHANGED <<trackA, diagnosed, started, paused, paperVars, stockVars>>

ExtendValidity(t) ==
    /\ t \in quoted
    /\ SetStatus(t, "QUOTED")
    /\ UNCHANGED <<flowVars, paperVars, stockVars>>

(* The lines of the ticket change, those of its estimates do not.          *)
ReviseEstimate(t) ==
    /\ t \in quoted
    /\ SetStatus(t, "WAITING_FINANCE_APPROVAL")
    /\ UNCHANGED <<flowVars, paperVars, stockVars>>

FinanceApproved(t) ==
    LET waiting == {k \in DOMAIN estimates[t] :
                      estimates[t][k].status = "WAITING_FINANCE_APPROVAL"}
    IN
    /\ Exists(t)
    /\ SetStatus(t, "QUOTED")
    /\ IF waiting = {} THEN UNCHANGED paperVars
       ELSE \E k \in waiting : SetEstimate(t, k, "FINANCE_APPROVED")
    /\ UNCHANGED <<flowVars, stockVars>>

FinanceRejected(t) ==
    /\ Exists(t)
    /\ SetStatus(t, "FINANCE_REJECTED")
    /\ UNCHANGED <<flowVars, paperVars, stockVars>>

(* The ticket-level approval: the latest estimate follows, no part does.   *)
CustomerApprove(t) ==
    /\ Exists(t)
    /\ SetStatus(t, "CUSTOMER_APPROVED")
    /\ IF estimates[t] = <<>> THEN UNCHANGED paperVars
       ELSE SetEstimate(t, Len(estimates[t]), "CUSTOMER_APPROVED")
    /\ UNCHANGED <<flowVars, stockVars>>

CustomerReject(t) ==
    /\ Exists(t)
    /\ SetStatus(t, "CUSTOMER_REJECTED")
    /\ UNCHANGED <<flowVars, paperVars, stockVars>>

----------------------------------------------------------------------------
(* Repair, completion and cancellation.                                    *)

StartRepair(t) ==
    /\ Exists(t)
    /\ SetStatus(t, "IN_PROGRESS")
    /\ started' = started \cup {t}
    /\ UNCHANGED <<trackA, diagnosed, paused, quoted, paperVars, stockVars>>

(* Mutant: pauseRepair without its check of the status.                    *)
PauseAnyRepair(t) ==
    /\ t \in started /\ t \notin paused
    /\ paused' = paused \cup {t}
    /\ UNCHANGED <<trackA, statusVars, diagnosed, started, quoted, paperVars, stockVars>>

PauseRepair(t) ==
    /\ status[t] = "IN_PROGRESS" /\ t \in started /\ t \notin paused
    /\ paused' = paused \cup {t}
    /\ UNCHANGED <<trackA, statusVars, diagnosed, started, quoted, paperVars, stockVars>>

ResumeRepair(t) ==
    /\ t \in paused
    /\ paused' = paused \ {t}
    /\ UNCHANGED <<trackA, statusVars, diagnosed, started, quoted, paperVars, stockVars>>

CompleteService(t) ==
    /\ status[t] \in {"IN_PROGRESS", "FREE_SERVICE", "CUSTOMER_APPROVED"}
    /\ t \notin paused
    /\ SetStatus(t, "COMPLETED")
    /\ ConsumeReservations(t)
    /\ UNCHANGED <<flowVars, paperVars>>

(* Mutant: a cancellation that keeps the parts.                            *)
CancelKeepingParts(t) ==
    /\ Exists(t)
    /\ SetStatus(t, "CANCELLED")
    /\ UNCHANGED <<flowVars, paperVars, stockVars>>

CancelTicket(t) ==
    /\ Exists(t)
    /\ SetStatus(t, "CANCELLED")
    /\ ReleaseReservations(t)
    /\ UNCHANGED <<flowVars, paperVars>>

----------------------------------------------------------------------------
(* The other writers of a spare_parts row.                                 *)

MarkDamaged(p, q) ==
    /\ q <= quantity[p]
    /\ quantity' = [quantity EXCEPT ![p] = @ - q]
    /\ damaged' = [damaged EXCEPT ![p] = @ + q]
    /\ UNCHANGED <<statusVars, flowVars, paperVars, held, reserved, consumed, promised, gone>>

(* A transfer's approval leaves the units in quantity.                     *)
TransferApproved(p, q) ==
    /\ q <= quantity[p] - reserved[p]
    /\ reserved' = [reserved EXCEPT ![p] = @ + q]
    /\ promised' = [promised EXCEPT ![p] = @ + q]
    /\ UNCHANGED <<statusVars, flowVars, paperVars, held, quantity, consumed, damaged, gone>>

TransferCancelled(p, q) ==
    /\ q <= promised[p]
    /\ reserved' = [reserved EXCEPT ![p] = Monus(@, q)]
    /\ promised' = [promised EXCEPT ![p] = @ - q]
    /\ UNCHANGED <<statusVars, flowVars, paperVars, held, quantity, consumed, damaged, gone>>

(* Mutant: a dispatch of units that no transfer has reserved.              *)
DispatchUnapproved(p, q) ==
    /\ q <= quantity[p]
    /\ quantity' = [quantity EXCEPT ![p] = @ - q]
    /\ reserved' = [reserved EXCEPT ![p] = Monus(@, q)]
    /\ promised' = [promised EXCEPT ![p] = @ - q]
    /\ gone' = [gone EXCEPT ![p] = @ + q]
    /\ UNCHANGED <<statusVars, flowVars, paperVars, held, consumed, damaged>>

TransferDispatched(p, q) ==
    /\ q <= promised[p]
    /\ quantity' = [quantity EXCEPT ![p] = @ - q]
    /\ reserved' = [reserved EXCEPT ![p] = Monus(@, q)]
    /\ promised' = [promised EXCEPT ![p] = @ - q]
    /\ gone' = [gone EXCEPT ![p] = @ + q]
    /\ UNCHANGED <<statusVars, flowVars, paperVars, held, consumed, damaged>>

(* A direct sale: billing has checked quantity, the event reduces it.      *)
Sold(p, q) ==
    /\ q <= quantity[p]
    /\ quantity' = [quantity EXCEPT ![p] = @ - q]
    /\ gone' = [gone EXCEPT ![p] = @ + q]
    /\ UNCHANGED <<statusVars, flowVars, paperVars, held, reserved, consumed, damaged, promised>>

----------------------------------------------------------------------------

EstimateStep(t, k) ==
    \/ SubmitEstimate(t, k)
    \/ ApproveEstimateFinance(t, k)
    \/ RejectEstimateFinance(t, k)
    \/ \E done \in SUBSET estimates[t][k].items : ApproveEstimateCustomer(t, k, done)
    \/ RejectEstimateCustomer(t, k)
    \/ \E S \in SUBSET Item : CreateEstimateRevision(t, k, S)

TicketStep(t) ==
    \/ CreateTicket(t)
    \/ AssignTechnician(t)
    \/ \E S \in SUBSET Item : \E done \in SUBSET S : DiagnoseFree(t, S, done)
    \/ \E S \in SUBSET Item : DiagnoseChargeable(t, S)
    \/ \E S \in SUBSET Item : CreateEstimate(t, S)
    \/ \E k \in DOMAIN estimates[t] : EstimateStep(t, k)
    \/ ApproveRevisionFinance(t)
    \/ \E done \in SUBSET revision[t].items : ApproveRevisionCustomer(t, done)
    \/ SubmitQuotation(t)
    \/ PatchQuotationLink(t)
    \/ ExtendValidity(t)
    \/ ReviseEstimate(t)
    \/ FinanceApproved(t)
    \/ FinanceRejected(t)
    \/ CustomerApprove(t)
    \/ CustomerReject(t)
    \/ StartRepair(t)
    \/ PauseRepair(t)
    \/ ResumeRepair(t)
    \/ CompleteService(t)
    \/ CancelTicket(t)

StockStep(p) ==
    \E q \in 1..Stock[p] :
        \/ MarkDamaged(p, q)
        \/ TransferApproved(p, q)
        \/ TransferCancelled(p, q)
        \/ TransferDispatched(p, q)
        \/ Sold(p, q)

Next ==
    \/ \E t \in Ticket : TicketStep(t)
    \/ \E p \in Part : StockStep(p)

Spec == Init /\ [][Next]_vars

----------------------------------------------------------------------------
HeldByTickets(p) == SumFunction([t \in Ticket |-> held[t][p]])

(* reserved_quantity is what the RESERVED rows of all tickets and the      *)
(* approved transfers hold together: three controllers add to it and take  *)
(* from it, two of them with Math.max(0, ...), after any partial failure.  *)
ReservedIsHeld ==
    \A p \in Part : reserved[p] = HeldByTickets(p) + promised[p]

(* No unit is lost or created: what the shelf does not have was reserved   *)
(* by a ticket, used, damaged, sold or dispatched.                         *)
UnitsAccounted ==
    \A p \in Part :
        quantity[p] + HeldByTickets(p) + consumed[p] + damaged[p] + gone[p] = Stock[p]

(* A completed or cancelled ticket holds no part: "Ticket cancelled.       *)
(* Reserved parts returned to stock" stays true whatever estimate or       *)
(* revision of it is approved later, in any order.  Only a ticket whose    *)
(* closing came from the request of the quotation link may hold parts, and *)
(* only until another handler sets its status.                             *)
ClosedHoldsNothing ==
    \A t \in Ticket \ closedByLink : status[t] \in Closed => held[t] = NoUnits

(* A paused repair is not completed ("Resume the repair before completing  *)
(* the job"), although resuming, pausing and starting again may come from  *)
(* any screen and startRepair does not look at the pause; but for the      *)
(* tickets that the quotation link closed.                                 *)
PausedIsUnfinished ==
    \A t \in paused \ closedByLink : status[t] # "COMPLETED"

(* Transfers and tickets reserve by the same mechanism, says the comment   *)
(* at approve: then a ticket does not take the units that an approved      *)
(* transfer is to dispatch.                                                *)
TicketsRespectTransfers ==
    [][\A p \in Part :
         (held' # held /\ promised[p] <= quantity[p]) => promised[p] <= quantity'[p]]_vars
=============================================================================
