------------------------ MODULE ServiceTicketsProofs ------------------------
(* Proofs about ServiceTickets, for every set of tickets, parts and lines  *)
(* of any quantity, and any number of estimates.                           *)
EXTENDS ServiceTickets, SumTheorems, SequenceTheorems

(* The inductive invariant: the two properties need no more of each other  *)
(* than the types.                                                         *)
IInv == /\ TypeOK
        /\ ClosedHoldsNothing
        /\ PausedIsUnfinished

----------------------------------------------------------------------------
(* The units of finitely many lines are a natural number.                  *)
LEMMA UnitsType ==
    ASSUME NEW S \in SUBSET Item, NEW p
    PROVE  Units(S, p) \in Nat
<1>. DEFINE U == {u \in S \X (1..MaxQty) : ItemPart[u[1]] = p /\ u[2] <= ItemQty[u[1]]}
<1>1. IsFiniteSet(S)
  BY ConstantsAssumption, FS_Subset DEF ConstantsAssumption
<1>2. IsFiniteSet(1..MaxQty)
  BY ConstantsAssumption, FS_Interval DEF ConstantsAssumption
<1>3. IsFiniteSet(S \X (1..MaxQty))
  BY <1>1, <1>2, FS_Product
<1>4. IsFiniteSet(U)
  BY <1>3, FS_Subset
<1>5. Cardinality(U) \in Nat
  BY <1>4, FS_CardinalityType
<1>. QED
  BY <1>5 DEF Units

(* What Math.max(0, ...) leaves is a natural number.                       *)
LEMMA MonusType ==
    ASSUME NEW a \in Nat, NEW b \in Nat
    PROVE  Monus(a, b) \in Nat
BY DEF Monus

(* Replacing an estimate of a ticket keeps the types; where there is no    *)
(* k-th estimate nothing is replaced.                                      *)
LEMMA EstimateReplaced ==
    ASSUME TypeOK, NEW t \in Ticket, NEW k, NEW e,
           k \in DOMAIN estimates[t] => e \in Estimate,
           estimates' = [estimates EXCEPT ![t] = [estimates[t] EXCEPT ![k] = e]]
    PROVE  estimates' \in [Ticket -> Seq(Estimate)]
<1>. DEFINE old == estimates[t]
            new == [old EXCEPT ![k] = e]
<1>1. old \in Seq(Estimate)
  BY DEF TypeOK
<1>2. new \in Seq(Estimate)
  <2>1. CASE k \in DOMAIN old
    <3>1. k \in 1..Len(old)
      BY <1>1, <2>1, LenProperties
    <3>. QED
      BY <1>1, <2>1, <3>1, ExceptSeq
  <2>2. CASE k \notin DOMAIN old
    <3>1. old \in [1..Len(old) -> Estimate]
      BY <1>1, LenProperties
    <3>2. new = old
      BY <2>2, <3>1
    <3>. QED
      BY <1>1, <3>2
  <2>. QED
    BY <2>1, <2>2
<1>3. estimates' = [estimates EXCEPT ![t] = new]
  OBVIOUS
<1>4. estimates \in [Ticket -> Seq(Estimate)]
  BY DEF TypeOK
<1>. QED
  BY <1>2, <1>3, <1>4

(* Giving an estimate of the ticket a status keeps the types.              *)
LEMMA SetEstimateType ==
    ASSUME TypeOK, NEW t \in Ticket, NEW k \in DOMAIN estimates[t],
           NEW s \in EstimateStatus, SetEstimate(t, k, s)
    PROVE  estimates' \in [Ticket -> Seq(Estimate)] /\ revision' \in [Ticket -> Revision]
<1>. DEFINE e == [estimates[t][k] EXCEPT !.status = s]
<1>1. estimates[t][k] \in Estimate
  <2>1. estimates[t] \in Seq(Estimate)
    BY DEF TypeOK
  <2>2. k \in 1..Len(estimates[t])
    BY <2>1, LenProperties
  <2>. QED
    BY <2>1, <2>2, ElementOfSeq
<1>2. e \in Estimate
  BY <1>1 DEF Estimate
<1>3. estimates' = [estimates EXCEPT ![t] = [estimates[t] EXCEPT ![k] = e]]
  BY DEF SetEstimate
<1>4. estimates' \in [Ticket -> Seq(Estimate)]
  BY <1>2, <1>3, EstimateReplaced
<1>. QED
  BY <1>4 DEF SetEstimate, TypeOK

(* So does adding an estimate.                                             *)
LEMMA AddEstimateType ==
    ASSUME TypeOK, NEW t \in Ticket, NEW s \in EstimateStatus, NEW S \in SUBSET Item,
           AddEstimate(t, s, S)
    PROVE  estimates' \in [Ticket -> Seq(Estimate)] /\ revision' \in [Ticket -> Revision]
<1>. DEFINE e == [status |-> s, items |-> S]
<1>1. e \in Estimate
  BY DEF Estimate
<1>2. estimates[t] \in Seq(Estimate)
  BY DEF TypeOK
<1>3. Append(estimates[t], e) \in Seq(Estimate)
  BY <1>1, <1>2, AppendProperties
<1>4. estimates' = [estimates EXCEPT ![t] = Append(estimates[t], e)]
  BY DEF AddEstimate
<1>. QED
  BY <1>3, <1>4 DEF TypeOK, AddEstimate

----------------------------------------------------------------------------
(* Three kinds of step.                                                    *)

(* Paper: a status other than the closed ones, no part moved.              *)
LEMMA PaperStep ==
    ASSUME IInv, NEW t \in Ticket, NEW s \in TicketStatus \ Closed, SetStatus(t, s),
           UNCHANGED <<stockVars, paused>>,
           trackA' \subseteq Ticket, diagnosed' \subseteq Ticket,
           started' \subseteq Ticket, quoted' \subseteq Ticket,
           estimates' \in [Ticket -> Seq(Estimate)], revision' \in [Ticket -> Revision]
    PROVE  IInv'
<1>1. TypeOK'
  BY DEF IInv, TypeOK, SetStatus, stockVars
<1>2. ClosedHoldsNothing'
  BY DEF IInv, TypeOK, SetStatus, stockVars, ClosedHoldsNothing, NoUnits
<1>3. PausedIsUnfinished'
  BY DEF IInv, TypeOK, SetStatus, PausedIsUnfinished, Closed
<1>. QED
  BY <1>1, <1>2, <1>3 DEF IInv

(* Reservation: the same with the units of some lines taken.               *)
LEMMA ReserveStep ==
    ASSUME IInv, NEW t \in Ticket, NEW s \in TicketStatus \ Closed, SetStatus(t, s),
           NEW done \in SUBSET Item, ReserveParts(t, done), UNCHANGED paused,
           trackA' \subseteq Ticket, diagnosed' \subseteq Ticket,
           started' \subseteq Ticket, quoted' \subseteq Ticket,
           estimates' \in [Ticket -> Seq(Estimate)], revision' \in [Ticket -> Revision]
    PROVE  IInv'
<1>1. \A p \in Part : Units(done, p) \in Nat
  BY UnitsType
<1>2. held' \in [Ticket -> [Part -> Nat]]
  BY <1>1 DEF IInv, TypeOK, ReserveParts
<1>3. quantity' \in [Part -> Int] /\ reserved' \in [Part -> Nat]
  BY <1>1 DEF IInv, TypeOK, ReserveParts
<1>4. TypeOK'
  BY <1>2, <1>3 DEF IInv, TypeOK, SetStatus, ReserveParts
<1>5. ClosedHoldsNothing'
  BY DEF IInv, TypeOK, SetStatus, ReserveParts, ClosedHoldsNothing, NoUnits
<1>6. PausedIsUnfinished'
  BY DEF IInv, TypeOK, SetStatus, PausedIsUnfinished, Closed
<1>. QED
  BY <1>4, <1>5, <1>6 DEF IInv

(* The quotation link: any status, no part moved.                          *)
LEMMA LinkStep ==
    ASSUME IInv, NEW t \in Ticket, PatchQuotationLink(t)
    PROVE  IInv'
<1>1. PICK s \in TicketStatus \ {"NONE"} :
         /\ status' = [status EXCEPT ![t] = s]
         /\ closedByLink' = IF s \in Closed THEN closedByLink \cup {t} ELSE closedByLink \ {t}
  BY DEF PatchQuotationLink
<1>2. quoted' \subseteq Ticket
  BY DEF PatchQuotationLink, IInv, TypeOK
<1>3. UNCHANGED <<trackA, diagnosed, started, paused, paperVars, stockVars>>
  BY DEF PatchQuotationLink
<1>4. TypeOK'
  BY <1>1, <1>2, <1>3 DEF IInv, TypeOK, paperVars, stockVars
<1>5. ClosedHoldsNothing'
  BY <1>1, <1>3 DEF IInv, TypeOK, stockVars, ClosedHoldsNothing, NoUnits
<1>6. PausedIsUnfinished'
  BY <1>1, <1>3 DEF IInv, TypeOK, PausedIsUnfinished, Closed
<1>. QED
  BY <1>4, <1>5, <1>6 DEF IInv

(* Stock: tickets and what they hold stay, the counters keep their types.  *)
LEMMA StockOnlyStep ==
    ASSUME IInv, UNCHANGED <<statusVars, flowVars, paperVars, held>>,
           quantity' \in [Part -> Int], reserved' \in [Part -> Nat],
           consumed' \in [Part -> Nat], damaged' \in [Part -> Nat],
           promised' \in [Part -> Nat], gone' \in [Part -> Nat]
    PROVE  IInv'
BY DEF IInv, TypeOK, ClosedHoldsNothing, PausedIsUnfinished, statusVars, flowVars, paperVars,
       NoUnits

----------------------------------------------------------------------------
LEMMA InitIInv == Init => IInv
<1>. SUFFICES ASSUME Init PROVE IInv
  OBVIOUS
<1>1. \A t \in Ticket : estimates[t] \in Seq(Estimate)
  BY EmptySeq DEF Init
<1>2. NoRevision \in Revision
  BY DEF NoRevision, Revision
<1>3. NoUnits \in [Part -> Nat]
  BY DEF NoUnits
<1>4. Stock \in [Part -> Int]
  BY ConstantsAssumption DEF ConstantsAssumption
<1>5. TypeOK
  BY <1>1, <1>2, <1>3, <1>4 DEF Init, TypeOK, TicketStatus
<1>6. ClosedHoldsNothing /\ PausedIsUnfinished
  BY DEF Init, ClosedHoldsNothing, PausedIsUnfinished
<1>. QED
  BY <1>5, <1>6 DEF IInv

(* The handlers of one estimate.                                           *)
LEMMA EstimateStepKeeps ==
    ASSUME IInv, NEW t \in Ticket, NEW k \in DOMAIN estimates[t], EstimateStep(t, k)
    PROVE  IInv'
<1>. USE DEF IInv
<1>1. CASE SubmitEstimate(t, k)
  <2>1. estimates' \in [Ticket -> Seq(Estimate)] /\ revision' \in [Ticket -> Revision]
    BY <1>1, SetEstimateType DEF SubmitEstimate, EstimateStatus
  <2>2. quoted' \subseteq Ticket
    BY <1>1 DEF SubmitEstimate, PostQuotation, TypeOK
  <2>. QED
    BY <1>1, <2>1, <2>2, PaperStep DEF SubmitEstimate, TicketStatus, Closed, TypeOK
<1>2. CASE ApproveEstimateFinance(t, k)
  <2>1. estimates' \in [Ticket -> Seq(Estimate)] /\ revision' \in [Ticket -> Revision]
    BY <1>2, SetEstimateType DEF ApproveEstimateFinance, EstimateStatus
  <2>. QED
    BY <1>2, <2>1, PaperStep DEF ApproveEstimateFinance, TicketStatus, Closed, TypeOK, flowVars
<1>3. CASE RejectEstimateFinance(t, k)
  <2>1. estimates' \in [Ticket -> Seq(Estimate)] /\ revision' \in [Ticket -> Revision]
    BY <1>3, SetEstimateType DEF RejectEstimateFinance, EstimateStatus
  <2>. QED
    BY <1>3, <2>1, PaperStep DEF RejectEstimateFinance, TicketStatus, Closed, TypeOK, flowVars
<1>4. ASSUME NEW done \in SUBSET estimates[t][k].items, ApproveEstimateCustomer(t, k, done)
      PROVE  IInv'
  <2>1. estimates' \in [Ticket -> Seq(Estimate)] /\ revision' \in [Ticket -> Revision]
    BY <1>4, SetEstimateType DEF ApproveEstimateCustomer, EstimateStatus
  <2>2. estimates[t][k] \in Estimate
    <3>1. estimates[t] \in Seq(Estimate)
      BY DEF TypeOK
    <3>2. k \in 1..Len(estimates[t])
      BY <3>1, LenProperties
    <3>. QED
      BY <3>1, <3>2, ElementOfSeq
  <2>3. done \in SUBSET Item
    BY <1>4, <2>2 DEF Estimate
  <2>. QED
    BY <1>4, <2>1, <2>3, ReserveStep DEF ApproveEstimateCustomer, TicketStatus, Closed, TypeOK, flowVars
<1>5. CASE RejectEstimateCustomer(t, k)
  <2>1. estimates' \in [Ticket -> Seq(Estimate)] /\ revision' \in [Ticket -> Revision]
    BY <1>5, SetEstimateType DEF RejectEstimateCustomer, EstimateStatus
  <2>. QED
    BY <1>5, <2>1, PaperStep DEF RejectEstimateCustomer, TicketStatus, Closed, TypeOK, flowVars
<1>6. ASSUME NEW S \in SUBSET Item, CreateEstimateRevision(t, k, S)
      PROVE  IInv'
  <2>1. k \in Nat
    <3>1. estimates[t] \in Seq(Estimate)
      BY DEF TypeOK
    <3>. QED
      BY <3>1, LenProperties
  <2>2. [of |-> k, items |-> S] \in Revision
    BY <2>1 DEF Revision
  <2>3. revision' \in [Ticket -> Revision]
    BY <1>6, <2>2 DEF CreateEstimateRevision, TypeOK
  <2>. QED
    BY <1>6, <2>3, PaperStep DEF CreateEstimateRevision, TicketStatus, Closed, TypeOK, flowVars
<1>. QED
  BY <1>1, <1>2, <1>3, <1>4, <1>5, <1>6 DEF EstimateStep

(* Drafting: the ticket itself does not change.                            *)
LEMMA CreateEstimateStep ==
    ASSUME IInv, NEW t \in Ticket, NEW S \in SUBSET Item, CreateEstimate(t, S)
    PROVE  IInv'
<1>1. estimates' \in [Ticket -> Seq(Estimate)] /\ revision' \in [Ticket -> Revision]
  <2>1. CASE AddEstimate(t, "DRAFT", S)
    BY <2>1, AddEstimateType DEF IInv, EstimateStatus
  <2>2. ASSUME NEW k \in DOMAIN estimates[t], UNCHANGED revision,
               estimates' = [estimates EXCEPT ![t][k].items = S]
        PROVE  estimates' \in [Ticket -> Seq(Estimate)] /\ revision' \in [Ticket -> Revision]
    <3>. DEFINE e == [estimates[t][k] EXCEPT !.items = S]
    <3>1. estimates[t] \in Seq(Estimate)
      BY DEF IInv, TypeOK
    <3>2. k \in 1..Len(estimates[t])
      BY <3>1, LenProperties
    <3>3. estimates[t][k] \in Estimate
      BY <3>1, <3>2, ElementOfSeq
    <3>4. e \in Estimate
      BY <3>3 DEF Estimate
    <3>5. estimates' = [estimates EXCEPT ![t] = [estimates[t] EXCEPT ![k] = e]]
      BY <2>2
    <3>6. estimates' \in [Ticket -> Seq(Estimate)]
      BY <3>4, <3>5, EstimateReplaced DEF IInv
    <3>. QED
      BY <2>2, <3>6 DEF IInv, TypeOK
  <2>. QED
    BY <2>1, <2>2 DEF CreateEstimate
<1>. QED
  BY <1>1 DEF CreateEstimate, IInv, TypeOK, ClosedHoldsNothing, PausedIsUnfinished,
              statusVars, flowVars, stockVars, NoUnits

(* An approved revision joins its estimate and reserves its lines.         *)
LEMMA ApproveRevisionStep ==
    ASSUME IInv, NEW t \in Ticket, NEW done \in SUBSET revision[t].items,
           ApproveRevisionCustomer(t, done)
    PROVE  IInv'
<1>. DEFINE r == revision[t]
<1>1. r \in Revision /\ r.items \subseteq Item
  BY DEF IInv, TypeOK, Revision
<1>2. PICK last \in SUBSET Item :
         estimates' = [estimates EXCEPT ![t][r.of].items = @ \cup done \cup last]
  <2>1. \E last \in IF done = r.items THEN {{}}
                    ELSE {{i} : i \in {j \in r.items \ done : ~ Fits(j, done)}} :
           estimates' = [estimates EXCEPT ![t][r.of].items = @ \cup done \cup last]
    BY DEF ApproveRevisionCustomer
  <2>. QED
    BY <1>1, <2>1
<1>3. estimates' \in [Ticket -> Seq(Estimate)]
  <2>. DEFINE old == estimates[t][r.of]
              e == [old EXCEPT !.items = @ \cup done \cup last]
  <2>1. ASSUME r.of \in DOMAIN estimates[t] PROVE e \in Estimate
    <3>1. estimates[t] \in Seq(Estimate)
      BY DEF IInv, TypeOK
    <3>2. r.of \in 1..Len(estimates[t])
      BY <2>1, <3>1, LenProperties
    <3>3. old \in Estimate
      BY <3>1, <3>2, ElementOfSeq
    <3>. QED
      BY <1>1, <3>3 DEF Estimate
  <2>2. estimates' = [estimates EXCEPT ![t] = [estimates[t] EXCEPT ![r.of] = e]]
    BY <1>2
  <2>. HIDE DEF e
  <2>. QED
    BY <2>1, <2>2, EstimateReplaced DEF IInv
<1>4. done \in SUBSET Item
  BY <1>1
<1>. QED
  BY <1>3, <1>4, ReserveStep
     DEF ApproveRevisionCustomer, TicketStatus, Closed, IInv, TypeOK, flowVars

(* Completing a ticket consumes all it holds.                              *)
LEMMA CompleteStep ==
    ASSUME IInv, NEW t \in Ticket, CompleteService(t)
    PROVE  IInv'
<1>1. NoUnits \in [Part -> Nat]
  BY DEF NoUnits
<1>2. held' = [held EXCEPT ![t] = NoUnits]
  BY DEF CompleteService, ConsumeReservations
<1>3. held' \in [Ticket -> [Part -> Nat]]
  BY <1>1, <1>2 DEF IInv, TypeOK
<1>4. reserved' \in [Part -> Nat] /\ consumed' \in [Part -> Nat]
  <2>1. \A p \in Part : reserved[p] \in Nat /\ consumed[p] \in Nat /\ held[t][p] \in Nat
    BY DEF IInv, TypeOK
  <2>2. \A p \in Part : Monus(reserved[p], held[t][p]) \in Nat
    BY <2>1, MonusType
  <2>3. reserved' = [p \in Part |-> Monus(reserved[p], held[t][p])]
    BY DEF CompleteService, ConsumeReservations
  <2>4. consumed' = [p \in Part |-> consumed[p] + held[t][p]]
    BY DEF CompleteService, ConsumeReservations
  <2>5. reserved' \in [Part -> Nat]
    BY <2>2, <2>3
  <2>6. consumed' \in [Part -> Nat]
    BY <2>1, <2>4
  <2>. QED
    BY <2>5, <2>6
<1>5. TypeOK'
  BY <1>3, <1>4 DEF CompleteService, ConsumeReservations, IInv, TypeOK, SetStatus,
                    TicketStatus, Closed, flowVars, paperVars
<1>6. ClosedHoldsNothing'
  BY <1>2 DEF CompleteService, SetStatus, IInv, TypeOK, ClosedHoldsNothing, NoUnits
<1>7. PausedIsUnfinished'
  BY DEF CompleteService, SetStatus, IInv, TypeOK, PausedIsUnfinished, flowVars
<1>. QED
  BY <1>5, <1>6, <1>7 DEF IInv

(* Cancelling a ticket releases all it holds.                              *)
LEMMA CancelStep ==
    ASSUME IInv, NEW t \in Ticket, CancelTicket(t)
    PROVE  IInv'
<1>1. NoUnits \in [Part -> Nat]
  BY DEF NoUnits
<1>2. held' = [held EXCEPT ![t] = NoUnits]
  BY DEF CancelTicket, ReleaseReservations
<1>3. held' \in [Ticket -> [Part -> Nat]]
  BY <1>1, <1>2 DEF IInv, TypeOK
<1>4. quantity' \in [Part -> Int] /\ reserved' \in [Part -> Nat]
  <2>1. \A p \in Part : reserved[p] \in Nat /\ quantity[p] \in Int /\ held[t][p] \in Nat
    BY DEF IInv, TypeOK
  <2>2. \A p \in Part : Monus(reserved[p], held[t][p]) \in Nat
    BY <2>1, MonusType
  <2>3. reserved' = [p \in Part |-> Monus(reserved[p], held[t][p])]
    BY DEF CancelTicket, ReleaseReservations
  <2>4. quantity' = [p \in Part |-> quantity[p] + held[t][p]]
    BY DEF CancelTicket, ReleaseReservations
  <2>5. reserved' \in [Part -> Nat]
    BY <2>2, <2>3
  <2>6. quantity' \in [Part -> Int]
    BY <2>1, <2>4
  <2>. QED
    BY <2>5, <2>6
<1>5. TypeOK'
  BY <1>3, <1>4 DEF CancelTicket, ReleaseReservations, IInv, TypeOK, SetStatus,
                    TicketStatus, Closed, flowVars, paperVars
<1>6. ClosedHoldsNothing'
  BY <1>2 DEF CancelTicket, SetStatus, IInv, TypeOK, ClosedHoldsNothing, NoUnits
<1>7. PausedIsUnfinished'
  BY DEF CancelTicket, SetStatus, IInv, TypeOK, PausedIsUnfinished, flowVars
<1>. QED
  BY <1>5, <1>6, <1>7 DEF IInv

(* The handlers of a ticket, apart from those of one estimate.             *)
LEMMA TicketStepKeeps ==
    ASSUME IInv, NEW t \in Ticket, TicketStep(t)
    PROVE  IInv'
<1>. USE DEF TicketStatus, Closed
<1>1. CASE CreateTicket(t)
  <2>1. PICK s \in TicketStatus \ Closed : SetStatus(t, s)
    BY <1>1 DEF CreateTicket
  <2>. QED
    BY <1>1, <2>1, PaperStep DEF CreateTicket, IInv, TypeOK, flowVars, paperVars
<1>2. CASE AssignTechnician(t)
  <2>1. status[t] \in TicketStatus \ Closed
    BY <1>2 DEF AssignTechnician, IInv, TypeOK
  <2>2. PICK s \in TicketStatus \ Closed : SetStatus(t, s)
    BY <1>2, <2>1 DEF AssignTechnician
  <2>. QED
    BY <1>2, <2>2, PaperStep DEF AssignTechnician, IInv, TypeOK, flowVars, paperVars
<1>3. ASSUME NEW S \in SUBSET Item, NEW done \in SUBSET S, DiagnoseFree(t, S, done)
      PROVE  IInv'
  BY <1>3, ReserveStep DEF DiagnoseFree, IInv, TypeOK, paperVars
<1>4. ASSUME NEW S \in SUBSET Item, DiagnoseChargeable(t, S)
      PROVE  IInv'
  <2>1. estimates' \in [Ticket -> Seq(Estimate)] /\ revision' \in [Ticket -> Revision]
    <3>1. CASE AddEstimate(t, "WAITING_FINANCE_APPROVAL", S)
      BY <3>1, AddEstimateType DEF IInv, EstimateStatus
    <3>2. CASE UNCHANGED paperVars
      BY <3>2 DEF IInv, TypeOK, paperVars
    <3>. QED
      BY <1>4, <3>1, <3>2 DEF DiagnoseChargeable
  <2>2. quoted' \subseteq Ticket
    BY <1>4 DEF DiagnoseChargeable, PostQuotation, IInv, TypeOK
  <2>. QED
    BY <1>4, <2>1, <2>2, PaperStep DEF DiagnoseChargeable, IInv, TypeOK
<1>5. ASSUME NEW S \in SUBSET Item, CreateEstimate(t, S)
      PROVE  IInv'
  BY <1>5, CreateEstimateStep
<1>6. ASSUME NEW k \in DOMAIN estimates[t], EstimateStep(t, k)
      PROVE  IInv'
  BY <1>6, EstimateStepKeeps
<1>7. CASE ApproveRevisionFinance(t)
  BY <1>7, PaperStep DEF ApproveRevisionFinance, IInv, TypeOK, flowVars, paperVars
<1>8. ASSUME NEW done \in SUBSET revision[t].items, ApproveRevisionCustomer(t, done)
      PROVE  IInv'
  BY <1>8, ApproveRevisionStep
<1>9. CASE SubmitQuotation(t)
  BY <1>9, PaperStep DEF SubmitQuotation, IInv, TypeOK, paperVars
<1>10. CASE PatchQuotationLink(t)
  BY <1>10, LinkStep
<1>11. CASE ExtendValidity(t)
  BY <1>11, PaperStep DEF ExtendValidity, IInv, TypeOK, flowVars, paperVars
<1>12. CASE ReviseEstimate(t)
  BY <1>12, PaperStep DEF ReviseEstimate, IInv, TypeOK, flowVars, paperVars
<1>13. CASE FinanceApproved(t)
  <2>1. estimates' \in [Ticket -> Seq(Estimate)] /\ revision' \in [Ticket -> Revision]
    <3>1. CASE UNCHANGED paperVars
      BY <3>1 DEF IInv, TypeOK, paperVars
    <3>2. ASSUME NEW k \in DOMAIN estimates[t], SetEstimate(t, k, "FINANCE_APPROVED")
          PROVE  estimates' \in [Ticket -> Seq(Estimate)] /\ revision' \in [Ticket -> Revision]
      BY <3>2, SetEstimateType DEF IInv, EstimateStatus
    <3>. QED
      BY <1>13, <3>1, <3>2 DEF FinanceApproved
  <2>. QED
    BY <1>13, <2>1, PaperStep DEF FinanceApproved, IInv, TypeOK, flowVars
<1>14. CASE FinanceRejected(t)
  BY <1>14, PaperStep DEF FinanceRejected, IInv, TypeOK, flowVars, paperVars
<1>15. CASE CustomerApprove(t)
  <2>1. estimates' \in [Ticket -> Seq(Estimate)] /\ revision' \in [Ticket -> Revision]
    <3>1. CASE estimates[t] = <<>>
      BY <1>15, <3>1 DEF CustomerApprove, IInv, TypeOK, paperVars
    <3>2. CASE estimates[t] # <<>>
      <4>1. estimates[t] \in Seq(Estimate)
        BY DEF IInv, TypeOK
      <4>2. Len(estimates[t]) \in DOMAIN estimates[t]
        BY <3>2, <4>1, EmptySeq, LenProperties
      <4>3. SetEstimate(t, Len(estimates[t]), "CUSTOMER_APPROVED")
        BY <1>15, <3>2 DEF CustomerApprove
      <4>. QED
        BY <4>2, <4>3, SetEstimateType DEF IInv, EstimateStatus
    <3>. QED
      BY <3>1, <3>2
  <2>. QED
    BY <1>15, <2>1, PaperStep DEF CustomerApprove, IInv, TypeOK, flowVars
<1>16. CASE CustomerReject(t)
  BY <1>16, PaperStep DEF CustomerReject, IInv, TypeOK, flowVars, paperVars
<1>17. CASE StartRepair(t)
  BY <1>17, PaperStep DEF StartRepair, IInv, TypeOK, paperVars
<1>18. CASE PauseRepair(t)
  BY <1>18 DEF PauseRepair, IInv, TypeOK, ClosedHoldsNothing, PausedIsUnfinished,
               statusVars, paperVars, stockVars, NoUnits
<1>19. CASE ResumeRepair(t)
  BY <1>19 DEF ResumeRepair, IInv, TypeOK, ClosedHoldsNothing, PausedIsUnfinished,
               statusVars, paperVars, stockVars, NoUnits
<1>20. CASE CompleteService(t)
  BY <1>20, CompleteStep
<1>21. CASE CancelTicket(t)
  BY <1>21, CancelStep
<1>. QED
  BY <1>1, <1>2, <1>3, <1>4, <1>5, <1>6, <1>7, <1>8, <1>9, <1>10, <1>11, <1>12, <1>13,
     <1>14, <1>15, <1>16, <1>17, <1>18, <1>19, <1>20, <1>21 DEF TicketStep

(* The other writers of a part row leave the tickets alone.                *)
LEMMA StockStepKeeps ==
    ASSUME IInv, NEW p \in Part, StockStep(p)
    PROVE  IInv'
<1>. PICK q \in 1..Stock[p] : \/ MarkDamaged(p, q)
                              \/ TransferApproved(p, q)
                              \/ TransferCancelled(p, q)
                              \/ TransferDispatched(p, q)
                              \/ Sold(p, q)
  BY DEF StockStep
<1>1. q \in Nat
  BY ConstantsAssumption DEF ConstantsAssumption
<1>2. CASE MarkDamaged(p, q)
  <2>1. quantity' \in [Part -> Int]
    BY <1>1, <1>2 DEF MarkDamaged, IInv, TypeOK
  <2>2. damaged' \in [Part -> Nat]
    BY <1>1, <1>2 DEF MarkDamaged, IInv, TypeOK
  <2>. QED
    BY <1>2, <2>1, <2>2, StockOnlyStep DEF MarkDamaged, IInv, TypeOK
<1>3. CASE TransferApproved(p, q)
  <2>1. reserved' \in [Part -> Nat]
    BY <1>1, <1>3 DEF TransferApproved, IInv, TypeOK
  <2>2. promised' \in [Part -> Nat]
    BY <1>1, <1>3 DEF TransferApproved, IInv, TypeOK
  <2>. QED
    BY <1>3, <2>1, <2>2, StockOnlyStep DEF TransferApproved, IInv, TypeOK
<1>4. CASE TransferCancelled(p, q)
  <2>1. Monus(reserved[p], q) \in Nat
    BY <1>1, MonusType DEF IInv, TypeOK
  <2>2. reserved' \in [Part -> Nat]
    BY <1>4, <2>1 DEF TransferCancelled, IInv, TypeOK
  <2>3. promised' \in [Part -> Nat]
    BY <1>1, <1>4 DEF TransferCancelled, IInv, TypeOK
  <2>. QED
    BY <1>4, <2>2, <2>3, StockOnlyStep DEF TransferCancelled, IInv, TypeOK
<1>5. CASE TransferDispatched(p, q)
  <2>1. Monus(reserved[p], q) \in Nat
    BY <1>1, MonusType DEF IInv, TypeOK
  <2>2. reserved' \in [Part -> Nat]
    BY <1>5, <2>1 DEF TransferDispatched, IInv, TypeOK
  <2>3. promised' \in [Part -> Nat] /\ gone' \in [Part -> Nat] /\ quantity' \in [Part -> Int]
    BY <1>1, <1>5 DEF TransferDispatched, IInv, TypeOK
  <2>. QED
    BY <1>5, <2>2, <2>3, StockOnlyStep DEF TransferDispatched, IInv, TypeOK
<1>6. CASE Sold(p, q)
  <2>1. quantity' \in [Part -> Int]
    BY <1>1, <1>6 DEF Sold, IInv, TypeOK
  <2>2. gone' \in [Part -> Nat]
    BY <1>1, <1>6 DEF Sold, IInv, TypeOK
  <2>. QED
    BY <1>6, <2>1, <2>2, StockOnlyStep DEF Sold, IInv, TypeOK
<1>. QED
  BY <1>2, <1>3, <1>4, <1>5, <1>6

----------------------------------------------------------------------------
(* A step of the system, or none.                                          *)
LEMMA StepKeeps == IInv /\ [Next]_vars => IInv'
<1>. SUFFICES ASSUME IInv, [Next]_vars PROVE IInv'
  OBVIOUS
<1>1. CASE UNCHANGED vars
  BY <1>1 DEF vars, statusVars, flowVars, paperVars, stockVars, IInv, TypeOK,
              ClosedHoldsNothing, PausedIsUnfinished, NoUnits
<1>2. ASSUME NEW t \in Ticket, TicketStep(t) PROVE IInv'
  BY <1>2, TicketStepKeeps
<1>3. ASSUME NEW p \in Part, StockStep(p) PROVE IInv'
  BY <1>3, StockStepKeeps
<1>. QED
  BY <1>1, <1>2, <1>3 DEF Next

(* The invariant holds of every behaviour: handlers one at a time, with    *)
(* their partial failures, beside transfers, sales and damage.             *)
THEOREM TicketInvariantHolds == Spec => []IInv
BY InitIInv, StepKeeps, PTL DEF Spec

(* The counters other than quantity never go below zero.                   *)
THEOREM TicketTypes == Spec => []TypeOK
<1>1. IInv => TypeOK
  BY DEF IInv
<1>. QED
  BY <1>1, TicketInvariantHolds, PTL

(* A completed or cancelled ticket holds no part, in whatever order its    *)
(* estimates and revisions are approved, unless the request of the         *)
(* quotation link closed it.                                               *)
THEOREM ClosedTicketsHoldNothing == Spec => []ClosedHoldsNothing
<1>1. IInv => ClosedHoldsNothing
  BY DEF IInv
<1>. QED
  BY <1>1, TicketInvariantHolds, PTL

(* A paused repair is not completed, unless by that request.               *)
THEOREM PausedTicketsAreUnfinished == Spec => []PausedIsUnfinished
<1>1. IInv => PausedIsUnfinished
  BY DEF IInv
<1>. QED
  BY <1>1, TicketInvariantHolds, PTL

----------------------------------------------------------------------------
(* The counters of a part row against what tickets and transfers hold.     *)

(* HeldByTickets, of any holdings h.                                       *)
HeldUnits(h, p) == SumFunctionOnSet([t \in Ticket |-> h[t][p]], Ticket)

(* ReservedIsHeld and UnitsAccounted, of one part: r is reserved, q        *)
(* quantity, pr promised, c consumed, d damaged, g gone, and u the units   *)
(* of the tickets.                                                         *)
Balanced(u, q, r, c, d, pr, g, s) == r = u + pr /\ q + u + c + d + g = s

Accounts ==
    \A p \in Part : Balanced(HeldUnits(held, p), quantity[p], reserved[p], consumed[p],
                             damaged[p], promised[p], gone[p], Stock[p])

Holdings == [Ticket -> [Part -> Nat]]

LEMMA AccountsMeaning == Accounts <=> ReservedIsHeld /\ UnitsAccounted
<1>1. \A p : HeldByTickets(p) = HeldUnits(held, p)
  BY DEF HeldByTickets, HeldUnits, SumFunction, FoldFunction, SumFunctionOnSet
<1>. QED
  BY <1>1 DEF Accounts, Balanced, ReservedIsHeld, UnitsAccounted

(* A ticket holds no more than all tickets together.                       *)
LEMMA HeldUnitsType ==
    ASSUME NEW h \in Holdings, NEW p \in Part
    PROVE  /\ HeldUnits(h, p) \in Nat
           /\ \A t \in Ticket : h[t][p] <= HeldUnits(h, p)
<1>. DEFINE f == [t \in Ticket |-> h[t][p]]
<1>1. IsFiniteSet(Ticket)
  BY ConstantsAssumption DEF ConstantsAssumption
<1>2. \A t \in Ticket : f[t] \in Nat
  BY DEF Holdings
<1>3. ASSUME NEW t \in Ticket PROVE h[t][p] <= HeldUnits(h, p)
  <2>. DEFINE R == Ticket \ {t}
  <2>1. IsFiniteSet(R)
    BY <1>1, FS_RemoveElement
  <2>2. SumFunctionOnSet(f, R) \in Nat
    <3>. HIDE DEF f
    <3>1. \A x \in R : f[x] \in Nat
      BY <1>2
    <3>. QED
      BY <2>1, <3>1, SumNat
  <2>3. SumFunctionOnSet(f, Ticket) = f[t] + SumFunctionOnSet(f, R)
    <3>. HIDE DEF f
    <3>1. \A x \in Ticket : f[x] \in Int
      BY <1>2
    <3>. QED
      BY <1>1, <3>1, SumRemove
  <2>4. f[t] = h[t][p] /\ f[t] \in Nat
    BY <1>2
  <2>5. HeldUnits(h, p) = SumFunctionOnSet(f, Ticket)
    BY DEF HeldUnits
  <2>. HIDE DEF f, R
  <2>. QED
    BY <2>2, <2>3, <2>4, <2>5
<1>4. HeldUnits(h, p) \in Nat
  <2>1. HeldUnits(h, p) = SumFunctionOnSet(f, Ticket)
    BY DEF HeldUnits
  <2>. HIDE DEF f
  <2>. QED
    BY <1>1, <1>2, <2>1, SumNat
<1>. QED
  BY <1>3, <1>4

(* Changing what one ticket holds.                                         *)
LEMMA HeldUnitsChange ==
    ASSUME NEW h \in Holdings, NEW k \in Holdings, NEW t \in Ticket, NEW p \in Part,
           \A s \in Ticket \ {t} : k[s] = h[s]
    PROVE  HeldUnits(k, p) = HeldUnits(h, p) + (k[t][p] - h[t][p])
<1>. DEFINE f == [s \in Ticket |-> h[s][p]]
            g == [s \in Ticket |-> k[s][p]]
<1>1. IsFiniteSet(Ticket)
  BY ConstantsAssumption DEF ConstantsAssumption
<1>2. \A s \in Ticket : f[s] \in Int /\ g[s] \in Int
  BY DEF Holdings
<1>3. \A s \in Ticket \ {t} : g[s] = f[s]
  OBVIOUS
<1>4. f[t] = h[t][p] /\ g[t] = k[t][p]
  OBVIOUS
<1>5. HeldUnits(h, p) = SumFunctionOnSet(f, Ticket) /\ HeldUnits(k, p) = SumFunctionOnSet(g, Ticket)
  BY DEF HeldUnits
<1>. HIDE DEF f, g
<1>. QED
  BY <1>1, <1>2, <1>3, <1>4, <1>5, SumChange

----------------------------------------------------------------------------
(* The ways a step changes the counters.                                   *)

(* Reserving lines moves their units from the shelf to the ticket.         *)
LEMMA ReserveBalances ==
    ASSUME IInv, Accounts, held' \in Holdings,
           NEW t \in Ticket, NEW done \in SUBSET Item, ReserveParts(t, done)
    PROVE  Accounts'
<1>. SUFFICES ASSUME NEW p \in Part
              PROVE  Balanced(HeldUnits(held', p), quantity'[p], reserved'[p], consumed'[p],
                              damaged'[p], promised'[p], gone'[p], Stock[p])
  BY DEF Accounts
<1>. DEFINE u == Units(done, p)
<1>1. u \in Nat
  BY UnitsType
<1>2. held \in Holdings
  BY DEF IInv, TypeOK, Holdings
<1>3. HeldUnits(held', p) = HeldUnits(held, p) + (held'[t][p] - held[t][p])
  <2>1. \A s \in Ticket \ {t} : held'[s] = held[s]
    BY <1>2 DEF ReserveParts, Holdings
  <2>. QED
    BY <1>2, <2>1, HeldUnitsChange
<1>4. held'[t][p] = held[t][p] + u
  BY <1>2 DEF ReserveParts, Holdings
<1>5. quantity'[p] = quantity[p] - u /\ reserved'[p] = reserved[p] + u
  BY DEF ReserveParts
<1>6. UNCHANGED <<consumed, damaged, promised, gone>>
  BY DEF ReserveParts
<1>7. HeldUnits(held, p) \in Nat /\ held[t][p] \in Nat
  BY <1>2, HeldUnitsType DEF Holdings
<1>8. /\ quantity[p] \in Int /\ reserved[p] \in Nat /\ consumed[p] \in Nat
      /\ damaged[p] \in Nat /\ promised[p] \in Nat /\ gone[p] \in Nat
  BY DEF IInv, TypeOK
<1>9. Balanced(HeldUnits(held, p), quantity[p], reserved[p], consumed[p], damaged[p],
               promised[p], gone[p], Stock[p])
  BY DEF Accounts
<1>. HIDE DEF u
<1>. QED
  BY <1>1, <1>3, <1>4, <1>5, <1>6, <1>7, <1>8, <1>9 DEF Balanced

(* A ticket that gives up what it holds: the units go back to the shelf or *)
(* are consumed.  Monus loses nothing, since the ticket's own units are    *)
(* among the reserved ones.                                                *)
LEMMA ReleaseBalances ==
    ASSUME IInv, Accounts, held' \in Holdings, NEW t \in Ticket,
           ReleaseReservations(t) \/ ConsumeReservations(t)
    PROVE  Accounts'
<1>. SUFFICES ASSUME NEW p \in Part
              PROVE  Balanced(HeldUnits(held', p), quantity'[p], reserved'[p], consumed'[p],
                              damaged'[p], promised'[p], gone'[p], Stock[p])
  BY DEF Accounts
<1>1. held \in Holdings
  BY DEF IInv, TypeOK, Holdings
<1>2. HeldUnits(held', p) = HeldUnits(held, p) + (held'[t][p] - held[t][p])
  <2>1. \A s \in Ticket \ {t} : held'[s] = held[s]
    BY <1>1 DEF ReleaseReservations, ConsumeReservations, Holdings
  <2>. QED
    BY <1>1, <2>1, HeldUnitsChange
<1>3. held'[t][p] = 0
  BY <1>1 DEF ReleaseReservations, ConsumeReservations, Holdings, NoUnits
<1>4. /\ reserved'[p] = Monus(reserved[p], held[t][p])
      /\ quantity'[p] + consumed'[p] = quantity[p] + consumed[p] + held[t][p]
  <2>1. quantity[p] \in Int /\ consumed[p] \in Nat /\ held[t][p] \in Nat
    BY <1>1 DEF IInv, TypeOK, Holdings
  <2>2. CASE ReleaseReservations(t)
    <3>1. /\ quantity'[p] = quantity[p] + held[t][p] /\ consumed' = consumed
          /\ reserved'[p] = Monus(reserved[p], held[t][p])
      BY <2>2 DEF ReleaseReservations
    <3>. QED
      BY <2>1, <3>1
  <2>3. CASE ConsumeReservations(t)
    <3>1. /\ consumed'[p] = consumed[p] + held[t][p] /\ quantity' = quantity
          /\ reserved'[p] = Monus(reserved[p], held[t][p])
      BY <2>3 DEF ConsumeReservations
    <3>. QED
      BY <2>1, <3>1
  <2>. QED
    BY <2>2, <2>3
<1>5. UNCHANGED <<damaged, promised, gone>>
  BY DEF ReleaseReservations, ConsumeReservations
<1>6. HeldUnits(held, p) \in Nat /\ held[t][p] \in Nat /\ held[t][p] <= HeldUnits(held, p)
  BY <1>1, HeldUnitsType DEF Holdings
<1>7. /\ quantity[p] \in Int /\ reserved[p] \in Nat /\ consumed[p] \in Nat
      /\ damaged[p] \in Nat /\ promised[p] \in Nat /\ gone[p] \in Nat
  BY DEF IInv, TypeOK
<1>8. quantity'[p] \in Int /\ consumed'[p] \in Nat
  BY <1>1, <1>7 DEF ReleaseReservations, ConsumeReservations, Holdings
<1>9. Balanced(HeldUnits(held, p), quantity[p], reserved[p], consumed[p], damaged[p],
               promised[p], gone[p], Stock[p])
  BY DEF Accounts
<1>. QED
  BY <1>2, <1>3, <1>4, <1>5, <1>6, <1>7, <1>8, <1>9 DEF Balanced, Monus

(* The other writers: one part, held by nobody else's ticket.              *)
LEMMA StockStepBalances ==
    ASSUME IInv, Accounts, NEW p \in Part, StockStep(p)
    PROVE  Accounts'
<1>. SUFFICES ASSUME NEW r \in Part
              PROVE  Balanced(HeldUnits(held', r), quantity'[r], reserved'[r], consumed'[r],
                              damaged'[r], promised'[r], gone'[r], Stock[r])
  BY DEF Accounts
<1>. PICK q \in 1..Stock[p] : \/ MarkDamaged(p, q)
                              \/ TransferApproved(p, q)
                              \/ TransferCancelled(p, q)
                              \/ TransferDispatched(p, q)
                              \/ Sold(p, q)
  BY DEF StockStep
<1>1. q \in Nat
  BY ConstantsAssumption DEF ConstantsAssumption
<1>2. held' = held
  BY DEF MarkDamaged, TransferApproved, TransferCancelled, TransferDispatched, Sold
<1>3. HeldUnits(held', r) = HeldUnits(held, r)
  BY <1>2
<1>4. HeldUnits(held, r) \in Nat
  BY HeldUnitsType DEF IInv, TypeOK, Holdings
<1>5. /\ quantity[r] \in Int /\ reserved[r] \in Nat /\ consumed[r] \in Nat
      /\ damaged[r] \in Nat /\ promised[r] \in Nat /\ gone[r] \in Nat
  BY DEF IInv, TypeOK
<1>6. Balanced(HeldUnits(held, r), quantity[r], reserved[r], consumed[r], damaged[r],
               promised[r], gone[r], Stock[r])
  BY DEF Accounts
<1>. HIDE DEF Balanced
<1>7. CASE r # p
  <2>1. /\ quantity'[r] = quantity[r] /\ reserved'[r] = reserved[r] /\ consumed'[r] = consumed[r]
        /\ damaged'[r] = damaged[r] /\ promised'[r] = promised[r] /\ gone'[r] = gone[r]
    BY <1>7 DEF MarkDamaged, TransferApproved, TransferCancelled, TransferDispatched, Sold,
                IInv, TypeOK
  <2>. QED
    BY <1>3, <1>6, <2>1
<1>8. CASE r = p /\ MarkDamaged(p, q)
  <2>1. quantity'[r] = quantity[r] - q /\ damaged'[r] = damaged[r] + q
    BY <1>8 DEF MarkDamaged, IInv, TypeOK
  <2>2. UNCHANGED <<reserved, consumed, promised, gone>>
    BY <1>8 DEF MarkDamaged
  <2>. QED
    BY <1>1, <1>3, <1>4, <1>5, <1>6, <2>1, <2>2 DEF Balanced
<1>9. CASE r = p /\ TransferApproved(p, q)
  <2>1. reserved'[r] = reserved[r] + q /\ promised'[r] = promised[r] + q
    BY <1>9 DEF TransferApproved, IInv, TypeOK
  <2>2. UNCHANGED <<quantity, consumed, damaged, gone>>
    BY <1>9 DEF TransferApproved
  <2>. QED
    BY <1>1, <1>3, <1>4, <1>5, <1>6, <2>1, <2>2 DEF Balanced
<1>10. CASE r = p /\ TransferCancelled(p, q)
  <2>1. reserved'[r] = Monus(reserved[r], q) /\ promised'[r] = promised[r] - q /\ q <= promised[r]
    BY <1>10 DEF TransferCancelled, IInv, TypeOK
  <2>2. UNCHANGED <<quantity, consumed, damaged, gone>>
    BY <1>10 DEF TransferCancelled
  <2>. QED
    BY <1>1, <1>3, <1>4, <1>5, <1>6, <2>1, <2>2 DEF Balanced, Monus
<1>11. CASE r = p /\ TransferDispatched(p, q)
  <2>1. /\ reserved'[r] = Monus(reserved[r], q) /\ promised'[r] = promised[r] - q
        /\ q <= promised[r] /\ quantity'[r] = quantity[r] - q /\ gone'[r] = gone[r] + q
    BY <1>11 DEF TransferDispatched, IInv, TypeOK
  <2>2. UNCHANGED <<consumed, damaged>>
    BY <1>11 DEF TransferDispatched
  <2>. QED
    BY <1>1, <1>3, <1>4, <1>5, <1>6, <2>1, <2>2 DEF Balanced, Monus
<1>12. CASE r = p /\ Sold(p, q)
  <2>1. quantity'[r] = quantity[r] - q /\ gone'[r] = gone[r] + q
    BY <1>12 DEF Sold, IInv, TypeOK
  <2>2. UNCHANGED <<reserved, consumed, damaged, promised>>
    BY <1>12 DEF Sold
  <2>. QED
    BY <1>1, <1>3, <1>4, <1>5, <1>6, <2>1, <2>2 DEF Balanced
<1>. QED
  BY <1>7, <1>8, <1>9, <1>10, <1>11, <1>12

(* The handlers of a ticket reserve lines, give everything up, or move no  *)
(* part.                                                                   *)
LEMMA TicketStepMoves ==
    ASSUME IInv, NEW t \in Ticket, TicketStep(t)
    PROVE  \/ UNCHANGED stockVars
           \/ \E done \in SUBSET Item : ReserveParts(t, done)
           \/ ReleaseReservations(t)
           \/ ConsumeReservations(t)
<1>1. ASSUME NEW S \in SUBSET Item, NEW done \in SUBSET S, DiagnoseFree(t, S, done)
      PROVE  \E d \in SUBSET Item : ReserveParts(t, d)
  BY <1>1 DEF DiagnoseFree
<1>2. ASSUME NEW k \in DOMAIN estimates[t], EstimateStep(t, k)
      PROVE  UNCHANGED stockVars \/ \E d \in SUBSET Item : ReserveParts(t, d)
  <2>1. ASSUME NEW done \in SUBSET estimates[t][k].items, ApproveEstimateCustomer(t, k, done)
        PROVE  \E d \in SUBSET Item : ReserveParts(t, d)
    <3>1. estimates[t] \in Seq(Estimate)
      BY DEF IInv, TypeOK
    <3>2. k \in 1..Len(estimates[t])
      BY <3>1, LenProperties
    <3>3. estimates[t][k] \in Estimate
      BY <3>1, <3>2, ElementOfSeq
    <3>4. done \in SUBSET Item
      BY <3>3 DEF Estimate
    <3>. QED
      BY <2>1, <3>4 DEF ApproveEstimateCustomer
  <2>. QED
    BY <1>2, <2>1 DEF EstimateStep, SubmitEstimate, ApproveEstimateFinance,
                      RejectEstimateFinance, RejectEstimateCustomer, CreateEstimateRevision
<1>3. ASSUME NEW done \in SUBSET revision[t].items, ApproveRevisionCustomer(t, done)
      PROVE  \E d \in SUBSET Item : ReserveParts(t, d)
  <2>1. done \in SUBSET Item
    BY DEF IInv, TypeOK, Revision
  <2>. QED
    BY <1>3, <2>1 DEF ApproveRevisionCustomer
<1>. QED
  BY <1>1, <1>2, <1>3
     DEF TicketStep, CreateTicket, AssignTechnician, DiagnoseChargeable, CreateEstimate,
         ApproveRevisionFinance, SubmitQuotation, PatchQuotationLink, ExtendValidity,
         ReviseEstimate, FinanceApproved, FinanceRejected, CustomerApprove, CustomerReject,
         StartRepair, PauseRepair, ResumeRepair, CompleteService, CancelTicket

LEMMA InitAccounts == Init => Accounts
<1>. SUFFICES ASSUME Init, NEW p \in Part
              PROVE  Balanced(HeldUnits(held, p), quantity[p], reserved[p], consumed[p],
                              damaged[p], promised[p], gone[p], Stock[p])
  BY DEF Accounts
<1>. DEFINE f == [t \in Ticket |-> held[t][p]]
<1>1. IsFiniteSet(Ticket)
  BY ConstantsAssumption DEF ConstantsAssumption
<1>2. \A t \in Ticket : f[t] = 0
  BY DEF Init, NoUnits
<1>3. HeldUnits(held, p) = SumFunctionOnSet(f, Ticket)
  BY DEF HeldUnits
<1>4. HeldUnits(held, p) = 0
  <2>. HIDE DEF f
  <2>. QED
    BY <1>1, <1>2, <1>3, SumZero
<1>5. Stock[p] \in Nat
  BY ConstantsAssumption DEF ConstantsAssumption
<1>. QED
  BY <1>4, <1>5 DEF Init, NoUnits, Balanced

(* Every behaviour keeps the accounts: no handler, alone, loses a unit or  *)
(* leaves reserved_quantity other than the reservations add up to, though  *)
(* three controllers write the counters and a handler may stop half-way.   *)
LEMMA AccountsHold == Spec => [](IInv /\ Accounts)
<1>1. Init => IInv /\ Accounts
  BY InitIInv, InitAccounts
<1>2. IInv /\ Accounts /\ [Next]_vars => (IInv /\ Accounts)'
  <2>. SUFFICES ASSUME IInv, Accounts, [Next]_vars PROVE IInv' /\ Accounts'
    OBVIOUS
  <2>1. IInv'
    BY StepKeeps
  <2>2. held' \in Holdings
    BY <2>1 DEF IInv, TypeOK, Holdings
  <2>3. ASSUME UNCHANGED stockVars PROVE Accounts'
    BY <2>3 DEF stockVars, Accounts
  <2>4. ASSUME UNCHANGED vars PROVE Accounts'
    BY <2>3, <2>4 DEF vars
  <2>5. ASSUME NEW t \in Ticket, TicketStep(t) PROVE Accounts'
    <3>1. ASSUME NEW done \in SUBSET Item, ReserveParts(t, done) PROVE Accounts'
      BY <2>2, <3>1, ReserveBalances
    <3>2. CASE ReleaseReservations(t) \/ ConsumeReservations(t)
      BY <2>2, <3>2, ReleaseBalances
    <3>3. \/ UNCHANGED stockVars
          \/ \E done \in SUBSET Item : ReserveParts(t, done)
          \/ ReleaseReservations(t) \/ ConsumeReservations(t)
      BY <2>5, TicketStepMoves
    <3>. QED
      BY <2>3, <3>1, <3>2, <3>3
  <2>6. ASSUME NEW p \in Part, StockStep(p) PROVE Accounts'
    BY <2>6, StockStepBalances
  <2>. QED
    BY <2>1, <2>4, <2>5, <2>6 DEF Next
<1>. QED
  BY <1>1, <1>2, PTL DEF Spec

(* reserved_quantity is what the RESERVED rows of all tickets and the      *)
(* approved transfers hold together.                                       *)
THEOREM ReservedIsAlwaysHeld == Spec => []ReservedIsHeld
<1>1. Accounts => ReservedIsHeld
  BY AccountsMeaning
<1>. QED
  BY <1>1, AccountsHold, PTL

(* No unit of a part is lost or created.                                   *)
THEOREM UnitsAreAccounted == Spec => []UnitsAccounted
<1>1. Accounts => UnitsAccounted
  BY AccountsMeaning
<1>. QED
  BY <1>1, AccountsHold, PTL
=============================================================================
