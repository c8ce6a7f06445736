------------------------ MODULE ServiceContractsProofs ------------------------
(* The inductive invariant of ServiceContracts and its theorems: no reading *)
(* is marked without being charged, and none is charged twice unless the    *)
(* sweep lost the answer of billing.                                        *)
EXTENDS ServiceContracts, TLAPS

(* What the sweep is about to bill, or has billed and not yet marked, is   *)
(* unbilled in the table: nothing but the sweep marks readings.            *)
PendingUnbilled ==
    pc \in {"posting", "created"} => \A r \in pending : by[r] = NoInvoice

(* The invoice of the turn is for exactly the readings that will be marked.*)
MadeForPending == pc = "created" => bill[made] = pending

(* Every other invoice that was not lost has marked its readings.          *)
KeptBillsMark ==
    \A i \in Invoice :
        i \notin lost /\ ~ (pc = "created" /\ made = i) => \A r \in bill[i] : by[r] = i

BillingInv == MarkedIsBilled /\ PendingUnbilled /\ MadeForPending /\ KeptBillsMark

SInv == TypeOK /\ BillingInv

(* The steps that touch neither readings' marks, nor bills, nor the sweep. *)
ScreenUnchanged == UNCHANGED <<by, bill, lost, pc, todo, cur, pending, made>>

LEMMA SInvInit == Init => SInv
  BY ContractsAssumption
     DEF Init, SInv, TypeOK, BillingInv, MarkedIsBilled, PendingUnbilled, MadeForPending,
         KeptBillsMark, Status, Kind, Signing, Loaded, NoLoaded

LEMMA ScreenLeavesBilling ==
  ASSUME NEW c \in Contract, ScreenStep(c)
  PROVE  ScreenUnchanged
  BY DEF ScreenStep, CheckMachine, CreateContract, SigningInvoice, SaveInvoiceId, SigningFails,
         UpdateContract, DeleteContract, RecordMeterReading, MonthPasses, ScreenUnchanged,
         billVars, sweepVars, readingVars

USE DEF faultVars

(* The screens keep the types, handler by handler.                         *)
LEMMA ScreenTypes ==
  ASSUME TypeOK, NEW c \in Contract, ScreenStep(c)
  PROVE  TypeOK'
<1>u. ScreenUnchanged
  BY ScreenLeavesBilling
<1> USE ContractsAssumption
<1>1. CASE CheckMachine(c)
  BY <1>u, <1>1 DEF TypeOK, CheckMachine, ScreenUnchanged, contractVars, readingVars
<1>2. ASSUME NEW k \in Kind, CreateContract(c, k) PROVE TypeOK'
  BY <1>u, <1>2 DEF TypeOK, CreateContract, ScreenUnchanged, readingVars, Status, Signing
<1>3. CASE SigningInvoice(c)
  BY <1>u, <1>3 DEF TypeOK, SigningInvoice, ScreenUnchanged, contractVars, readingVars, Signing
<1>4. CASE SaveInvoiceId(c)
  BY <1>u, <1>4 DEF TypeOK, SaveInvoiceId, ScreenUnchanged, readingVars, Status, Kind, Signing
<1>5. CASE SigningFails(c)
  BY <1>u, <1>5 DEF TypeOK, SigningFails, ScreenUnchanged, contractVars, readingVars, Signing
<1>6. ASSUME NEW k \in Kind, NEW s \in {"ACTIVE", "EXPIRED", "TERMINATED"},
             NEW sendsStart \in BOOLEAN, UpdateContract(c, k, s, sendsStart)
      PROVE TypeOK'
  BY <1>u, <1>6 DEF TypeOK, UpdateContract, ScreenUnchanged, signVars, readingVars, Status
<1>7. CASE DeleteContract(c)
  BY <1>u, <1>7 DEF TypeOK, DeleteContract, ScreenUnchanged, signVars, Status
<1>8. ASSUME NEW r \in Reading, RecordMeterReading(c, r) PROVE TypeOK'
  BY <1>u, <1>8 DEF TypeOK, RecordMeterReading, ScreenUnchanged, contractVars, signVars
<1>9. CASE MonthPasses(c)
  BY <1>u, <1>9 DEF TypeOK, MonthPasses, ScreenUnchanged, contractVars, signVars, readingVars
<1> QED
  BY <1>1, <1>2, <1>3, <1>4, <1>5, <1>6, <1>7, <1>8, <1>9 DEF ScreenStep

LEMMA ScreenKeepsBilling ==
  ASSUME BillingInv, NEW c \in Contract, ScreenStep(c)
  PROVE  BillingInv'
  BY ScreenLeavesBilling
     DEF BillingInv, MarkedIsBilled, PendingUnbilled, MadeForPending, KeptBillsMark,
         ScreenUnchanged

----------------------------------------------------------------------------
(* The sweep.                                                              *)

LEMMA SweepTypes ==
  ASSUME TypeOK, SweepStep \/ TurnFails \/ Restart
  PROVE  TypeOK'
<1> USE ContractsAssumption
<1>1. CASE StartSweep
  <2>1. /\ pc' = "loop" /\ cur' = NoLoaded /\ pending' = {} /\ made' = NoInvoice
        /\ todo' = {[contract |-> c, next |-> next[c], invoiced |-> c \in invoiceId] :
                       c \in {d \in Contract : Due(d)}}
    BY <1>1 DEF StartSweep, Sweep
  <2>2. \A c \in Contract :
          [contract |-> c, next |-> next[c], invoiced |-> c \in invoiceId] \in Loaded
    BY DEF TypeOK, Loaded
  <2>3. todo' \subseteq Loaded /\ \A one \in todo' : one.contract \in Contract
    BY <2>1, <2>2
  <2>4. cur' \in Loaded
    BY <2>1 DEF Loaded, NoLoaded
  <2> QED
    BY <1>1, <2>1, <2>3, <2>4
       DEF TypeOK, StartSweep, contractVars, signVars, readingVars, billVars
<1>2. CASE TakeTurn
  BY <1>2 DEF TypeOK, TakeTurn, Sweep, Unbilled, Loaded, contractVars, signVars, readingVars,
              billVars
<1>3. CASE CreateInvoice
  BY <1>3 DEF TypeOK, CreateInvoice, Sweep, contractVars, signVars, readingVars
<1>4. CASE MarkBilled
  BY <1>4 DEF TypeOK, MarkBilled, Sweep, contractVars, signVars, billVars
<1>5. CASE Advance
  BY <1>5 DEF TypeOK, Advance, GoOn, Sweep, Loaded, NoLoaded, Status, Kind, signVars,
              readingVars, billVars
<1>6. CASE TurnFails
  BY <1>6 DEF TypeOK, TurnFails, Dropped, GoOn, Sweep, Loaded, NoLoaded, contractVars, signVars,
              readingVars
<1>7. CASE Restart
  BY <1>7 DEF TypeOK, Restart, Dropped, Sweep, Loaded, NoLoaded, contractVars, readingVars,
              Signing
<1>8. CASE InvoiceRefused
  BY <1>8 DEF TypeOK, InvoiceRefused, Sweep, contractVars, signVars, readingVars, billVars
<1> QED
  BY <1>1, <1>2, <1>3, <1>4, <1>5, <1>6, <1>7, <1>8 DEF SweepStep

(* An invoice is created for unbilled readings, under a number nobody has. *)
LEMMA CreateInvoiceStep ==
  ASSUME TypeOK, BillingInv, CreateInvoice
  PROVE  BillingInv'
<1> PICK i \in Invoice :
      /\ bill[i] = {} /\ bill' = [bill EXCEPT ![i] = pending]
      /\ Sweep("created", todo, cur, pending, i)
  BY DEF CreateInvoice
<1>1. pc = "posting" /\ by' = by /\ lost' = lost /\ pc' = "created" /\ pending' = pending
      /\ made' = i
  BY DEF CreateInvoice, Sweep, readingVars
<1>2. bill'[i] = pending /\ \A j \in Invoice \ {i} : bill'[j] = bill[j]
  BY DEF TypeOK
<1>3. MarkedIsBilled'
  <2> SUFFICES ASSUME NEW r \in Reading, by[r] # NoInvoice PROVE r \in bill'[by[r]]
    BY <1>1 DEF MarkedIsBilled
  <2>1. by[r] \in Invoice /\ r \in bill[by[r]]
    BY DEF TypeOK, BillingInv, MarkedIsBilled
  <2> QED
    BY <2>1, <1>2
<1>4. PendingUnbilled' /\ MadeForPending'
  BY <1>1, <1>2 DEF BillingInv, PendingUnbilled, MadeForPending
<1>5. KeptBillsMark'
  BY <1>1, <1>2 DEF BillingInv, KeptBillsMark
<1> QED
  BY <1>3, <1>4, <1>5 DEF BillingInv

(* Marking makes the invoice one of those whose readings carry it; no      *)
(* reading of another such invoice is among them, since those are marked.  *)
LEMMA MarkBilledStep ==
  ASSUME TypeOK, BillingInv, MarkBilled
  PROVE  BillingInv'
<1>1. pc = "created" /\ pc' = "saving" /\ bill' = bill /\ lost' = lost
      /\ by' = [r \in Reading |-> IF r \in pending THEN made ELSE by[r]]
  BY DEF MarkBilled, Sweep, billVars
<1>2. made \in Invoice /\ bill[made] = pending /\ pending \subseteq Reading
      /\ \A r \in pending : by[r] = NoInvoice
  BY <1>1 DEF TypeOK, BillingInv, MadeForPending, PendingUnbilled
<1>3. MarkedIsBilled'
  BY <1>1, <1>2 DEF BillingInv, MarkedIsBilled
<1>4. KeptBillsMark'
  <2> SUFFICES ASSUME NEW i \in Invoice, i \notin lost, NEW r \in bill[i] PROVE by'[r] = i
    BY <1>1 DEF KeptBillsMark
  <2>0. r \in Reading
    BY DEF TypeOK
  <2>1. CASE i = made
    BY <2>0, <2>1, <1>1, <1>2
  <2>2. CASE i # made
    <3>1. by[r] = i
      BY <2>2 DEF BillingInv, KeptBillsMark
    <3> QED
      BY <3>1, <2>0, <1>1, <1>2, ContractsAssumption
  <2> QED
    BY <2>1, <2>2
<1> QED
  BY <1>1, <1>3, <1>4 DEF BillingInv, PendingUnbilled, MadeForPending

LEMMA SweepKeepsBilling ==
  ASSUME TypeOK, BillingInv, SweepStep \/ TurnFails \/ Restart
  PROVE  BillingInv'
<1>1. CASE StartSweep
  BY <1>1 DEF StartSweep, Sweep, readingVars, billVars, BillingInv, MarkedIsBilled,
              PendingUnbilled, MadeForPending, KeptBillsMark
<1>2. CASE TakeTurn
  BY <1>2 DEF TakeTurn, Sweep, Unbilled, readingVars, billVars, BillingInv, MarkedIsBilled,
              PendingUnbilled, MadeForPending, KeptBillsMark
<1>3. CASE CreateInvoice
  BY <1>3, CreateInvoiceStep
<1>4. CASE MarkBilled
  BY <1>4, MarkBilledStep
<1>5. CASE Advance
  BY <1>5 DEF Advance, GoOn, Sweep, readingVars, billVars, BillingInv, MarkedIsBilled,
              PendingUnbilled, MadeForPending, KeptBillsMark
<1>6. CASE TurnFails
  BY <1>6 DEF TurnFails, Dropped, GoOn, Sweep, readingVars, billVars, BillingInv, MarkedIsBilled,
              PendingUnbilled, MadeForPending, KeptBillsMark
<1>7. CASE Restart
  BY <1>7 DEF Restart, Dropped, Sweep, readingVars, billVars, BillingInv, MarkedIsBilled,
              PendingUnbilled, MadeForPending, KeptBillsMark
<1>8. CASE InvoiceRefused
  BY <1>8 DEF InvoiceRefused, Sweep, readingVars, billVars, BillingInv, MarkedIsBilled,
              PendingUnbilled, MadeForPending, KeptBillsMark
<1> QED
  BY <1>1, <1>2, <1>3, <1>4, <1>5, <1>6, <1>7, <1>8 DEF SweepStep

----------------------------------------------------------------------------
(* The theorems.                                                           *)

(* Every step keeps the invariant, whatever screens and sweep do.          *)
LEMMA SInvStep ==
  ASSUME SInv, [Next]_vars
  PROVE  SInv'
<1>1. CASE \E c \in Contract : ScreenStep(c)
  BY <1>1, ScreenTypes, ScreenKeepsBilling DEF SInv
<1>2. CASE SweepStep \/ TurnFails \/ Restart
  BY <1>2, SweepTypes, SweepKeepsBilling DEF SInv
<1>3. CASE UNCHANGED vars
  BY <1>3 DEF vars, contractVars, signVars, readingVars, billVars, sweepVars, SInv, TypeOK,
              BillingInv, MarkedIsBilled, PendingUnbilled, MadeForPending, KeptBillsMark
<1> QED
  BY <1>1, <1>2, <1>3 DEF Next

(* The strengthened invariant holds in every reachable state.              *)
THEOREM BillingInvariantHolds == Spec => []SInv
<1>1. SInv /\ [Next]_vars => SInv'
  BY SInvStep
<1> QED
  BY SInvInit, <1>1, PTL DEF Spec

(* Every column, bill and step of the sweep keeps its type.                *)
THEOREM ContractTypes == Spec => []TypeOK
<1>1. SInv => TypeOK
  BY DEF SInv
<1> QED
  BY <1>1, BillingInvariantHolds, PTL

(* fsmaBillingJob marks no reading that the invoice does not charge, for   *)
(* any number of contracts, readings and bills.                            *)
THEOREM MarkedReadingsAreBilled == Spec => []MarkedIsBilled
<1>1. SInv => MarkedIsBilled
  BY DEF SInv, BillingInv
<1> QED
  BY <1>1, BillingInvariantHolds, PTL

(* A reading is on two bills only if the sweep stopped or failed between   *)
(* the creation of one of them and the marking of its readings.            *)
THEOREM DoubleChargeNeedsLoss == Spec => []BilledTwiceOnlyAfterLoss
<1>1. ASSUME SInv PROVE BilledTwiceOnlyAfterLoss
  <2> SUFFICES ASSUME NEW i \in Invoice, NEW j \in Invoice, i # j,
                      i \notin lost, j \notin lost, NEW r \in bill[i] \cap bill[j]
               PROVE FALSE
    BY DEF BilledTwiceOnlyAfterLoss
  <2>1. ~ (pc = "created" /\ made = i) => by[r] = i
    BY <1>1 DEF SInv, BillingInv, KeptBillsMark
  <2>2. ~ (pc = "created" /\ made = j) => by[r] = j
    BY <1>1 DEF SInv, BillingInv, KeptBillsMark
  <2>3. pc = "created" /\ made \in {i, j} => by[r] = NoInvoice
    BY <1>1 DEF SInv, BillingInv, MadeForPending, PendingUnbilled
  <2> QED
    BY <2>1, <2>2, <2>3, ContractsAssumption
<1> QED
  BY <1>1, BillingInvariantHolds, PTL
=============================================================================
