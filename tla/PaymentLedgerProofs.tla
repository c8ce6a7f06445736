------------------------- MODULE PaymentLedgerProofs -------------------------
(***************************************************************************)
(* The invariants of PaymentLedger, for any payments, amounts and number   *)
(* of handlers, in two parts.                                              *)
(*                                                                         *)
(* MInv, who works on what: a direct payment is recorded by one handler,   *)
(* from its submission to its posting, during which it has neither entry   *)
(* nor cheque; a requested cash payment is booked by the commit that       *)
(* credits it, refused the second time; and a cheque is booked by a clear  *)
(* that inserted its entry before any other.  This gives BookedOnce.       *)
(*                                                                         *)
(* LInv, what the amounts add up to: see the second half.  It gives TypeOK,*)
(* CashIsBooked and PaidInFull.                                            *)
(***************************************************************************)
EXTENDS PaymentLedger, SumTheorems, TLAPS

USE DEF invoice, ledger, books, cash, vars

\* The steps of recordPayment.
Recording == {"saving", "preferring", "ledger", "updating", "settling", "posting",
              "filing", "moving"}

RowTypes ==
  /\ credited \in [Payment -> Nat]
  /\ entries \in [Payment -> Nat]
  /\ DOMAIN cheque = Payment /\ cheque = [p \in Payment |-> cheque[p]]
  /\ DOMAIN work = Handler /\ work = [h \in Handler |-> work[h]]

\* What a handler that records p relies on: p is its own.
Records(h) ==
  LET p == work[h].p IN
  /\ p \notin Requested
  /\ cheque[p] = "NONE" /\ entries[p] = 0
  /\ credited[p] = (IF work[h].pc = "saving" THEN 0 ELSE 1)
  /\ work[h].pc = "filing" => p \in ByCheque
  /\ work[h].pc = "moving" => p \notin ByCheque
  /\ \A g \in Handler \ {h} : work[g].pc = "idle" \/ work[g].p # p

\* What a handler that clears the cheque p relies on: its entry is the first.
Clears(h) ==
  LET p == work[h].p IN
  /\ entries[p] = 0
  /\ \A g \in Handler \ {h} : work[g].pc = "crediting" => work[g].p # p

JobFits(h) ==
  /\ work[h].pc # "idle" => work[h].p \in Payment
  /\ work[h].pc \in Recording => Records(h)
  /\ work[h].pc \in {"reviewing", "guarded", "booking"} => work[h].p \in Requested
  /\ work[h].pc \in {"loaded", "crediting", "reversing"} => cheque[work[h].p] # "NONE"
  /\ work[h].pc = "crediting" => Clears(h)
  /\ work[h].pc = "reversing" => work[h].to \in {"BOUNCED", "CANCELLED"}

\* What the rows of a payment have to do with each other, whatever runs.
RowsFit(p) ==
  /\ p \notin Requested /\ credited[p] = 0 => cheque[p] = "NONE" /\ entries[p] = 0
  /\ p \notin Requested => credited[p] <= 1
  /\ p \in Requested \ ByCheque => entries[p] = credited[p]
  /\ cheque[p] # "NONE" => p \in ByCheque
  /\ entries[p] <= 1

MInv ==
  /\ RowTypes
  /\ \A h \in Handler : JobFits(h)
  /\ \A p \in Payment : RowsFit(p)

LEMMA InitMInv == Init => MInv
BY PaymentAssumption DEF Init, MInv, RowTypes, JobFits, RowsFit, Recording, Idle

LEMMA MInvBookedOnce == MInv => BookedOnce
BY PaymentAssumption DEF MInv, RowTypes, RowsFit, BookedOnce

\* Steps that touch neither credit, cheque nor entry and leave a handler idle
\* or at a later step of what it does, for the same payment.
LEMMA PassingOn ==
  ASSUME MInv, NEW h \in Handler, NEW job,
         work' = [work EXCEPT ![h] = job],
         UNCHANGED <<credited, cheque, entries>>,
         job.pc # "idle" => job.p = work[h].p /\ work[h].pc # "idle",
         job.pc \in Recording => work[h].pc \in Recording \ {"saving"} /\ job.pc # "saving",
         job.pc = "filing" => work[h].p \in ByCheque,
         job.pc = "moving" => work[h].p \notin ByCheque,
         job.pc \in {"reviewing", "guarded", "booking"} => work[h].p \in Requested,
         job.pc \in {"loaded", "crediting", "reversing"} => cheque[work[h].p] # "NONE",
         job.pc = "reversing" => job.to \in {"BOUNCED", "CANCELLED"},
         job.pc = "crediting" =>
           /\ entries[work[h].p] = 0
           /\ \A g \in Handler : work[g].pc = "crediting" => work[g].p # work[h].p
  PROVE  MInv'
<1>1. /\ work'[h] = job
      /\ \A g \in Handler \ {h} : work'[g] = work[g]
  BY DEF MInv, RowTypes
<1>2. RowTypes'
  BY DEF MInv, RowTypes
<1>3. ASSUME NEW g \in Handler PROVE JobFits(g)'
  <2>1. CASE g = h
    BY <1>1, <2>1 DEF MInv, RowTypes, JobFits, Records, Clears, Recording
  <2>2. CASE g # h
    BY <1>1, <2>2 DEF MInv, RowTypes, JobFits, Records, Clears, Recording
  <2>. QED
    BY <2>1, <2>2
<1>4. ASSUME NEW p \in Payment PROVE RowsFit(p)'
  BY DEF MInv, RowsFit
<1>. QED
  BY <1>2, <1>3, <1>4 DEF MInv

LEMMA RecordingKeeps ==
  ASSUME MInv, NEW h \in Handler,
         \/ SavePreferred(h) \/ FindLedger(h) \/ SaveLedger(h) \/ SettleInvoice(h)
         \/ StartPosting(h)
  PROVE  MInv'
<1>. USE PassingOn DEF Recording, At, Continue, Goto, GoPost
<1>1. CASE SavePreferred(h)
  BY <1>1 DEF SavePreferred
<1>2. CASE FindLedger(h)
  BY <1>2 DEF FindLedger
<1>3. CASE SaveLedger(h)
  BY <1>3 DEF SaveLedger
<1>4. CASE SettleInvoice(h)
  BY <1>4 DEF SettleInvoice
<1>5. CASE StartPosting(h)
  BY <1>5 DEF StartPosting, Finish, Idle
<1>. QED
  BY <1>1, <1>2, <1>3, <1>4, <1>5

LEMMA ReviewKeeps ==
  ASSUME MInv, NEW h \in Handler,
         RejectSalePayment(h) \/ StartApproval(h) \/ UpdateLedger(h)
  PROVE  MInv'
<1>. USE PassingOn DEF Recording, At, Finish, Idle, MInv, JobFits
<1>1. CASE RejectSalePayment(h)
  BY <1>1 DEF RejectSalePayment
<1>2. CASE StartApproval(h)
  BY <1>2 DEF StartApproval
<1>3. CASE UpdateLedger(h)
  BY <1>3 DEF UpdateLedger
<1>. QED
  BY <1>1, <1>2, <1>3

\* The insertion of a clear's entry waits for the others and finds none.
LEMMA ChequeKeeps ==
  ASSUME MInv, NEW h \in Handler, StartClearing(h) \/ StartDishonour(h) \/ Fail(h)
  PROVE  MInv'
<1>. USE PassingOn DEF Recording, At, Loaded, Finish, Idle, MInv, JobFits
<1>1. CASE StartClearing(h)
  <2>. DEFINE p == work[h].p
  <2>1. p \in Payment /\ entries[p] \in Nat /\ cheque[p] # "NONE"
    BY <1>1 DEF StartClearing, RowTypes
  <2>2. CASE AlreadyBooked(p)
    BY <1>1, <2>2 DEF StartClearing
  <2>3. CASE ~AlreadyBooked(p)
    <3>1. entries[p] = 0
      BY <2>1, <2>3 DEF AlreadyBooked
    <3>. QED
      BY <1>1, <2>1, <2>3, <3>1 DEF StartClearing
  <2>. QED
    BY <2>2, <2>3
<1>2. CASE StartDishonour(h)
  BY <1>2 DEF StartDishonour, Dishonoured
<1>3. CASE Fail(h)
  BY <1>3 DEF Fail
<1>. QED
  BY <1>1, <1>2, <1>3

\* A request that arrives: nobody records the payment it is about.
LEMMA ArrivalKeeps ==
  ASSUME MInv, NEW h \in Handler, NEW p \in Payment,
         RecordPayment(h, p) \/ Review(h, p) \/ LoadCheque(h, p)
  PROVE  MInv'
<1>. USE DEF RecordPayment, Review, LoadCheque, Free
<1>1. /\ work'[h].p = p
      /\ work'[h].pc \in {"saving", "reviewing", "loaded"}
      /\ work[h].pc = "idle"
      /\ \A g \in Handler \ {h} : work'[g] = work[g]
      /\ UNCHANGED <<credited, cheque, entries>>
  BY DEF MInv, RowTypes
<1>2. RowTypes'
  BY DEF MInv, RowTypes
<1>3. \A q \in Payment : RowsFit(q)'
  BY <1>1 DEF MInv, RowsFit
<1>4. ASSUME NEW g \in Handler PROVE JobFits(g)'
  <2>1. CASE g = h
    <3>1. CASE RecordPayment(h, p)
      <4>1. work'[h].pc = "saving"
        BY <3>1 DEF MInv, RowTypes
      <4>2. p \notin Requested /\ credited[p] = 0 /\ cheque[p] = "NONE" /\ entries[p] = 0
        BY <3>1 DEF MInv, RowsFit
      <4>3. \A f \in Handler \ {h} : work[f].pc = "idle" \/ work[f].p # p
        BY <3>1
      <4>. QED
        BY <1>1, <2>1, <4>1, <4>2, <4>3 DEF JobFits, Records, Recording
    <3>2. CASE Review(h, p)
      <4>1. work'[h].pc = "reviewing" /\ p \in Requested
        BY <3>2 DEF MInv, RowTypes
      <4>. QED
        BY <1>1, <2>1, <4>1 DEF JobFits, Recording
    <3>3. CASE LoadCheque(h, p)
      <4>1. work'[h].pc = "loaded" /\ cheque[p] # "NONE"
        BY <3>3 DEF MInv, RowTypes
      <4>. QED
        BY <1>1, <2>1, <4>1 DEF JobFits, Recording
    <3>. QED
      BY <3>1, <3>2, <3>3
  <2>2. CASE g # h
    <3>1. work[g].pc \in Recording => work[g].p # p
      BY <2>2 DEF MInv, JobFits, Records, Recording
    <3>. QED
      BY <1>1, <2>2, <3>1 DEF MInv, JobFits, Records, Clears, Recording
  <2>. QED
    BY <2>1, <2>2
<1>. QED
  BY <1>2, <1>3, <1>4 DEF MInv

\* A step of h that writes the rows of p and no other's, while nobody else
\* records p, and nobody else clears p if p gets an entry.
Writes(h, p) ==
  /\ p = work[h].p /\ work[h].pc # "idle"
  /\ \A g \in Handler \ {h} : work'[g] = work[g]
  /\ work'[h].pc # "idle" => work'[h].p = p
  /\ \A q \in Payment \ {p} :
       credited'[q] = credited[q] /\ entries'[q] = entries[q] /\ cheque'[q] = cheque[q]
  /\ \A g \in Handler \ {h} : work[g].pc \in Recording => work[g].p # p
  /\ \A g \in Handler \ {h} : work[g].pc = "crediting" => work[g].p # p \/ entries'[p] = 0
  /\ cheque[p] # "NONE" => cheque'[p] # "NONE"

LEMMA WritingKeeps ==
  ASSUME MInv, NEW h \in Handler, NEW p \in Payment, Writes(h, p),
         RowTypes', RowsFit(p)', JobFits(h)'
  PROVE  MInv'
<1>. USE DEF Writes
<1>1. \A g \in Handler \ {h} : work'[g] = work[g]
  OBVIOUS
<1>2. RowTypes'
  OBVIOUS
<1>3. ASSUME NEW g \in Handler PROVE JobFits(g)'
  <2>1. CASE g # h
    <3>1. work[g].pc \in Recording => Records(g)'
      <4>1. SUFFICES ASSUME work[g].pc \in Recording PROVE Records(g)'
        OBVIOUS
      <4>2. Records(g) /\ work[g].p \in Payment \ {p}
        BY <2>1, <4>1 DEF MInv, JobFits, Recording
      <4>3. \A f \in Handler \ {g} : work'[f].pc = "idle" \/ work'[f].p # work[g].p
        BY <1>1, <2>1, <4>2 DEF JobFits, Records, MInv, RowTypes
      <4>. QED
        BY <1>1, <2>1, <4>2, <4>3 DEF Records
    <3>. QED
      BY <1>1, <2>1, <3>1 DEF MInv, JobFits, Clears
  <2>. QED
    BY <2>1
<1>4. \A q \in Payment : RowsFit(q)'
  BY DEF MInv, RowsFit
<1>. QED
  BY <1>2, <1>3, <1>4 DEF MInv

\* A payment being recorded has its rows to itself.
LEMMA RecordingWrites ==
  ASSUME MInv, NEW h \in Handler,
         SaveTransaction(h) \/ FileCheque(h) \/ PostCashbookEntry(h)
  PROVE  MInv'
<1>0. PICK p : p = work[h].p
  OBVIOUS
<1>. DEFINE Elsewhere == \A q \in Payment \ {p} :
  credited'[q] = credited[q] /\ entries'[q] = entries[q] /\ cheque'[q] = cheque[q]
<1>1. work[h].pc \in {"saving", "filing", "moving"}
  BY DEF SaveTransaction, FileCheque, PostCashbookEntry, At
<1>2. p \in Payment /\ Records(h)
  BY <1>0, <1>1 DEF MInv, JobFits, Recording
<1>3. /\ credited[p] \in Nat /\ entries[p] = 0 /\ cheque[p] = "NONE" /\ p \notin Requested
      /\ work[h].pc # "idle"
  BY <1>0, <1>1, <1>2 DEF Records, MInv, RowTypes
<1>4. \A g \in Handler \ {h} : /\ work[g].pc \in Recording => work[g].p # p
                               /\ work[g].pc = "crediting" => work[g].p # p
  BY <1>0, <1>2 DEF Records, Recording
<1>5. CASE SaveTransaction(h)
  <2>1. /\ work' = [work EXCEPT ![h] = work'[h]]
        /\ \A g \in Handler \ {h} : work'[g] = work[g]
        /\ work'[h].pc \in {"preferring", "ledger"} /\ work'[h].p = p
    BY <1>0, <1>5 DEF SaveTransaction, Goto, Continue, MInv, RowTypes
  <2>2. credited' = [credited EXCEPT ![p] = 1] /\ UNCHANGED <<cheque, entries>>
    BY <1>0, <1>2, <1>5 DEF SaveTransaction, At, Records, MInv, RowTypes
  <2>3. RowsFit(p)'
    BY <1>0, <1>2, <1>3, <2>2 DEF RowsFit, MInv, RowTypes
  <2>4. JobFits(h)'
    BY <1>0, <1>2, <2>1, <2>2 DEF JobFits, Records, Recording, MInv, RowTypes
  <2>5. RowTypes' /\ Elsewhere
    BY <1>0, <2>1, <2>2 DEF MInv, RowTypes
  <2>6. Writes(h, p)
    BY <1>0, <1>2, <1>3, <1>4, <2>1, <2>3, <2>4, <2>5 DEF Writes
  <2>. QED
    BY <1>2, <2>3, <2>4, <2>5, <2>6, WritingKeeps
<1>6. CASE FileCheque(h)
  <2>1. /\ work' = [work EXCEPT ![h] = Idle] /\ work'[h].pc = "idle"
        /\ \A g \in Handler \ {h} : work'[g] = work[g]
        /\ p \in ByCheque /\ credited[p] = 1
    BY <1>0, <1>2, <1>6 DEF FileCheque, Finish, At, Records, Idle, MInv, RowTypes
  <2>2. cheque' = [cheque EXCEPT ![p] = "PENDING"] /\ UNCHANGED <<credited, entries>>
    BY <1>0, <1>6 DEF FileCheque
  <2>3. RowsFit(p)'
    BY <1>0, <1>2, <1>3, <2>1, <2>2 DEF RowsFit, MInv, RowTypes
  <2>4. JobFits(h)'
    BY <1>0, <2>1 DEF JobFits, Recording, Idle, MInv, RowTypes
  <2>5. RowTypes' /\ Elsewhere
    BY <1>0, <2>1, <2>2 DEF MInv, RowTypes
  <2>6. Writes(h, p)
    BY <1>0, <1>2, <1>3, <1>4, <2>1, <2>3, <2>4, <2>5 DEF Writes
  <2>. QED
    BY <1>2, <2>3, <2>4, <2>5, <2>6, WritingKeeps
<1>7. CASE PostCashbookEntry(h)
  <2>1. /\ work' = [work EXCEPT ![h] = Idle] /\ work'[h].pc = "idle"
        /\ \A g \in Handler \ {h} : work'[g] = work[g]
        /\ p \notin ByCheque /\ credited[p] = 1
    BY <1>0, <1>2, <1>7 DEF PostCashbookEntry, Finish, At, Records, Idle, MInv, RowTypes
  <2>2. entries' = [entries EXCEPT ![p] = 1] /\ UNCHANGED <<credited, cheque>>
    <3>1. entries' = [entries EXCEPT ![p] = @ + 1]
      BY <1>0, <1>7 DEF PostCashbookEntry, Book
    <3>2. UNCHANGED <<credited, cheque>>
      BY <1>7 DEF PostCashbookEntry
    <3>. QED
      BY <1>3, <3>1, <3>2
  <2>3. RowsFit(p)'
    BY <1>0, <1>2, <1>3, <2>1, <2>2 DEF RowsFit, MInv, RowTypes
  <2>4. JobFits(h)'
    BY <1>0, <2>1 DEF JobFits, Recording, Idle, MInv, RowTypes
  <2>5. RowTypes' /\ Elsewhere
    BY <1>0, <2>1, <2>2 DEF MInv, RowTypes
  <2>6. Writes(h, p)
    BY <1>0, <1>2, <1>3, <1>4, <2>1, <2>3, <2>4, <2>5 DEF Writes
  <2>. QED
    BY <1>2, <2>3, <2>4, <2>5, <2>6, WritingKeeps
<1>. QED
  BY <1>5, <1>6, <1>7

\* A commit that approves a request books cash that is not booked, or nothing.
LEMMA ApprovalWrites == ASSUME MInv, NEW h \in Handler, CommitApproval(h) PROVE MInv'
<1>0. PICK p : p = work[h].p
  OBVIOUS
<1>1. work[h].pc = "booking"
  BY DEF CommitApproval, At
<1>2. p \in Payment /\ p \in Requested
  BY <1>0, <1>1 DEF MInv, JobFits
<1>3. credited[p] \in Nat /\ entries[p] \in Nat
  BY <1>2 DEF MInv, RowTypes
<1>4. /\ work' = [work EXCEPT ![h] = Idle] /\ work'[h].pc = "idle"
      /\ \A g \in Handler \ {h} : work'[g] = work[g]
  BY DEF CommitApproval, Finish, Idle, MInv, RowTypes
<1>5. CASE p \notin ByCheque /\ AlreadyBooked(p)
  <2>1. UNCHANGED <<credited, cheque, entries>>
    BY <1>0, <1>5 DEF CommitApproval
  <2>. QED
    BY <1>4, <2>1, PassingOn DEF Idle, Recording
<1>6. CASE p \in ByCheque \/ ~AlreadyBooked(p)
  <2>1. credited' = [credited EXCEPT ![p] = @ + 1]
    BY <1>0, <1>6 DEF CommitApproval
  <2>2. /\ p \in ByCheque => entries' = entries
        /\ p \notin ByCheque => entries' = [entries EXCEPT ![p] = @ + 1] /\ entries[p] = 0
    BY <1>0, <1>3, <1>6 DEF CommitApproval, Book, AlreadyBooked
  <2>3. cheque' = cheque \/ (p \in ByCheque /\ cheque' = [cheque EXCEPT ![p] = "PENDING"])
    <3>1. /\ p \in ByCheque =>
               cheque' = IF work[h].dup THEN cheque ELSE [cheque EXCEPT ![p] = "PENDING"]
          /\ p \notin ByCheque => cheque' = cheque
      BY <1>0, <1>6, Zenon DEF CommitApproval
    <3>. QED
      BY <3>1
  <2>4. RowsFit(p)'
    <3>1. RowsFit(p)
      BY <1>2 DEF MInv
    <3>5. credited'[p] = credited[p] + 1
      BY <1>2, <2>1 DEF MInv, RowTypes
    <3>2. p \in ByCheque => entries'[p] = entries[p]
      BY <2>2
    <3>3. p \notin ByCheque => entries'[p] = 1 /\ entries[p] = 0
      BY <1>2, <2>2 DEF MInv, RowTypes
    <3>4. cheque'[p] # "NONE" => p \in ByCheque
      BY <1>2, <2>3, <3>1 DEF RowsFit
    <3>. QED
      BY <1>2, <1>3, <3>1, <3>2, <3>3, <3>4, <3>5 DEF RowsFit
  <2>5. JobFits(h)'
    BY <1>4 DEF JobFits, Recording
  <2>6. RowTypes'
    <3>1. credited' \in [Payment -> Nat] /\ entries' \in [Payment -> Nat]
      BY <1>2, <2>1, <2>2 DEF MInv, RowTypes
    <3>2. DOMAIN cheque' = Payment /\ cheque' = [q \in Payment |-> cheque'[q]]
      BY <2>3 DEF MInv, RowTypes
    <3>3. DOMAIN work' = Handler /\ work' = [g \in Handler |-> work'[g]]
      BY <1>4 DEF MInv, RowTypes
    <3>. QED
      BY <3>1, <3>2, <3>3 DEF RowTypes
  <2>7. \A q \in Payment \ {p} :
          credited'[q] = credited[q] /\ entries'[q] = entries[q] /\ cheque'[q] = cheque[q]
    BY <2>1, <2>2, <2>3 DEF MInv, RowTypes
  <2>8. \A g \in Handler \ {h} : work[g].pc \in Recording => work[g].p # p
    BY <1>2 DEF MInv, JobFits, Records
  <2>9. \A g \in Handler \ {h} : work[g].pc = "crediting" => work[g].p # p \/ entries'[p] = 0
    BY <1>2, <2>2 DEF MInv, JobFits, Clears, RowsFit
  <2>10. cheque[p] # "NONE" => cheque'[p] # "NONE"
    BY <1>2, <2>3 DEF MInv, RowTypes
  <2>11. Writes(h, p)
    BY <1>0, <1>1, <1>4, <2>7, <2>8, <2>9, <2>10 DEF Writes
  <2>. QED
    BY <1>2, <2>4, <2>5, <2>6, <2>11, WritingKeeps
<1>. QED
  BY <1>5, <1>6

\* A cheque that has been filed is of a payment nobody records any more.
LEMMA ChequeWrites ==
  ASSUME MInv, NEW h \in Handler,
         \/ DepositCheque(h) \/ ClearCheque(h) \/ DishonourUncredited(h) \/ ReverseCredit(h)
  PROVE  MInv'
<1>0. PICK p : p = work[h].p
  OBVIOUS
<1>1. work[h].pc \in {"loaded", "crediting", "reversing"}
  BY DEF DepositCheque, ClearCheque, DishonourUncredited, ReverseCredit, Loaded, At
<1>2. p \in Payment /\ cheque[p] # "NONE" /\ p \in ByCheque
  BY <1>0, <1>1 DEF MInv, JobFits, RowsFit
<1>3. /\ work' = [work EXCEPT ![h] = Idle] /\ work'[h].pc = "idle"
      /\ \A g \in Handler \ {h} : work'[g] = work[g]
  BY DEF DepositCheque, ClearCheque, DishonourUncredited, ReverseCredit, SaveCheque, Finish,
     Idle, MInv, RowTypes
<1>4. /\ DOMAIN cheque' = Payment /\ cheque' = [q \in Payment |-> cheque'[q]]
      /\ cheque'[p] # "NONE"
      /\ \A q \in Payment \ {p} : cheque'[q] = cheque[q]
  <2>1. ASSUME NEW s, s # "NONE", SaveCheque(h, s)
        PROVE  /\ DOMAIN cheque' = Payment /\ cheque' = [q \in Payment |-> cheque'[q]]
               /\ cheque'[p] # "NONE"
               /\ \A q \in Payment \ {p} : cheque'[q] = cheque[q]
    BY <1>0, <1>2, <2>1 DEF SaveCheque, MInv, RowTypes
  <2>2. \E s : s # "NONE" /\ SaveCheque(h, s)
    <3>1. CASE DepositCheque(h)
      BY <3>1 DEF DepositCheque
    <3>2. CASE ClearCheque(h)
      BY <3>2 DEF ClearCheque
    <3>3. CASE DishonourUncredited(h)
      BY <3>3 DEF DishonourUncredited, Dishonoured
    <3>4. CASE ReverseCredit(h)
      <4>1. work[h].to # "NONE"
        BY <3>4 DEF ReverseCredit, At, MInv, JobFits
      <4>. QED
        BY <3>4, <4>1 DEF ReverseCredit
    <3>. QED
      BY <3>1, <3>2, <3>3, <3>4
  <2>. QED
    BY <2>1, <2>2
<1>5. \A g \in Handler \ {h} : work[g].pc \in Recording => work[g].p # p
  BY <1>2 DEF MInv, JobFits, Records
<1>6. JobFits(h)'
  BY <1>3 DEF JobFits, Recording
<1>7. CASE ClearCheque(h)
  <2>1. Clears(h)
    BY <1>7 DEF ClearCheque, At, MInv, JobFits
  <2>2. entries' = [entries EXCEPT ![p] = @ + 1] /\ entries[p] = 0 /\ UNCHANGED credited
    BY <1>0, <1>7, <2>1 DEF ClearCheque, Book, Clears
  <2>3. RowsFit(p)'
    BY <1>2, <1>4, <2>2 DEF RowsFit, MInv, RowTypes
  <2>4. RowTypes'
    BY <1>2, <1>3, <1>4, <2>2 DEF MInv, RowTypes
  <2>5. Writes(h, p)
    BY <1>0, <1>1, <1>2, <1>3, <1>4, <1>5, <2>1, <2>2 DEF Writes, Clears, MInv, RowTypes
  <2>. QED
    BY <1>2, <1>6, <2>3, <2>4, <2>5, WritingKeeps
<1>8. CASE ~ClearCheque(h)
  <2>1. UNCHANGED <<credited, entries>>
    BY <1>8 DEF DepositCheque, DishonourUncredited, ReverseCredit
  <2>2. RowsFit(p)'
    BY <1>2, <1>4, <2>1 DEF RowsFit, MInv, RowTypes
  <2>3. RowTypes'
    BY <1>2, <1>3, <1>4, <2>1 DEF MInv, RowTypes
  <2>4. \A g \in Handler \ {h} : work[g].pc = "crediting" => work[g].p # p \/ entries'[p] = 0
    BY <2>1 DEF MInv, JobFits, Clears
  <2>5. Writes(h, p)
    BY <1>0, <1>1, <1>2, <1>3, <1>4, <1>5, <2>1, <2>4 DEF Writes
  <2>. QED
    BY <1>2, <1>6, <2>2, <2>3, <2>5, WritingKeeps
<1>. QED
  BY <1>7, <1>8

\* Everything else.
LEMMA OthersKeep ==
  ASSUME MInv,
         Activate \/ Restart \/ (\E p \in Payment : CreateSalePaymentRequest(p)) \/ UNCHANGED vars
  PROVE  MInv'
<1>1. UNCHANGED <<credited, cheque, entries>>
  BY DEF Activate, Restart, CreateSalePaymentRequest
<1>2. UNCHANGED work \/ work' = [h \in Handler |-> Idle]
  BY DEF Activate, Restart, CreateSalePaymentRequest
<1>3. RowTypes' /\ \A p \in Payment : RowsFit(p)'
  BY <1>1, <1>2 DEF MInv, RowTypes, RowsFit
<1>4. \A h \in Handler : JobFits(h)'
  <2>1. CASE UNCHANGED work
    BY <1>1, <2>1 DEF MInv, JobFits, Records, Clears
  <2>2. CASE work' = [h \in Handler |-> Idle]
    BY <2>2 DEF JobFits, Recording, Idle
  <2>. QED
    BY <1>2, <2>1, <2>2
<1>. QED
  BY <1>3, <1>4 DEF MInv

LEMMA NextKeeps == MInv /\ [Next]_vars => MInv'
<1>1. SUFFICES ASSUME MInv, [Next]_vars PROVE MInv'
  OBVIOUS
<1>2. ASSUME NEW h \in Handler, HandlerStep(h) PROVE MInv'
  BY <1>1, <1>2, RecordingKeeps, ReviewKeeps, ChequeKeeps, ArrivalKeeps, RecordingWrites,
     ApprovalWrites, ChequeWrites DEF HandlerStep
<1>. QED
  BY <1>1, <1>2, OthersKeep DEF Next

\* Whatever overlaps, fails or restarts, a payment has at most one cashbook
\* entry, and cash that is booked is credited exactly once.
THEOREM PaymentsBookedOnce == Spec => []BookedOnce
<1>1. Spec => []MInv
  BY InitMInv, NextKeeps, PTL DEF Spec
<1>. QED
  BY <1>1, MInvBookedOnce, PTL

-----------------------------------------------------------------------------
(***************************************************************************)
(* Types and amounts.  Every sum of the ledger (Booked, Recorded) only     *)
(* grows, so an amount that a handler has read, or has computed from what  *)
(* it read, stays below it until the handler writes it; this is what keeps *)
(* a balance and a status that are written from stale reads sound.         *)
(***************************************************************************)

Statuses == {"APPROVED", "INVOICED", "PAID"}

\* The steps of recordPayment that hold the invoice, the ledger row and the sum.
Holding == {"saving", "preferring", "ledger", "updating", "settling"}

RowsTyped ==
  /\ status \in Statuses /\ preferred \in BOOLEAN
  /\ request \in [Payment -> {"NONE", "PENDING", "APPROVED", "REJECTED"}]
  /\ credited \in [Payment -> Nat] /\ reversals \in [Payment -> Nat]
  /\ reversed \in [Payment -> BOOLEAN]
  /\ rows \subseteq Payment /\ paid \in [Payment -> Int]
  /\ cheque \in [Payment -> {"NONE", "PENDING", "DEPOSITED", "CLEARED", "BOUNCED", "CANCELLED"}]
  /\ entries \in [Payment -> Nat] /\ balance \in Nat

\* What a handler holds: types.
JobTyped(w) ==
  /\ w.pc # "idle" => w.p \in Payment
  /\ w.pc \in Holding =>
       w.status \in Statuses /\ w.pref \in BOOLEAN /\ w.row \in Payment /\ w.paid \in Int
  /\ w.pc \in {"guarded", "booking"} => w.row \in Payment /\ w.paid \in Int
  /\ w.pc \in {"moving", "crediting", "booking"} => w.seen \in Nat
  /\ w.pc = "loaded" => w.was \in {"PENDING", "DEPOSITED"}
  /\ w.pc = "reversing" => w.q \in Payment /\ w.to \in {"BOUNCED", "CANCELLED"}

\* What a handler holds: amounts covered by what is booked and recorded, now
\* and from now on.
JobCovered(w, booked, recorded) ==
  /\ w.pc \in {"moving", "crediting", "booking"} => w.seen <= booked
  /\ w.pc = "saving" => w.paid <= recorded + TowardsTotal(w.p)
  /\ w.pc \in Holding \ {"saving"} => w.paid <= recorded
  /\ w.pc \in Holding /\ w.status = "PAID" => recorded >= Total
  /\ w.pc = "settling" => w.paid >= Total

LInv ==
  /\ RowsTyped
  /\ \A h \in Handler : JobTyped(work[h]) /\ JobCovered(work[h], Booked, Recorded)
  /\ CashIsBooked
  /\ PaidInFull

LEMMA TimesGrows ==
  ASSUME NEW a \in Nat, NEW b \in Int, NEW c \in Int, b <= c
  PROVE  a * b \in Int /\ a * c \in Int /\ a * b <= a * c
OBVIOUS

LEMMA TimesNext == ASSUME NEW a \in Nat, NEW b \in Int PROVE a * (b + 1) = a * b + a
OBVIOUS

\* The amounts of n[p] payments p each, over the payments in S.
Amounts(n, S) == [p \in S |-> Amount[p] * n[p]]

LEMMA AmountsAdd ==
  ASSUME NEW n \in [Payment -> Int], NEW S \in SUBSET Payment
  PROVE  /\ IsFiniteSet(S)
         /\ \A p \in S : Amounts(n, S)[p] \in Int /\ Amounts(n, S)[p] = Amount[p] * n[p]
         /\ SumFunction(Amounts(n, S)) = SumFunctionOnSet(Amounts(n, S), S)
         /\ SumFunction(Amounts(n, S)) \in Int
<1>1. IsFiniteSet(S)
  BY PaymentAssumption, FS_Subset
<1>2. \A p \in S : Amounts(n, S)[p] \in Int /\ Amounts(n, S)[p] = Amount[p] * n[p]
  BY PaymentAssumption, TimesGrows DEF Amounts
<1>3. SumFunction(Amounts(n, S)) = SumFunctionOnSet(Amounts(n, S), S)
  BY DEF SumFunction, Amounts
<1>. QED
  BY <1>1, <1>2, <1>3, SumInt

LEMMA AmountsGrow ==
  ASSUME NEW m \in [Payment -> Int], NEW n \in [Payment -> Int], NEW S \in SUBSET Payment,
         \A p \in S : m[p] <= n[p]
  PROVE  SumFunction(Amounts(m, S)) <= SumFunction(Amounts(n, S))
<1>1. \A p \in S : Amounts(m, S)[p] <= Amounts(n, S)[p]
  BY PaymentAssumption, TimesGrows DEF Amounts
<1>. QED
  BY <1>1, AmountsAdd, SumMonotone

\* One more payment p adds its amount, if p counts in S.
LEMMA AmountsCountOne ==
  ASSUME NEW n \in [Payment -> Int], NEW S \in SUBSET Payment, NEW p \in Payment
  PROVE  SumFunction(Amounts([n EXCEPT ![p] = @ + 1], S))
           = SumFunction(Amounts(n, S)) + IF p \in S THEN Amount[p] ELSE 0
<1>. DEFINE m == [n EXCEPT ![p] = @ + 1]
<1>1. m \in [Payment -> Int]
  OBVIOUS
<1>2. \A q \in S \ {p} : Amounts(m, S)[q] = Amounts(n, S)[q]
  BY DEF Amounts
<1>3. CASE p \in S
  <2>1. Amount[p] \in Nat /\ n[p] \in Int /\ m[p] = n[p] + 1
    BY PaymentAssumption
  <2>2. Amounts(m, S)[p] = Amounts(n, S)[p] + Amount[p] /\ Amounts(n, S)[p] \in Int
    BY <1>3, <2>1, TimesNext, TimesGrows DEF Amounts
  <2>. HIDE DEF m
  <2>3. SumFunctionOnSet(Amounts(m, S), S)
          = SumFunctionOnSet(Amounts(n, S), S) + (Amounts(m, S)[p] - Amounts(n, S)[p])
    BY <1>1, <1>2, <1>3, AmountsAdd, SumChange
  <2>4. /\ SumFunction(Amounts(m, S)) = SumFunctionOnSet(Amounts(m, S), S)
        /\ SumFunction(Amounts(n, S)) = SumFunctionOnSet(Amounts(n, S), S)
        /\ SumFunction(Amounts(n, S)) \in Int
    BY <1>1, AmountsAdd
  <2>5. SumFunction(Amounts(m, S)) = SumFunction(Amounts(n, S)) + Amount[p]
    BY <2>1, <2>2, <2>3, <2>4
  <2>. QED
    BY <1>3, <2>5 DEF m
<1>4. CASE p \notin S
  <2>1. Amounts(m, S) = Amounts(n, S)
    BY <1>2, <1>4 DEF Amounts
  <2>. QED
    BY <1>4, <2>1, AmountsAdd
<1>. QED
  BY <1>3, <1>4

LEMMA SumsAre ==
  /\ Booked = SumFunction(Amounts(entries, Payment))
  /\ Recorded = SumFunction(Amounts(credited, Settling))
  /\ Booked' = SumFunction(Amounts(entries', Payment))
  /\ Recorded' = SumFunction(Amounts(credited', Settling))
  /\ Settling \subseteq Payment
BY DEF Booked, Recorded, Amounts, Settling

\* Recorded and Booked are numbers that credits and entries only add to.
LEMMA SumsGrow ==
  ASSUME RowsTyped, RowsTyped',
         \A p \in Payment : credited[p] <= credited'[p] /\ entries[p] <= entries'[p]
  PROVE  /\ Booked \in Int /\ Booked' \in Int /\ Booked <= Booked'
         /\ Recorded \in Int /\ Recorded' \in Int /\ Recorded <= Recorded'
<1>1. /\ credited \in [Payment -> Int] /\ credited' \in [Payment -> Int]
      /\ entries \in [Payment -> Int] /\ entries' \in [Payment -> Int]
  BY DEF RowsTyped
<1>. QED
  BY <1>1, SumsAre, AmountsAdd, AmountsGrow

\* What the transactions leave is no more than they credited.
LEMMA PaidSoFarRecorded ==
  ASSUME RowsTyped
  PROVE  PaidSoFar \in Int /\ Recorded \in Int /\ PaidSoFar <= Recorded
<1>. DEFINE net == [p \in Payment |-> credited[p] - reversals[p]]
<1>1. net \in [Payment -> Int] /\ credited \in [Payment -> Int]
  BY DEF RowsTyped
<1>2. \A p \in Payment : net[p] <= credited[p]
  BY DEF RowsTyped
<1>3. PaidSoFar = SumFunction(Amounts(net, Settling))
  <2>1. \A p \in Settling : net[p] = credited[p] - reversals[p]
    BY SumsAre
  <2>. QED
    BY <2>1 DEF PaidSoFar, Amounts
<1>. HIDE DEF net
<1>. QED
  BY <1>1, <1>2, <1>3, SumsAre, AmountsAdd, AmountsGrow

LEMMA InitLInv == Init => LInv
<1>. SUFFICES ASSUME Init PROVE LInv
  OBVIOUS
<1>1. RowsTyped
  <2>1. /\ status \in Statuses /\ preferred \in BOOLEAN
        /\ rows \subseteq Payment /\ balance \in Nat
    BY DEF Init, Statuses
  <2>2. /\ request \in [Payment -> {"NONE", "PENDING", "APPROVED", "REJECTED"}]
        /\ reversed \in [Payment -> BOOLEAN] /\ paid \in [Payment -> Int]
    BY DEF Init
  <2>3. credited \in [Payment -> Nat] /\ reversals \in [Payment -> Nat] /\ entries \in [Payment -> Nat]
    BY DEF Init
  <2>4. cheque \in [Payment -> {"NONE", "PENDING", "DEPOSITED", "CLEARED", "BOUNCED", "CANCELLED"}]
    BY DEF Init
  <2>. QED
    BY <2>1, <2>2, <2>3, <2>4 DEF RowsTyped
<1>2. ASSUME NEW h \in Handler PROVE JobTyped(work[h]) /\ JobCovered(work[h], Booked, Recorded)
  <2>1. work[h].pc = "idle"
    BY DEF Init, Idle
  <2>. QED
    BY <2>1 DEF JobTyped, JobCovered, Holding
<1>3. CashIsBooked
  <2>1. entries \in [Payment -> Int] /\ \A p \in Payment : Amounts(entries, Payment)[p] = 0
    BY PaymentAssumption DEF Init, Amounts
  <2>2. Booked = 0
    BY <2>1, SumsAre, AmountsAdd, SumZero
  <2>. QED
    BY <2>2 DEF Init, CashIsBooked
<1>4. PaidInFull
  BY DEF Init, PaidInFull
<1>. QED
  BY <1>1, <1>2, <1>3, <1>4 DEF LInv

\* Jobs stay covered while the sums grow.
LEMMA CoveredStays ==
  ASSUME NEW w, JobTyped(w), NEW b \in Int, NEW r \in Int, JobCovered(w, b, r),
         NEW c \in Int, NEW s \in Int, b <= c, r <= s
  PROVE  JobCovered(w, c, s)
<1>1. w.pc # "idle" => TowardsTotal(w.p) \in Int
  BY PaymentAssumption DEF JobTyped, TowardsTotal
<1>. QED
  BY <1>1, PaymentAssumption DEF JobTyped, JobCovered, Holding

\* A step of h that leaves the rows typed, credits and entries no smaller, the
\* status sound and the balance covered, and h with a job that fits.
LEMMA StepKeepsLInv ==
  ASSUME MInv, LInv, NEW h \in Handler,
         \A g \in Handler \ {h} : work'[g] = work[g],
         RowsTyped',
         \A p \in Payment : credited[p] <= credited'[p] /\ entries[p] <= entries'[p],
         JobTyped(work'[h]), JobCovered(work'[h], Booked', Recorded'),
         CashIsBooked', PaidInFull'
  PROVE  LInv'
<1>1. /\ Booked \in Int /\ Booked' \in Int /\ Booked <= Booked'
      /\ Recorded \in Int /\ Recorded' \in Int /\ Recorded <= Recorded'
  BY SumsGrow DEF LInv
<1>2. ASSUME NEW g \in Handler
      PROVE  JobTyped(work'[g]) /\ JobCovered(work'[g], Booked', Recorded')
  <2>1. CASE g = h
    BY <2>1
  <2>2. CASE g # h
    BY <1>1, <2>2, CoveredStays DEF LInv
  <2>. QED
    BY <2>1, <2>2
<1>. QED
  BY <1>2 DEF LInv

\* A step of h that only changes what h works on.
LEMMA JobKeepsLInv ==
  ASSUME MInv, LInv, NEW h \in Handler, NEW job, work' = [work EXCEPT ![h] = job],
         UNCHANGED <<invoice, request, books, ledger, cheque, cash>>,
         JobTyped(job), JobCovered(job, Booked, Recorded)
  PROVE  LInv'
<1>1. UNCHANGED <<Booked, Recorded>>
  BY DEF Booked, Recorded
<1>2. RowsTyped' /\ CashIsBooked' /\ PaidInFull'
  BY <1>1 DEF LInv, RowsTyped, CashIsBooked, PaidInFull
<1>3. \A p \in Payment : credited[p] <= credited'[p] /\ entries[p] <= entries'[p]
  BY DEF LInv, RowsTyped
<1>4. work'[h] = job /\ \A g \in Handler \ {h} : work'[g] = work[g]
  BY DEF MInv, RowTypes
<1>. QED
  BY <1>1, <1>2, <1>3, <1>4, StepKeepsLInv

\* What goes for every job at once: an idle one holds nothing.
LEMMA IdleFits ==
  /\ JobTyped(Idle) /\ JobCovered(Idle, Booked, Recorded)
  /\ JobCovered(Idle, Booked', Recorded')
BY DEF JobTyped, JobCovered, Idle, Holding

\* Requests that arrive.  A payment is checked against a sum that is not above
\* what is recorded.
LEMMA ArrivalKeepsLInv ==
  ASSUME MInv, LInv, NEW h \in Handler, NEW p \in Payment,
         RecordPayment(h, p) \/ Review(h, p) \/ LoadCheque(h, p)
  PROVE  LInv'
<1>1. CASE RecordPayment(h, p)
  <2>. DEFINE job == [pc |-> "saving", p |-> p, status |-> status, pref |-> preferred, row |-> p,
                      paid |-> PaidSoFar + TowardsTotal(p),
                      first |-> /\ p \notin Deposit /\ ~preferred
                                /\ \A q \in Settling : credited[q] = 0]
  <2>1. PaidSoFar \in Int /\ Recorded \in Int /\ PaidSoFar <= Recorded /\ TowardsTotal(p) \in Int
    BY PaidSoFarRecorded, PaymentAssumption DEF LInv, TowardsTotal
  <2>2. JobTyped(job)
    BY <2>1 DEF JobTyped, LInv, RowsTyped, Holding
  <2>3. JobCovered(job, Booked, Recorded)
    BY <2>1 DEF JobCovered, LInv, PaidInFull, Holding
  <2>. QED
    BY <1>1, <2>2, <2>3, JobKeepsLInv DEF RecordPayment
<1>2. CASE Review(h, p)
  <2>. DEFINE job == [pc |-> "reviewing", p |-> p]
  <2>1. JobTyped(job) /\ JobCovered(job, Booked, Recorded)
    BY DEF JobTyped, JobCovered, Holding
  <2>. QED
    BY <1>2, <2>1, JobKeepsLInv DEF Review
<1>3. CASE LoadCheque(h, p)
  <2>. DEFINE job == [pc |-> "loaded", p |-> p, was |-> cheque[p]]
  <2>1. JobTyped(job) /\ JobCovered(job, Booked, Recorded)
    BY <1>3 DEF LoadCheque, JobTyped, JobCovered, Holding
  <2>. QED
    BY <1>3, <2>1, JobKeepsLInv DEF LoadCheque
<1>. QED
  BY <1>1, <1>2, <1>3

\* A payment being recorded goes to its next step with what it holds.
LEMMA ContinueFits ==
  ASSUME NEW w, JobTyped(w), NEW b \in Int, NEW r \in Int, JobCovered(w, b, r),
         w.pc \in Holding \ {"saving"},
         NEW pc \in {"ledger", "updating"}, NEW row \in Payment, NEW pref \in BOOLEAN,
         NEW job, job = [pc |-> pc, p |-> w.p, status |-> w.status, pref |-> pref,
                         row |-> row, paid |-> w.paid]
  PROVE  JobTyped(job) /\ JobCovered(job, b, r)
<1>1. /\ w.p \in Payment /\ w.status \in Statuses /\ w.paid \in Int
      /\ w.paid <= r /\ w.status = "PAID" => r >= Total
  BY DEF JobTyped, JobCovered, Holding
<1>2. /\ job.pc = pc /\ job.p = w.p /\ job.status = w.status /\ job.pref = pref
      /\ job.row = row /\ job.paid = w.paid
  OBVIOUS
<1>3. job.pc \in {"ledger", "updating"}
  BY <1>2
<1>. QED
  BY <1>1, <1>2, <1>3 DEF JobTyped, JobCovered, Holding

\* A job at "posting" or "filing" holds nothing but its payment.
LEMMA PostingFits ==
  ASSUME NEW pc \in {"posting", "filing"}, NEW p \in Payment, NEW b, NEW r,
         NEW job, job = [pc |-> pc, p |-> p]
  PROVE  JobTyped(job) /\ JobCovered(job, b, r)
<1>1. job.pc \in {"posting", "filing"} /\ job.p = p
  OBVIOUS
<1>. QED
  BY <1>1 DEF JobTyped, JobCovered, Holding

LEMMA SumsTyped == ASSUME LInv PROVE Booked \in Int /\ Recorded \in Int
<1>1. entries \in [Payment -> Int] /\ credited \in [Payment -> Int]
  BY DEF LInv, RowsTyped
<1>. QED
  BY <1>1, SumsAre, AmountsAdd

LEMMA FindLedgerKeepsLInv ==
  ASSUME MInv, LInv, NEW h \in Handler, FindLedger(h)
  PROVE  LInv'
<1>. DEFINE w == work[h]
            J(pc, row) == [pc |-> pc, p |-> w.p, status |-> w.status, pref |-> w.pref,
                           row |-> row, paid |-> w.paid]
<1>1. w.pc = "ledger" /\ JobTyped(w) /\ JobCovered(w, Booked, Recorded)
  BY DEF FindLedger, At, LInv
<1>2. w.p \in Payment /\ w.row \in Payment /\ w.pref \in BOOLEAN /\ rows \subseteq Payment
  BY <1>1 DEF JobTyped, Holding, LInv, RowsTyped
<1>3. ASSUME NEW row \in Payment, work' = [work EXCEPT ![h] = J("updating", row)]
      PROVE  LInv'
  <2>1. JobTyped(J("updating", row)) /\ JobCovered(J("updating", row), Booked, Recorded)
    BY <1>1, <1>2, ContinueFits, SumsTyped DEF Holding
  <2>. QED
    BY <1>3, <2>1, JobKeepsLInv DEF FindLedger
<1>4. ASSUME work' = [work EXCEPT ![h] = [pc |-> "posting", p |-> w.p]] PROVE LInv'
  <2>1. /\ JobTyped([pc |-> "posting", p |-> w.p])
        /\ JobCovered([pc |-> "posting", p |-> w.p], Booked, Recorded)
    BY <1>2, PostingFits
  <2>. QED
    BY <1>4, <2>1, JobKeepsLInv DEF FindLedger
<1>5. \/ \E row \in Payment : work' = [work EXCEPT ![h] = J("updating", row)]
      \/ work' = [work EXCEPT ![h] = [pc |-> "posting", p |-> w.p]]
  BY <1>2 DEF FindLedger, Continue, Goto, GoPost
<1>. QED
  BY <1>3, <1>4, <1>5

\* Steps that read the account: the balance they keep is booked.
LEMMA ReadingKeepsLInv ==
  ASSUME MInv, LInv, NEW h \in Handler,
         StartPosting(h) \/ StartApproval(h) \/ UpdateLedger(h) \/ StartClearing(h)
  PROVE  LInv'
<1>. DEFINE w == work[h]
<1>1. JobTyped(w) /\ balance \in Nat /\ balance <= Booked /\ paid \in [Payment -> Int]
      /\ rows \subseteq Payment
  BY DEF LInv, CashIsBooked, RowsTyped
<1>2. w.p \in Payment
  BY <1>1 DEF StartPosting, StartApproval, UpdateLedger, StartClearing, Loaded, At, JobTyped
<1>3. ASSUME NEW pc \in {"moving", "crediting"},
             work' = [work EXCEPT ![h] = [pc |-> pc, p |-> w.p, seen |-> balance]]
      PROVE  LInv'
  <2>. DEFINE job == [pc |-> pc, p |-> w.p, seen |-> balance]
  <2>1. job.pc \in {"moving", "crediting"} /\ job.p = w.p /\ job.seen = balance
    OBVIOUS
  <2>2. JobTyped(job) /\ JobCovered(job, Booked, Recorded)
    BY <1>1, <1>2, <2>1 DEF JobTyped, JobCovered, Holding
  <2>. QED
    BY <1>3, <2>2, JobKeepsLInv DEF StartPosting, StartApproval, UpdateLedger, StartClearing
<1>4. ASSUME work' = [work EXCEPT ![h] = Idle] PROVE LInv'
  BY <1>4, IdleFits, JobKeepsLInv DEF StartPosting, StartApproval, UpdateLedger, StartClearing
<1>5. CASE StartPosting(h)
  <2>1. /\ JobTyped([pc |-> "filing", p |-> w.p])
        /\ JobCovered([pc |-> "filing", p |-> w.p], Booked, Recorded)
    BY <1>2, PostingFits
  <2>2. \/ work' = [work EXCEPT ![h] = Idle]
        \/ work' = [work EXCEPT ![h] = [pc |-> "filing", p |-> w.p]]
        \/ work' = [work EXCEPT ![h] = [pc |-> "moving", p |-> w.p, seen |-> balance]]
    BY <1>5 DEF StartPosting, Finish, GoPost
  <2>3. CASE work' = [work EXCEPT ![h] = [pc |-> "filing", p |-> w.p]]
    BY <1>5, <2>1, <2>3, JobKeepsLInv DEF StartPosting
  <2>. QED
    BY <1>3, <1>4, <2>2, <2>3
<1>6. CASE StartApproval(h)
  <2>. DEFINE Open(row) == [pc |-> "guarded", p |-> w.p, row |-> row,
                            paid |-> Amount[w.p] + IF row \in rows THEN paid[row] ELSE 0]
  <2>1. PICK row \in Payment : \/ work' = [work EXCEPT ![h] = Idle]
                               \/ work' = [work EXCEPT ![h] = Open(row)]
    BY <1>1, <1>2, <1>6 DEF StartApproval
  <2>2. Open(row).pc = "guarded" /\ Open(row).p = w.p /\ Open(row).row = row /\ Open(row).paid \in Int
    BY <1>1, <1>2, PaymentAssumption
  <2>3. JobTyped(Open(row)) /\ JobCovered(Open(row), Booked, Recorded)
    BY <1>2, <2>2 DEF JobTyped, JobCovered, Holding
  <2>. QED
    BY <1>4, <1>6, <2>1, <2>3, JobKeepsLInv DEF StartApproval
<1>7. CASE UpdateLedger(h)
  <2>. DEFINE job == [pc |-> "booking", p |-> w.p, row |-> w.row, paid |-> w.paid,
                      seen |-> balance, dup |-> ChequeExists(ChequeNo[w.p])]
  <2>1. w.row \in Payment /\ w.paid \in Int
    BY <1>1, <1>7 DEF UpdateLedger, At, JobTyped
  <2>2. JobTyped(job) /\ JobCovered(job, Booked, Recorded)
    BY <1>1, <1>2, <2>1 DEF JobTyped, JobCovered, Holding
  <2>. QED
    BY <1>7, <2>2, JobKeepsLInv DEF UpdateLedger
<1>8. CASE StartClearing(h)
  BY <1>3, <1>4, <1>8 DEF StartClearing, Finish
<1>. QED
  BY <1>5, <1>6, <1>7, <1>8

LEMMA EndingKeepsLInv ==
  ASSUME MInv, LInv, NEW h \in Handler, StartDishonour(h) \/ Fail(h)
  PROVE  LInv'
<1>1. CASE StartDishonour(h)
  <2>1. PICK q \in Payment : work' = [work EXCEPT ![h] =
                               [pc |-> "reversing", p |-> work[h].p, q |-> q, to |-> Dishonoured(h)]]
    BY <1>1, PaymentAssumption DEF StartDishonour, Origins
  <2>. DEFINE job == [pc |-> "reversing", p |-> work[h].p, q |-> q, to |-> Dishonoured(h)]
  <2>2. work[h].p \in Payment
    BY <1>1 DEF StartDishonour, At, LInv, JobTyped
  <2>3. JobTyped(job) /\ JobCovered(job, Booked, Recorded)
    BY <2>2 DEF JobTyped, JobCovered, Holding, Dishonoured
  <2>. QED
    BY <1>1, <2>1, <2>3, JobKeepsLInv DEF StartDishonour
<1>2. CASE Fail(h)
  BY <1>2, IdleFits, JobKeepsLInv DEF Fail, Finish
<1>. QED
  BY <1>1, <1>2

\* Recording: the transaction that is saved covers what the handler wrote down
\* when it read the sum.
LEMMA SaveTransactionKeepsLInv ==
  ASSUME MInv, LInv, NEW h \in Handler, SaveTransaction(h)
  PROVE  LInv'
<1>. DEFINE w == work[h]
            J(pc) == [pc |-> pc, p |-> w.p, status |-> w.status, pref |-> w.pref,
                      row |-> w.row, paid |-> w.paid]
<1>1. w.pc = "saving" /\ JobTyped(w) /\ JobCovered(w, Booked, Recorded)
  BY DEF SaveTransaction, At, LInv
<1>2. /\ w.p \in Payment /\ w.status \in Statuses /\ w.pref \in BOOLEAN /\ w.row \in Payment
      /\ w.paid \in Int /\ w.paid <= Recorded + TowardsTotal(w.p)
      /\ w.status = "PAID" => Recorded >= Total
  BY <1>1 DEF JobTyped, JobCovered, Holding
<1>3. credited' = [credited EXCEPT ![w.p] = @ + 1] /\ UNCHANGED <<entries, balance, status>>
  BY DEF SaveTransaction
<1>4. Recorded' = Recorded + TowardsTotal(w.p) /\ Recorded' \in Int /\ Recorded \in Int /\ Booked' = Booked
  <2>1. credited \in [Payment -> Int]
    BY DEF LInv, RowsTyped
  <2>2. Recorded' = Recorded + IF w.p \in Settling THEN Amount[w.p] ELSE 0
    BY <1>2, <1>3, <2>1, SumsAre, AmountsCountOne
  <2>3. TowardsTotal(w.p) = (IF w.p \in Settling THEN Amount[w.p] ELSE 0) /\ TowardsTotal(w.p) \in Int
    BY <1>2, PaymentAssumption DEF TowardsTotal, Settling
  <2>. QED
    BY <1>3, <2>2, <2>3, SumsTyped DEF Booked
<1>5. RowsTyped'
  BY <1>2 DEF SaveTransaction, LInv, RowsTyped
<1>6. \A p \in Payment : credited[p] <= credited'[p] /\ entries[p] <= entries'[p]
  BY <1>3 DEF LInv, RowsTyped
<1>7. CashIsBooked' /\ PaidInFull'
  <2>1. Recorded <= Recorded'
    BY <1>5, <1>6, SumsGrow DEF LInv
  <2>. QED
    BY <1>3, <1>4, <2>1, PaymentAssumption DEF LInv, CashIsBooked, PaidInFull
<1>8. PICK pc \in {"preferring", "ledger"} : work' = [work EXCEPT ![h] = J(pc)]
  BY DEF SaveTransaction, Goto, Continue
<1>9. J(pc).pc \in {"preferring", "ledger"} /\ J(pc).p = w.p /\ J(pc).status = w.status
      /\ J(pc).pref = w.pref /\ J(pc).row = w.row /\ J(pc).paid = w.paid
  OBVIOUS
<1>10. Recorded <= Recorded'
  BY <1>5, <1>6, SumsGrow DEF LInv
<1>11. JobTyped(J(pc)) /\ JobCovered(J(pc), Booked', Recorded')
  <2>. HIDE DEF J, w
  <2>1. JobTyped(J(pc))
    BY <1>2, <1>9 DEF JobTyped, Holding
  <2>2. J(pc).paid <= Recorded' /\ (J(pc).status = "PAID" => Recorded' >= Total)
    BY <1>2, <1>4, <1>9, <1>10, PaymentAssumption
  <2>. QED
    BY <1>9, <2>1, <2>2 DEF JobCovered, Holding
<1>12. work'[h] = J(pc) /\ \A g \in Handler \ {h} : work'[g] = work[g]
  BY <1>8 DEF MInv, RowTypes
<1>. QED
  BY <1>5, <1>6, <1>7, <1>11, <1>12, StepKeepsLInv

\* Steps that change neither a credit nor an entry: the sums stand.
LEMMA SumsStand ==
  ASSUME LInv, UNCHANGED <<credited, entries>>
  PROVE  /\ Booked' = Booked /\ Recorded' = Recorded
         /\ \A p \in Payment : credited[p] <= credited'[p] /\ entries[p] <= entries'[p]
BY DEF Booked, Recorded, LInv, RowsTyped

\* An invoice whose old columns are written back was paid if they say so.
LEMMA SavePreferredKeepsLInv ==
  ASSUME MInv, LInv, NEW h \in Handler, SavePreferred(h)
  PROVE  LInv'
<1>. DEFINE w == work[h]
            job == [pc |-> "ledger", p |-> w.p, status |-> w.status, pref |-> TRUE,
                    row |-> w.row, paid |-> w.paid]
<1>1. w.pc = "preferring" /\ JobTyped(w) /\ JobCovered(w, Booked, Recorded)
  BY DEF SavePreferred, At, LInv
<1>2. w.status \in Statuses /\ w.row \in Payment /\ (w.status = "PAID" => Recorded >= Total)
  BY <1>1 DEF JobTyped, JobCovered, Holding
<1>3. JobTyped(job) /\ JobCovered(job, Booked, Recorded)
  BY <1>1, <1>2, ContinueFits, SumsTyped DEF Holding
<1>4. /\ Booked' = Booked /\ Recorded' = Recorded
      /\ \A p \in Payment : credited[p] <= credited'[p] /\ entries[p] <= entries'[p]
  BY SumsStand DEF SavePreferred
<1>5. RowsTyped'
  BY <1>2 DEF SavePreferred, LInv, RowsTyped
<1>6. CashIsBooked' /\ PaidInFull'
  BY <1>2, <1>4 DEF SavePreferred, LInv, CashIsBooked, PaidInFull
<1>7. work'[h] = job /\ \A g \in Handler \ {h} : work'[g] = work[g]
  BY DEF SavePreferred, Continue, MInv, RowTypes
<1>. QED
  BY <1>3, <1>4, <1>5, <1>6, <1>7, StepKeepsLInv

\* The ledger row is written with the sum; only one that reaches the total goes
\* on to settle the invoice.
LEMMA SaveLedgerKeepsLInv ==
  ASSUME MInv, LInv, NEW h \in Handler, SaveLedger(h)
  PROVE  LInv'
<1>. DEFINE w == work[h]
            settling == [pc |-> "settling", p |-> w.p, status |-> w.status, pref |-> w.pref,
                         row |-> w.row, paid |-> w.paid]
            posting == [pc |-> "posting", p |-> w.p]
<1>1. w.pc = "updating" /\ JobTyped(w) /\ JobCovered(w, Booked, Recorded)
  BY DEF SaveLedger, At, LInv
<1>2. /\ w.p \in Payment /\ w.status \in Statuses /\ w.pref \in BOOLEAN /\ w.row \in Payment
      /\ w.paid \in Int /\ w.paid <= Recorded /\ (w.status = "PAID" => Recorded >= Total)
  BY <1>1 DEF JobTyped, JobCovered, Holding
<1>3. /\ Booked' = Booked /\ Recorded' = Recorded
      /\ \A p \in Payment : credited[p] <= credited'[p] /\ entries[p] <= entries'[p]
  BY SumsStand DEF SaveLedger
<1>4. RowsTyped'
  <2>1. rows' \subseteq Payment /\ paid' \in [Payment -> Int]
    BY <1>2 DEF SaveLedger, LInv, RowsTyped
  <2>. QED
    BY <2>1 DEF SaveLedger, LInv, RowsTyped
<1>5. CashIsBooked' /\ PaidInFull'
  BY <1>3 DEF SaveLedger, LInv, CashIsBooked, PaidInFull
<1>6. \/ w.paid >= Total /\ work' = [work EXCEPT ![h] = settling]
      \/ work' = [work EXCEPT ![h] = posting]
  BY DEF SaveLedger, Goto, Continue, GoPost
<1>7. CASE w.paid >= Total /\ work' = [work EXCEPT ![h] = settling]
  <2>1. work'[h] = settling /\ \A g \in Handler \ {h} : work'[g] = work[g]
    BY <1>7 DEF MInv, RowTypes
  <2>2. /\ settling.pc = "settling" /\ settling.p = w.p /\ settling.status = w.status
        /\ settling.pref = w.pref /\ settling.row = w.row /\ settling.paid = w.paid
    OBVIOUS
  <2>3. JobTyped(settling) /\ JobCovered(settling, Booked, Recorded)
    <3>. HIDE DEF settling
    <3>. QED
      BY <1>2, <1>7, <2>2 DEF JobTyped, JobCovered, Holding
  <2>. QED
    BY <1>3, <1>4, <1>5, <2>1, <2>3, StepKeepsLInv
<1>8. CASE work' = [work EXCEPT ![h] = posting]
  <2>1. work'[h] = posting /\ \A g \in Handler \ {h} : work'[g] = work[g]
    BY <1>8 DEF MInv, RowTypes
  <2>2. JobTyped(posting) /\ JobCovered(posting, Booked, Recorded)
    BY <1>2, PostingFits
  <2>. QED
    BY <1>3, <1>4, <1>5, <2>1, <2>2, StepKeepsLInv
<1>. QED
  BY <1>6, <1>7, <1>8

LEMMA SettleInvoiceKeepsLInv ==
  ASSUME MInv, LInv, NEW h \in Handler, SettleInvoice(h)
  PROVE  LInv'
<1>. DEFINE w == work[h]
            job == [pc |-> "posting", p |-> w.p]
<1>1. w.pc = "settling" /\ JobTyped(w) /\ JobCovered(w, Booked, Recorded)
  BY DEF SettleInvoice, At, LInv
<1>2. /\ w.p \in Payment /\ w.pref \in BOOLEAN
      /\ w.paid \in Int /\ w.paid <= Recorded /\ w.paid >= Total
  BY <1>1 DEF JobTyped, JobCovered, Holding
<1>3. JobTyped(job) /\ JobCovered(job, Booked, Recorded)
  BY <1>2, PostingFits
<1>4. /\ Booked' = Booked /\ Recorded' = Recorded
      /\ \A p \in Payment : credited[p] <= credited'[p] /\ entries[p] <= entries'[p]
  BY SumsStand DEF SettleInvoice
<1>5. RowsTyped'
  BY <1>2 DEF SettleInvoice, LInv, RowsTyped, Statuses
<1>6. CashIsBooked' /\ PaidInFull'
  <2>1. Recorded \in Int
    BY SumsTyped
  <2>. QED
    BY <1>2, <1>4, <2>1, PaymentAssumption DEF SettleInvoice, LInv, CashIsBooked, PaidInFull
<1>7. work'[h] = job /\ \A g \in Handler \ {h} : work'[g] = work[g]
  BY DEF SettleInvoice, GoPost, MInv, RowTypes
<1>. QED
  BY <1>3, <1>4, <1>5, <1>6, <1>7, StepKeepsLInv

\* Handlers that finish with a request or a cheque, and no money moved.
LEMMA FinishingKeepsLInv ==
  ASSUME MInv, LInv, NEW h \in Handler,
         \/ FileCheque(h) \/ RejectSalePayment(h) \/ DepositCheque(h)
         \/ DishonourUncredited(h) \/ ReverseCredit(h)
  PROVE  LInv'
<1>. DEFINE w == work[h]
<1>1. Finish(h) /\ UNCHANGED <<status, preferred, credited, rows, entries, balance>>
  BY DEF FileCheque, RejectSalePayment, DepositCheque, DishonourUncredited, ReverseCredit,
     SaveCheque
<1>2. /\ Booked' = Booked /\ Recorded' = Recorded
      /\ \A p \in Payment : credited[p] <= credited'[p] /\ entries[p] <= entries'[p]
  BY <1>1, SumsStand
<1>3. work'[h] = Idle /\ \A g \in Handler \ {h} : work'[g] = work[g]
  BY <1>1 DEF Finish, MInv, RowTypes
<1>4. CashIsBooked' /\ PaidInFull'
  BY <1>1, <1>2 DEF LInv, CashIsBooked, PaidInFull
<1>5. w.p \in Payment /\ JobTyped(w)
  BY DEF FileCheque, RejectSalePayment, DepositCheque, DishonourUncredited, ReverseCredit,
     Loaded, At, LInv, JobTyped
<1>6. RowsTyped'
  <2>1. CASE FileCheque(h)
    BY <1>5, <2>1 DEF FileCheque, LInv, RowsTyped
  <2>2. CASE RejectSalePayment(h)
    BY <1>5, <2>2 DEF RejectSalePayment, LInv, RowsTyped
  <2>3. CASE DepositCheque(h)
    BY <1>5, <2>3 DEF DepositCheque, SaveCheque, LInv, RowsTyped
  <2>4. CASE DishonourUncredited(h)
    BY <1>5, <2>4 DEF DishonourUncredited, SaveCheque, Dishonoured, LInv, RowsTyped
  <2>5. CASE ReverseCredit(h)
    <3>1. w.q \in Payment /\ w.to \in {"BOUNCED", "CANCELLED"}
      BY <1>5, <2>5 DEF ReverseCredit, At, JobTyped
    <3>2. PaidSoFar - Amount[w.q] \in Int
      BY <3>1, PaidSoFarRecorded, PaymentAssumption DEF LInv
    <3>3. paid' \in [Payment -> Int]
      BY <2>5, <3>2 DEF ReverseCredit, LInv, RowsTyped
    <3>4. reversals' \in [Payment -> Nat] /\ reversed' \in [Payment -> BOOLEAN]
      BY <2>5, <3>1 DEF ReverseCredit, LInv, RowsTyped
    <3>5. cheque' \in [Payment -> {"NONE", "PENDING", "DEPOSITED", "CLEARED", "BOUNCED", "CANCELLED"}]
      BY <2>5, <1>5, <3>1 DEF ReverseCredit, SaveCheque, LInv, RowsTyped
    <3>. QED
      BY <2>5, <3>3, <3>4, <3>5 DEF ReverseCredit, LInv, RowsTyped
  <2>. QED
    BY <2>1, <2>2, <2>3, <2>4, <2>5
<1>. QED
  BY <1>2, <1>3, <1>4, <1>6, IdleFits, StepKeepsLInv

\* An entry booked with a balance that was read: it covers what it was read
\* from, which the entries still cover, and its own amount.
LEMMA BookCovers ==
  ASSUME LInv, NEW h \in Handler, work[h].pc \in {"moving", "crediting", "booking"}, Book(h)
  PROVE  /\ entries' \in [Payment -> Nat] /\ balance' \in Nat
         /\ \A p \in Payment : entries[p] <= entries'[p]
         /\ Booked' \in Int /\ balance' <= Booked'
<1>. DEFINE w == work[h]
<1>1. w.p \in Payment /\ w.seen \in Nat /\ w.seen <= Booked
  BY DEF LInv, JobTyped, JobCovered
<1>2. entries \in [Payment -> Nat] /\ entries \in [Payment -> Int]
  BY DEF LInv, RowsTyped
<1>3. entries' = [entries EXCEPT ![w.p] = @ + 1] /\ balance' = w.seen + Amount[w.p]
  BY DEF Book
<1>4. Amount[w.p] \in Nat
  BY <1>1, PaymentAssumption
<1>5. entries' \in [Payment -> Nat] /\ \A p \in Payment : entries[p] <= entries'[p]
  BY <1>1, <1>2, <1>3
<1>6. Booked' = Booked + Amount[w.p]
  BY <1>1, <1>2, <1>3, SumsAre, AmountsCountOne
<1>. QED
  BY <1>1, <1>3, <1>4, <1>5, <1>6, SumsTyped

LEMMA PostingKeepsLInv ==
  ASSUME MInv, LInv, NEW h \in Handler, PostCashbookEntry(h) \/ ClearCheque(h)
  PROVE  LInv'
<1>1. /\ work[h].pc \in {"moving", "crediting"} /\ Book(h) /\ Finish(h)
      /\ UNCHANGED <<status, preferred, request, books, ledger>>
  BY DEF PostCashbookEntry, ClearCheque, At, SaveCheque
<1>2. cheque' \in [Payment -> {"NONE", "PENDING", "DEPOSITED", "CLEARED", "BOUNCED", "CANCELLED"}]
  <2>1. work[h].p \in Payment
    BY <1>1 DEF LInv, JobTyped
  <2>. QED
    BY <2>1 DEF PostCashbookEntry, ClearCheque, SaveCheque, LInv, RowsTyped
<1>3. /\ entries' \in [Payment -> Nat] /\ balance' \in Nat
      /\ \A p \in Payment : entries[p] <= entries'[p]
      /\ Booked' \in Int /\ balance' <= Booked'
  BY <1>1, BookCovers
<1>4. RowsTyped'
  BY <1>1, <1>2, <1>3 DEF LInv, RowsTyped
<1>5. \A p \in Payment : credited[p] <= credited'[p] /\ entries[p] <= entries'[p]
  BY <1>1, <1>3 DEF LInv, RowsTyped
<1>6. CashIsBooked' /\ PaidInFull'
  BY <1>1, <1>3 DEF LInv, CashIsBooked, PaidInFull, Recorded
<1>7. work'[h] = Idle /\ \A g \in Handler \ {h} : work'[g] = work[g]
  BY <1>1 DEF Finish, MInv, RowTypes
<1>. QED
  BY <1>4, <1>5, <1>6, <1>7, IdleFits, StepKeepsLInv

\* An approval either leaves the rows alone or credits and books at once.
LEMMA ApprovalKeepsLInv ==
  ASSUME MInv, LInv, NEW h \in Handler, CommitApproval(h)
  PROVE  LInv'
<1>. DEFINE w == work[h]
<1>1. w.pc = "booking" /\ w.p \in Payment /\ w.row \in Payment /\ w.paid \in Int
  BY DEF CommitApproval, At, LInv, JobTyped
<1>2. work' = [work EXCEPT ![h] = Idle] /\ UNCHANGED <<status, preferred>>
  BY DEF CommitApproval, Finish
<1>3. CASE w.p \notin ByCheque /\ AlreadyBooked(w.p)
  <2>1. UNCHANGED <<invoice, request, books, ledger, cheque, cash>>
    BY <1>2, <1>3 DEF CommitApproval
  <2>. QED
    BY <1>2, <2>1, IdleFits, JobKeepsLInv
<1>4. CASE ~(w.p \notin ByCheque /\ AlreadyBooked(w.p))
  <2>1. /\ request' = [request EXCEPT ![w.p] = "APPROVED"]
        /\ credited' = [credited EXCEPT ![w.p] = @ + 1]
        /\ reversed' = [reversed EXCEPT ![w.p] = FALSE]
        /\ rows' = rows \cup {w.row}
        /\ paid' = [paid EXCEPT ![w.row] = w.paid]
        /\ UNCHANGED reversals
    BY <1>4 DEF CommitApproval
  <2>2. \/ /\ cheque' = cheque \/ cheque' = [cheque EXCEPT ![w.p] = "PENDING"]
           /\ UNCHANGED cash
        \/ Book(h) /\ UNCHANGED cheque
    <3>1. CASE w.p \in ByCheque
      <4>1. (cheque' = IF w.dup THEN cheque ELSE [cheque EXCEPT ![w.p] = "PENDING"]) /\ UNCHANGED cash
        BY <1>4, <3>1, Zenon DEF CommitApproval
      <4>. QED
        BY <4>1
    <3>2. CASE w.p \notin ByCheque
      BY <1>4, <3>2, Zenon DEF CommitApproval
    <3>. QED
      BY <3>1, <3>2
  <2>3. cheque' \in [Payment -> {"NONE", "PENDING", "DEPOSITED", "CLEARED", "BOUNCED", "CANCELLED"}]
    BY <1>1, <2>2 DEF LInv, RowsTyped
  <2>4. /\ entries' \in [Payment -> Nat] /\ balance' \in Nat
        /\ \A p \in Payment : entries[p] <= entries'[p]
        /\ CashIsBooked'
    <3>1. CASE UNCHANGED cash
      <4>1. Booked' = Booked
        BY <3>1 DEF Booked
      <4>. QED
        BY <3>1, <4>1 DEF LInv, RowsTyped, CashIsBooked
    <3>2. CASE Book(h)
      BY <1>1, <3>2, BookCovers DEF CashIsBooked
    <3>. QED
      BY <2>2, <3>1, <3>2
  <2>5. credited' \in [Payment -> Nat] /\ \A p \in Payment : credited[p] <= credited'[p]
    BY <1>1, <2>1 DEF LInv, RowsTyped
  <2>6. RowsTyped'
    <3>1. /\ request' \in [Payment -> {"NONE", "PENDING", "APPROVED", "REJECTED"}]
          /\ reversed' \in [Payment -> BOOLEAN] /\ reversals' \in [Payment -> Nat]
          /\ rows' \subseteq Payment /\ paid' \in [Payment -> Int]
      BY <1>1, <2>1 DEF LInv, RowsTyped
    <3>. QED
      BY <1>2, <2>3, <2>4, <2>5, <3>1 DEF LInv, RowsTyped
  <2>7. PaidInFull'
    <3>1. Recorded \in Int /\ Recorded' \in Int /\ Recorded <= Recorded'
      BY <2>4, <2>5, <2>6, SumsGrow DEF LInv
    <3>. QED
      BY <1>2, <3>1, PaymentAssumption DEF LInv, PaidInFull
  <2>8. work'[h] = Idle /\ \A g \in Handler \ {h} : work'[g] = work[g]
    BY <1>2 DEF MInv, RowTypes
  <2>. QED
    BY <2>4, <2>5, <2>6, <2>7, <2>8, IdleFits, StepKeepsLInv
<1>. QED
  BY <1>3, <1>4

\* What the reconciliation writes is a sum of transactions, and it takes PAID
\* away, never gives it.
LEMMA OthersKeepLInv ==
  ASSUME MInv, LInv,
         Activate \/ Restart \/ (\E p \in Payment : CreateSalePaymentRequest(p)) \/ UNCHANGED vars
  PROVE  LInv'
<1>1. UNCHANGED <<credited, entries, balance>>
  BY DEF Activate, Restart, CreateSalePaymentRequest
<1>2. Booked' = Booked /\ Recorded' = Recorded
  BY <1>1 DEF Booked, Recorded
<1>3. UNCHANGED work \/ work' = [h \in Handler |-> Idle]
  BY DEF Activate, Restart, CreateSalePaymentRequest
<1>4. \A h \in Handler : JobTyped(work'[h]) /\ JobCovered(work'[h], Booked', Recorded')
  BY <1>2, <1>3, IdleFits DEF LInv
<1>5. status' = "PAID" => status = "PAID"
  BY DEF Activate, Restart, CreateSalePaymentRequest
<1>6. CashIsBooked' /\ PaidInFull'
  BY <1>1, <1>2, <1>5 DEF LInv, CashIsBooked, PaidInFull
<1>7. RowsTyped'
  <2>1. CASE Activate
    BY <2>1 DEF Activate, LInv, RowsTyped, Statuses
  <2>2. CASE Restart
    <3>1. rows' \subseteq Payment
      <4>1. rows' = rows \/ \E p \in Payment : rows' = {p}
        BY <2>2 DEF Restart, Settling
      <4>. QED
        BY <4>1 DEF LInv, RowsTyped
    <3>2. paid' \in [Payment -> Int]
      <4>1. PaidSoFar \in Int /\ paid \in [Payment -> Int]
        BY PaidSoFarRecorded DEF LInv, RowsTyped
      <4>2. paid' = [p \in Payment |-> IF p \in rows' THEN PaidSoFar ELSE paid[p]]
        BY <2>2 DEF Restart
      <4>. QED
        BY <4>1, <4>2
    <3>3. status' \in Statuses
      BY <2>2 DEF Restart, LInv, RowsTyped, Statuses
    <3>. QED
      BY <2>2, <3>1, <3>2, <3>3 DEF Restart, LInv, RowsTyped
  <2>3. CASE \E p \in Payment : CreateSalePaymentRequest(p)
    BY <2>3 DEF CreateSalePaymentRequest, LInv, RowsTyped
  <2>4. CASE UNCHANGED vars
    BY <2>4 DEF LInv, RowsTyped
  <2>. QED
    BY <2>1, <2>2, <2>3, <2>4
<1>. QED
  BY <1>4, <1>6, <1>7 DEF LInv

LEMMA NextLInv == ASSUME MInv, LInv, [Next]_vars PROVE LInv'
<1>1. ASSUME NEW h \in Handler, HandlerStep(h) PROVE LInv'
  BY <1>1, ArrivalKeepsLInv, FindLedgerKeepsLInv, ReadingKeepsLInv, EndingKeepsLInv,
     SaveTransactionKeepsLInv, SavePreferredKeepsLInv, SaveLedgerKeepsLInv,
     SettleInvoiceKeepsLInv, FinishingKeepsLInv, PostingKeepsLInv, ApprovalKeepsLInv
  DEF HandlerStep
<1>. QED
  BY <1>1, OthersKeepLInv DEF Next

LEMMA LInvHolds == Spec => []LInv
<1>1. MInv /\ LInv /\ [Next]_vars => LInv'
  BY NextLInv
<1>. QED
  BY <1>1, InitMInv, NextKeeps, InitLInv, PTL DEF Spec

\* Every row holds a value of its column's type and every handler at work works
\* on a payment.
THEOREM LedgerTypes == Spec => []TypeOK
<1>1. LInv => TypeOK
  BY DEF LInv, RowsTyped, JobTyped, TypeOK, Free, Statuses
<1>. QED
  BY <1>1, LInvHolds, PTL

\* The account never holds more than its cashbook entries add up to, whichever
\* postings overlap, fail or are rolled back.
THEOREM CashIsAlwaysBooked == Spec => []CashIsBooked
<1>1. LInv => CashIsBooked
  BY DEF LInv
<1>. QED
  BY <1>1, LInvHolds, PTL

\* An invoice is PAID only when transactions for its whole total are recorded.
THEOREM PaidMeansRecorded == Spec => []PaidInFull
<1>1. LInv => PaidInFull
  BY DEF LInv
<1>. QED
  BY <1>1, LInvHolds, PTL
=============================================================================
