---------------------------- MODULE PaymentLedger ----------------------------
(***************************************************************************)
(* The money of one sale: payments recorded directly (recordPayment) or    *)
(* requested and approved (approveSalePayment), the invoice ledger, the    *)
(* cheques and the cash/bank account of the branch.  No handler takes a    *)
(* lock before it reads; recordPayment does not even share a transaction   *)
(* between its writes, so every database round trip is a step of its own.  *)
(*                                                                         *)
(* The total is fixed (a sale), amounts are in one currency and small,     *)
(* there is one account, and cheques are the received ones.  What remains  *)
(* of a transaction's isolation is READ COMMITTED: a row it has updated    *)
(* stays locked until it commits, what it has read may change meanwhile.   *)
(***************************************************************************)
EXTENDS Integers, FiniteSets, Functions

CONSTANTS
  Payment,    \* one transaction to be: each is submitted at most once
  Requested,  \* the payments that go through a SalePaymentRequest
  ByCheque,   \* the payments whose paymentMode is CHEQUE, the others are cash
  Deposit,    \* the payments whose remarks are 'Security Deposit'
  Amount,     \* [Payment -> amount]
  ChequeNo,   \* [Payment -> number]: payments may quote the same cheque
  Total,      \* the invoice's totalAmount
  Handler     \* requests the service works on at the same time

ASSUME PaymentAssumption ==
  /\ IsFiniteSet(Payment)
  /\ Requested \subseteq Payment /\ ByCheque \subseteq Payment
  /\ Deposit \subseteq Payment \ Requested
  /\ Amount \in [Payment -> Nat \ {0}]
  /\ Total \in Nat \ {0}

VARIABLES
  status,     \* invoice.status: "APPROVED" before activation, then "INVOICED", "PAID"
  preferred,  \* invoice.preferredPaymentMode is set
  request,    \* [Payment -> status of its SalePaymentRequest]
  credited,   \* [Payment -> number of its PaymentTransactions]
  reversals,  \* [Payment -> number of its negative PaymentTransactions]
  reversed,   \* [Payment -> isReversed of the transaction its request links]
  rows,       \* the InvoiceLedger rows of the invoice, by the payment that created each
  paid,       \* [Payment -> paidAmount of that row]
  cheque,     \* [Payment -> status of the cheque created for it]
  entries,    \* [Payment -> number of its cashbook entries]
  balance,    \* currentBalance of the account
  work        \* [Handler -> what it is doing and what it has read]

books == <<credited, reversals, reversed>>
ledger == <<rows, paid>>
cash == <<entries, balance>>
invoice == <<status, preferred>>
vars == <<invoice, request, books, ledger, cheque, cash, work>>

Idle == [pc |-> "idle"]
Free(h) == work[h].pc = "idle"
At(h, pc) == work[h].pc = pc
Finish(h) == work' = [work EXCEPT ![h] = Idle]
\* The next step of a payment being recorded, with the ledger row and the
\* preferred mode it has by then.
Continue(h, pc, row, pref) ==
  work' = [work EXCEPT ![h] =
    [pc |-> pc, p |-> work[h].p, status |-> work[h].status, pref |-> pref,
     row |-> row, paid |-> work[h].paid]]
Goto(h, pc) == Continue(h, pc, work[h].row, work[h].pref)
GoPost(h, pc) == work' = [work EXCEPT ![h] = [pc |-> pc, p |-> work[h].p]]

Settling == Payment \ Deposit
PaidSoFar == SumFunction([p \in Settling |-> Amount[p] * (credited[p] - reversals[p])])
ChequeExists(n) == \E p \in Payment : ChequeNo[p] = n /\ cheque[p] # "NONE"

\* Mutant: security deposits settle the invoice too.
TowardsTotalWithDeposits(p) == Amount[p]

\* Security deposits sit outside the invoice total.
TowardsTotal(p) == IF p \in Deposit THEN 0 ELSE Amount[p]

\* An approval keeps its request, and from "booking" on its ledger row, locked.
RequestFree(p) == \A g \in Handler : At(g, "guarded") \/ At(g, "booking") => work[g].p # p
RowFree(row) == \A g \in Handler : At(g, "booking") => work[g].row # row

Init ==
  /\ status = "APPROVED" /\ preferred = FALSE
  /\ request = [p \in Payment |-> "NONE"]
  /\ credited = [p \in Payment |-> 0]
  /\ reversals = [p \in Payment |-> 0]
  /\ reversed = [p \in Payment |-> FALSE]
  /\ rows = {} /\ paid = [p \in Payment |-> 0]
  /\ cheque = [p \in Payment |-> "NONE"]
  /\ entries = [p \in Payment |-> 0]
  /\ balance = 0
  /\ work = [h \in Handler |-> Idle]

Activate ==
  /\ status = "APPROVED"
  /\ status' = "INVOICED"
  /\ UNCHANGED <<preferred, request, books, ledger, cheque, cash, work>>

(***************************************************************************)
(* recordPayment, one step per round trip.                                 *)
(***************************************************************************)

\* The invoice and its transactions are read and the payment is checked
\* against what they add up to; before activation only with bypassStatusCheck.
RecordPayment(h, p) ==
  /\ Free(h)
  /\ p \notin Requested /\ credited[p] = 0
  /\ ~ \E g \in Handler : ~Free(g) /\ work[g].p = p
  /\ p \in Deposit \/ PaidSoFar + Amount[p] <= Total
  /\ work' = [work EXCEPT ![h] =
       [pc |-> "saving", p |-> p, status |-> status, pref |-> preferred, row |-> p,
        paid |-> PaidSoFar + TowardsTotal(p),
        first |-> /\ p \notin Deposit /\ ~preferred
                  /\ \A q \in Settling : credited[q] = 0]]
  /\ UNCHANGED <<invoice, request, books, ledger, cheque, cash>>

SaveTransaction(h) ==
  /\ At(h, "saving")
  /\ credited' = [credited EXCEPT ![work[h].p] = @ + 1]
  /\ Goto(h, IF work[h].first THEN "preferring" ELSE "ledger")
  /\ UNCHANGED <<invoice, request, reversals, reversed, ledger, cheque, cash>>

\* The first payment's mode is kept with the invoice, whose other columns are
\* written back as they were loaded: the status too.
SavePreferred(h) ==
  /\ At(h, "preferring")
  /\ status' = work[h].status /\ preferred' = TRUE
  /\ Continue(h, "ledger", work[h].row, TRUE)
  /\ UNCHANGED <<request, books, ledger, cheque, cash>>

\* Any row of the invoice (there is no unique index), else a new one once the
\* invoice is active or for a deposit; otherwise there is no ledger to keep.
FindLedger(h) ==
  LET w == work[h] IN
  /\ At(h, "ledger")
  /\ \/ \E row \in rows : Continue(h, "updating", row, w.pref)
     \/ /\ rows = {}
        /\ IF w.status # "APPROVED" \/ w.p \in Deposit THEN Goto(h, "updating") ELSE GoPost(h, "posting")
  /\ UNCHANGED <<invoice, request, books, ledger, cheque, cash>>

SaveLedger(h) ==
  LET w == work[h] IN
  /\ At(h, "updating")
  /\ RowFree(w.row)
  /\ rows' = rows \cup {w.row}
  /\ paid' = [paid EXCEPT ![w.row] = w.paid]
  /\ IF w.paid >= Total /\ w.status # "PAID" THEN Goto(h, "settling") ELSE GoPost(h, "posting")
  /\ UNCHANGED <<invoice, request, books, cheque, cash>>

SettleInvoice(h) ==
  /\ At(h, "settling")
  /\ status' = "PAID" /\ preferred' = work[h].pref
  /\ GoPost(h, "posting")
  /\ UNCHANGED <<request, books, ledger, cheque, cash>>

\* A cheque is filed unless one with its number is there; cash is posted in a
\* transaction that reads the account first (postCashbookEntry).
StartPosting(h) ==
  LET p == work[h].p IN
  /\ At(h, "posting")
  /\ IF p \in ByCheque
     THEN IF ChequeExists(ChequeNo[p]) THEN Finish(h) ELSE GoPost(h, "filing")
     ELSE work' = [work EXCEPT ![h] = [pc |-> "moving", p |-> p, seen |-> balance]]
  /\ UNCHANGED <<invoice, request, books, ledger, cheque, cash>>

FileCheque(h) ==
  /\ At(h, "filing")
  /\ cheque' = [cheque EXCEPT ![work[h].p] = "PENDING"]
  /\ Finish(h)
  /\ UNCHANGED <<invoice, request, books, ledger, cash>>

\* The entry and the balance it was computed from, in one commit.
Book(h) ==
  /\ entries' = [entries EXCEPT ![work[h].p] = @ + 1]
  /\ balance' = work[h].seen + Amount[work[h].p]

PostCashbookEntry(h) ==
  /\ At(h, "moving")
  /\ Book(h)
  /\ Finish(h)
  /\ UNCHANGED <<invoice, request, books, ledger, cheque>>

(***************************************************************************)
(* Sale payment requests.                                                  *)
(***************************************************************************)

CreateSalePaymentRequest(p) ==
  /\ p \in Requested /\ request[p] = "NONE"
  /\ request' = [request EXCEPT ![p] = "PENDING"]
  /\ UNCHANGED <<invoice, books, ledger, cheque, cash, work>>

\* An approval or a rejection loads the payment request and checks that it is
\* pending; which of the two it is shows at its next step.
Review(h, p) ==
  /\ Free(h) /\ p \in Requested /\ request[p] = "PENDING"
  /\ work' = [work EXCEPT ![h] = [pc |-> "reviewing", p |-> p]]
  /\ UNCHANGED <<invoice, request, books, ledger, cheque, cash>>

RejectSalePayment(h) ==
  /\ At(h, "reviewing")
  /\ RequestFree(work[h].p)
  /\ request' = [request EXCEPT ![work[h].p] = "REJECTED"]
  /\ Finish(h)
  /\ UNCHANGED <<invoice, books, ledger, cheque, cash>>

\* The transaction saves the request first, which holds up any other review of
\* it until the commit, then reads the ledger and refuses to overpay.
StartApproval(h) ==
  LET p == work[h].p
      Open(row) == [pc |-> "guarded", p |-> p, row |-> row,
                    paid |-> Amount[p] + IF row \in rows THEN paid[row] ELSE 0]
  IN
  /\ At(h, "reviewing")
  /\ RequestFree(p)
  /\ \E row \in (IF rows = {} THEN {p} ELSE rows) :
       work' = [work EXCEPT ![h] = IF Open(row).paid > Total THEN Idle ELSE Open(row)]
  /\ UNCHANGED <<invoice, request, books, ledger, cheque, cash>>

\* The ledger row is updated, and locked; then the account and the cheques are read.
UpdateLedger(h) ==
  LET w == work[h] IN
  /\ At(h, "guarded")
  /\ RowFree(w.row)
  /\ work' = [work EXCEPT ![h] =
       [pc |-> "booking", p |-> w.p, row |-> w.row, paid |-> w.paid,
        seen |-> balance, dup |-> ChequeExists(ChequeNo[w.p])]]
  /\ UNCHANGED <<invoice, request, books, ledger, cheque, cash>>

\* Mutant: no unique column and no unique index.
AlreadyBookedUnindexed(p) == FALSE

\* The entry's number is made of the request's: a second one breaks the unique
\* column, the error is only logged, and the commit of the aborted transaction
\* rolls everything back.
AlreadyBooked(p) == entries[p] > 0

CommitApproval(h) ==
  LET w == work[h] IN
  /\ At(h, "booking")
  /\ Finish(h)
  /\ IF w.p \notin ByCheque /\ AlreadyBooked(w.p)
     THEN UNCHANGED <<request, books, ledger, cheque, cash>>
     ELSE /\ request' = [request EXCEPT ![w.p] = "APPROVED"]
          /\ credited' = [credited EXCEPT ![w.p] = @ + 1]
          /\ reversed' = [reversed EXCEPT ![w.p] = FALSE]
          /\ rows' = rows \cup {w.row}
          /\ paid' = [paid EXCEPT ![w.row] = w.paid]
          /\ IF w.p \in ByCheque
             THEN /\ cheque' = IF w.dup THEN cheque ELSE [cheque EXCEPT ![w.p] = "PENDING"]
                  /\ UNCHANGED cash
             ELSE Book(h) /\ UNCHANGED cheque
          /\ UNCHANGED reversals
  /\ UNCHANGED invoice

(***************************************************************************)
(* Cheques.  Every route loads the cheque, checks its status, and writes   *)
(* it back in a transaction that does not look again.                      *)
(***************************************************************************)

\* PENDING can be deposited or cancelled, DEPOSITED can clear or bounce.
LoadCheque(h, p) ==
  /\ Free(h) /\ cheque[p] \in {"PENDING", "DEPOSITED"}
  /\ work' = [work EXCEPT ![h] = [pc |-> "loaded", p |-> p, was |-> cheque[p]]]
  /\ UNCHANGED <<invoice, request, books, ledger, cheque, cash>>

Loaded(h, s) == At(h, "loaded") /\ work[h].was = s

SaveCheque(h, s) ==
  /\ cheque' = [cheque EXCEPT ![work[h].p] = s]
  /\ Finish(h)

\* Mutant: the status /issue gives an issued cheque.
DepositChequeAsIssued(h) ==
  /\ Loaded(h, "PENDING")
  /\ SaveCheque(h, "ISSUED")
  /\ UNCHANGED <<invoice, request, books, ledger, cash>>

DepositCheque(h) ==
  /\ Loaded(h, "PENDING")
  /\ SaveCheque(h, "DEPOSITED")
  /\ UNCHANGED <<invoice, request, books, ledger, cash>>

\* Mutant: the balance moves before the commit.
StartClearingMoving(h) ==
  /\ Loaded(h, "DEPOSITED") /\ ~AlreadyBooked(work[h].p)
  /\ work' = [work EXCEPT ![h] = [pc |-> "crediting", p |-> work[h].p, seen |-> balance]]
  /\ balance' = balance + Amount[work[h].p]
  /\ UNCHANGED <<invoice, request, books, ledger, cheque, entries>>

\* The entry comes first: the unique index on its source waits for another
\* clear of the cheque that is under way and refuses one that has cleared.
StartClearing(h) ==
  LET p == work[h].p IN
  /\ Loaded(h, "DEPOSITED")
  /\ \A g \in Handler : At(g, "crediting") => work[g].p # p
  /\ IF AlreadyBooked(p)
     THEN Finish(h)
     ELSE work' = [work EXCEPT ![h] = [pc |-> "crediting", p |-> p, seen |-> balance]]
  /\ UNCHANGED <<invoice, request, books, ledger, cheque, cash>>

ClearCheque(h) ==
  /\ At(h, "crediting")
  /\ Book(h)
  /\ SaveCheque(h, "CLEARED")
  /\ UNCHANGED <<invoice, request, books, ledger>>

\* The approved requests a dishonoured cheque is matched with, by its number;
\* one that recordPayment filed has sourceType 'INVOICE' and is matched with none.
Origins(p) ==
  IF p \in Requested
  THEN {q \in Requested : ChequeNo[q] = ChequeNo[p] /\ request[q] = "APPROVED"}
  ELSE {}

Dishonoured(h) == IF work[h].was = "PENDING" THEN "CANCELLED" ELSE "BOUNCED"

\* Bounce and cancel: the first origin found is reversed, unless it has been.
StartDishonour(h) ==
  /\ At(h, "loaded")
  /\ \E q \in Origins(work[h].p) :
       /\ ~reversed[q]
       /\ work' = [work EXCEPT ![h] = [pc |-> "reversing", p |-> work[h].p, q |-> q,
                                            to |-> Dishonoured(h)]]
  /\ UNCHANGED <<invoice, request, books, ledger, cheque, cash>>

DishonourUncredited(h) ==
  /\ At(h, "loaded")
  /\ Origins(work[h].p) = {} \/ \E q \in Origins(work[h].p) : reversed[q]
  /\ SaveCheque(h, Dishonoured(h))
  /\ UNCHANGED <<invoice, request, books, ledger, cash>>

\* The ledger becomes the sum of the transactions, the reversal among them; a
\* paid invoice stays PAID.
ReverseCredit(h) ==
  LET w == work[h]
      left == PaidSoFar - Amount[w.q]
  IN
  /\ At(h, "reversing")
  /\ reversals' = [reversals EXCEPT ![w.q] = @ + 1]
  /\ reversed' = [reversed EXCEPT ![w.q] = TRUE]
  /\ \/ rows = {} /\ UNCHANGED paid
     \/ \E row \in rows :
          RowFree(row) /\ paid' = [paid EXCEPT ![row] = IF left > 0 THEN left ELSE 0]
  /\ SaveCheque(h, w.to)
  /\ UNCHANGED <<invoice, request, credited, rows, cash>>

(***************************************************************************)
(* Failures.                                                               *)
(***************************************************************************)

\* A handler that throws: an open transaction rolls back, what recordPayment
\* has already saved stays.
Fail(h) ==
  /\ ~Free(h)
  /\ Finish(h)
  /\ UNCHANGED <<invoice, request, books, ledger, cheque, cash>>

\* The service stops, whatever it was doing, and reconciles as it starts: every
\* ledger row becomes the sum of the transactions, an invoice that has some gets
\* a row, and a PAID sale they do not cover is INVOICED again.
Restart ==
  /\ work' = [h \in Handler |-> Idle]
  /\ \/ rows # {} /\ UNCHANGED rows
     \/ rows = {} /\ (\A p \in Settling : credited[p] = 0) /\ UNCHANGED rows
     \/ rows = {} /\ \E p \in Settling : credited[p] > 0 /\ rows' = {p}
  /\ paid' = [p \in Payment |-> IF p \in rows' THEN PaidSoFar ELSE paid[p]]
  /\ status' = IF status = "PAID" /\ PaidSoFar < Total THEN "INVOICED" ELSE status
  /\ UNCHANGED <<preferred, request, books, cheque, cash>>

HandlerStep(h) ==
  \/ \E p \in Payment : RecordPayment(h, p) \/ Review(h, p) \/ LoadCheque(h, p)
  \/ SaveTransaction(h) \/ SavePreferred(h) \/ FindLedger(h) \/ SaveLedger(h)
  \/ SettleInvoice(h) \/ StartPosting(h) \/ FileCheque(h) \/ PostCashbookEntry(h)
  \/ RejectSalePayment(h) \/ StartApproval(h) \/ UpdateLedger(h) \/ CommitApproval(h)
  \/ DepositCheque(h) \/ StartClearing(h) \/ ClearCheque(h)
  \/ StartDishonour(h) \/ DishonourUncredited(h) \/ ReverseCredit(h)
  \/ Fail(h)

Next ==
  \/ Activate \/ Restart
  \/ \E p \in Payment : CreateSalePaymentRequest(p)
  \/ \E h \in Handler : HandlerStep(h)

Spec == Init /\ [][Next]_vars

-----------------------------------------------------------------------------
(***************************************************************************)
(* Properties.                                                             *)
(***************************************************************************)

\* Types: what each row and each handler may hold.
TypeOK ==
  /\ status \in {"APPROVED", "INVOICED", "PAID"} /\ preferred \in BOOLEAN
  /\ request \in [Payment -> {"NONE", "PENDING", "APPROVED", "REJECTED"}]
  /\ credited \in [Payment -> Nat] /\ reversals \in [Payment -> Nat]
  /\ reversed \in [Payment -> BOOLEAN]
  /\ rows \subseteq Payment /\ paid \in [Payment -> Int]
  /\ cheque \in [Payment -> {"NONE", "PENDING", "DEPOSITED", "CLEARED", "BOUNCED", "CANCELLED"}]
  /\ entries \in [Payment -> Nat] /\ balance \in Nat
  /\ \A h \in Handler : ~Free(h) => work[h].p \in Payment

\* Money is booked once: however reviews and clears of the same request or
\* cheque overlap, it has at most one cashbook entry, and cash that is booked
\* is credited to the invoice exactly once (the unique columns of
\* cashbook_entries and the transactions they abort).
BookedOnce ==
  \A p \in Payment :
    /\ entries[p] <= 1
    /\ p \notin ByCheque /\ entries[p] = 1 => credited[p] = 1

Booked == SumFunction([p \in Payment |-> Amount[p] * entries[p]])
Recorded == SumFunction([p \in Settling |-> Amount[p] * credited[p]])

\* The account never holds more than its cashbook entries add up to: a balance
\* may lose a concurrent posting, it never keeps money of a rolled back one.
CashIsBooked == balance <= Booked

\* An invoice is PAID only once transactions for its whole total, security
\* deposits apart, have been recorded (recordPayment's settlement test), also
\* when payments overlap or an earlier one stopped half way.
PaidInFull == status = "PAID" => Recorded >= Total

\* A cheque that bounced or was cancelled leaves no credit on the invoice
\* ("Bounce and Cancel both end that cheque's life without ever presenting for
\* payment, so both must undo that credit").
DishonouredIsUncredited ==
  \A p \in ByCheque \ Deposit :
    cheque[p] \in {"BOUNCED", "CANCELLED"} => credited[p] = reversals[p]
=============================================================================
