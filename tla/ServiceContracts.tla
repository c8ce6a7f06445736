--------------------------- MODULE ServiceContracts ---------------------------
(***************************************************************************)
(* Service contracts (FSMA: pay per click, billed monthly; SMA and AMC:    *)
(* invoiced once, at signing), their meter readings, and the daily sweep   *)
(* that bills the readings of FSMA contracts (fsmaBillingJob).  Invoices   *)
(* are rows of another service, created over HTTP: the sweep may stop, or  *)
(* the answer be lost, after the invoice exists.  The sweep loads all due  *)
(* contracts first and saves each of them whole at the end of its turn, so *)
(* it writes back whatever an edit changed meanwhile.                      *)
(*                                                                         *)
(* Readings are all chargeable, AMC is not told from SMA, terms do not     *)
(* end, and an edit keeps the start date it sends.  The time of a contract *)
(* is counted in billing months from its start date.                       *)
(***************************************************************************)
EXTENDS Naturals

CONSTANTS
    Contract,       \* rows of service_contracts
    MachineOf,      \* [Contract -> productId]
    HasBranch,      \* contracts with a branchId
    Reading,        \* bound: rows of contract_meter_readings, in order of creation
    Invoice,        \* bound: monthly bills in billing, in order of creation
    NoContract, NoInvoice,
    MaxAge,         \* bound: the months a contract lives
    MaxFaults,      \* bound: restarts and failed calls
    MaxRefusals     \* bound: bills billing answers without success

ASSUME ContractsAssumption ==
    /\ HasBranch \subseteq Contract
    /\ Reading \subseteq Nat /\ Invoice \subseteq Nat
    /\ NoContract \notin Contract /\ NoInvoice \notin Invoice
    /\ MaxAge \in Nat /\ MaxFaults \in Nat /\ MaxRefusals \in Nat

VARIABLES
    status, kind,
    next,           \* nextBillingDate, in months from the start; 0 is NULL
    invoiceId,      \* contracts whose invoiceId is set
    checked,        \* createContract has looked for another contract of the machine
    signing,        \* how far the invoice at signing is: [Contract -> Signing]
    age,            \* billing dates that have come since the start date
    of,             \* contractId of each reading
    rows,           \* readings that are in the table
    by,             \* billingInvoiceId of each reading
    bill,           \* [Invoice -> the readings its amount is the sum of]
    lost,           \* history: bills whose answer the sweep never used
    pc, todo, cur, pending, made,   \* the sweep
    faults, refusals

contractVars == <<status, kind, next, invoiceId>>
signVars == <<checked, signing>>
readingVars == <<of, rows, by>>
billVars == <<bill, lost>>
sweepVars == <<pc, todo, cur, pending, made>>
faultVars == <<faults, refusals>>
vars == <<contractVars, signVars, age, readingVars, billVars, sweepVars, faultVars>>

Kind == {"FSMA", "SMA"}
Status == {"NONE", "ACTIVE", "EXPIRED", "TERMINATED", "DELETED"}
Signing == {"none", "posting", "created"}

(* What the sweep remembers of a contract it has loaded.                   *)
Loaded == [contract : Contract \cup {NoContract}, next : Nat, invoiced : BOOLEAN]
NoLoaded == [contract |-> NoContract, next |-> 0, invoiced |-> FALSE]

Exists(c) == status[c] \notin {"NONE", "DELETED"}

Init ==
    /\ status = [c \in Contract |-> "NONE"]
    /\ kind = [c \in Contract |-> "FSMA"]
    /\ next = [c \in Contract |-> 0]
    /\ invoiceId = {} /\ checked = {}
    /\ signing = [c \in Contract |-> "none"]
    /\ age = [c \in Contract |-> 0]
    /\ of = [r \in Reading |-> NoContract]
    /\ rows = {}
    /\ by = [r \in Reading |-> NoInvoice]
    /\ bill = [i \in Invoice |-> {}]
    /\ lost = {}
    /\ pc = "idle" /\ todo = {} /\ cur = NoLoaded /\ pending = {} /\ made = NoInvoice
    /\ faults = 0 /\ refusals = 0

----------------------------------------------------------------------------
(* The contract's own screens.                                             *)

(* createContract: the check, then the row, then (SMA) the invoice.        *)
CheckMachine(c) ==
    /\ status[c] = "NONE"
    /\ \A d \in Contract : MachineOf[d] = MachineOf[c] => status[d] # "ACTIVE"
    /\ checked' = checked \cup {c}
    /\ UNCHANGED <<contractVars, signing, age, readingVars, billVars, sweepVars, faultVars>>

CreateContract(c, k) ==
    /\ c \in checked
    /\ checked' = checked \ {c}
    /\ status' = [status EXCEPT ![c] = "ACTIVE"]
    /\ kind' = [kind EXCEPT ![c] = k]
    /\ next' = [next EXCEPT ![c] = IF k = "FSMA" THEN 1 ELSE 0]
    /\ signing' = [signing EXCEPT ![c] =
                     IF k = "SMA" /\ c \in HasBranch THEN "posting" ELSE "none"]
    /\ UNCHANGED <<invoiceId, age, readingVars, billVars, sweepVars, faultVars>>

SigningInvoice(c) ==
    /\ signing[c] = "posting"
    /\ signing' = [signing EXCEPT ![c] = "created"]
    /\ UNCHANGED <<contractVars, checked, age, readingVars, billVars, sweepVars, faultVars>>

(* The contract is saved once more as it was created.                      *)
SaveInvoiceId(c) ==
    /\ signing[c] = "created"
    /\ signing' = [signing EXCEPT ![c] = "none"]
    /\ status' = [status EXCEPT ![c] = "ACTIVE"]
    /\ kind' = [kind EXCEPT ![c] = "SMA"]
    /\ next' = [next EXCEPT ![c] = 0]
    /\ invoiceId' = invoiceId \cup {c}
    /\ UNCHANGED <<checked, age, readingVars, billVars, sweepVars, faultVars>>

(* A failed call is logged, and the contract stays without invoiceId.      *)
SigningFails(c) ==
    /\ signing[c] # "none"
    /\ faults < MaxFaults /\ faults' = faults + 1
    /\ signing' = [signing EXCEPT ![c] = "none"]
    /\ UNCHANGED <<contractVars, checked, age, readingVars, billVars, sweepVars, refusals>>

(* updateContract: any status and type; the schedule starts again if the   *)
(* start date is sent, which the only form that edits contracts does.      *)
UpdateContract(c, k, s, sendsStart) ==
    /\ Exists(c)
    /\ status' = [status EXCEPT ![c] = s]
    /\ kind' = [kind EXCEPT ![c] = k]
    /\ next' = [next EXCEPT ![c] = IF k # "FSMA" THEN 0
                                   ELSE IF @ = 0 \/ sendsStart THEN 1 ELSE @]
    /\ UNCHANGED <<invoiceId, signVars, age, readingVars, billVars, sweepVars, faultVars>>

(* The readings go with the contract (ON DELETE CASCADE).                  *)
DeleteContract(c) ==
    /\ Exists(c)
    /\ c \notin invoiceId
    /\ status' = [status EXCEPT ![c] = "DELETED"]
    /\ rows' = {r \in rows : of[r] # c}
    /\ UNCHANGED <<kind, next, invoiceId, signVars, age, of, by, billVars, sweepVars, faultVars>>

RecordMeterReading(c, r) ==
    /\ status[c] = "ACTIVE"
    /\ of[r] = NoContract /\ \A q \in Reading : q < r => of[q] # NoContract
    /\ of' = [of EXCEPT ![r] = c]
    /\ rows' = rows \cup {r}
    /\ UNCHANGED <<contractVars, signVars, age, by, billVars, sweepVars, faultVars>>

MonthPasses(c) ==
    /\ status[c] # "NONE"
    /\ age[c] < MaxAge
    /\ age' = [age EXCEPT ![c] = @ + 1]
    /\ UNCHANGED <<contractVars, signVars, readingVars, billVars, sweepVars, faultVars>>

----------------------------------------------------------------------------
(* The sweep: at the start of the service, then every 24 hours.            *)

Due(c) == status[c] = "ACTIVE" /\ kind[c] = "FSMA" /\ next[c] # 0 /\ next[c] <= age[c]

Sweep(p, left, one, unbilled, invoice) ==
    /\ pc' = p /\ todo' = left /\ cur' = one /\ pending' = unbilled /\ made' = invoice

(* Mutant: the invoice of the turn that ends is kept.                      *)
GoOnKeepingInvoice ==
    Sweep(IF todo = {} THEN "idle" ELSE "loop", todo, NoLoaded, {}, made)

(* On to the next contract of the list.                                    *)
GoOn == Sweep(IF todo = {} THEN "idle" ELSE "loop", todo, NoLoaded, {}, NoInvoice)

StartSweep ==
    /\ pc = "idle"
    /\ \E c \in Contract : Due(c)
    /\ Sweep("loop",
             {[contract |-> c, next |-> next[c], invoiced |-> c \in invoiceId] :
                c \in {d \in Contract : Due(d)}},
             NoLoaded, {}, NoInvoice)
    /\ UNCHANGED <<contractVars, signVars, age, readingVars, billVars, faultVars>>

(* Mutant: readings are swept whether billed or not.                       *)
UnbilledOrNot(c) == {r \in rows : of[r] = c}

Unbilled(c) == {r \in rows : of[r] = c /\ by[r] = NoInvoice}

(* Nothing to bill, or no branch to bill for: the schedule moves on.       *)
TakeTurn ==
    /\ pc = "loop"
    /\ \E one \in todo :
         LET c == one.contract IN
         Sweep(IF Unbilled(c) # {} /\ c \in HasBranch THEN "posting" ELSE "saving",
               todo \ {one}, one, Unbilled(c), NoInvoice)
    /\ UNCHANGED <<contractVars, signVars, age, readingVars, billVars, faultVars>>

(* createContractInvoice in the billing service.                           *)
CreateInvoice ==
    /\ pc = "posting"
    /\ \E i \in Invoice :
         /\ bill[i] = {} /\ \A j \in Invoice : j < i => bill[j] # {}
         /\ bill' = [bill EXCEPT ![i] = pending]
         /\ Sweep("created", todo, cur, pending, i)
    /\ UNCHANGED <<contractVars, signVars, age, readingVars, lost, faultVars>>

(* Billing answers, but not with success: the readings stay unbilled and   *)
(* the schedule moves on all the same.                                     *)
InvoiceRefused ==
    /\ pc = "posting"
    /\ refusals < MaxRefusals /\ refusals' = refusals + 1
    /\ Sweep("saving", todo, cur, {}, NoInvoice)
    /\ UNCHANGED <<contractVars, signVars, age, readingVars, billVars, faults>>

(* Mutant: whatever is unbilled by now is marked.                          *)
MarkBilledAll ==
    /\ pc = "created"
    /\ status[cur.contract] # "DELETED"
    /\ by' = [r \in Reading |-> IF r \in Unbilled(cur.contract) THEN made ELSE by[r]]
    /\ UNCHANGED <<of, rows>>
    /\ Sweep("saving", todo, cur, {}, NoInvoice)
    /\ UNCHANGED <<contractVars, signVars, age, billVars, faultVars>>

(* The answer has come, and the readings are saved as they were read.      *)
MarkBilled ==
    /\ pc = "created"
    /\ status[cur.contract] # "DELETED"
    /\ by' = [r \in Reading |-> IF r \in pending THEN made ELSE by[r]]
    /\ rows' = rows \cup pending
    /\ Sweep("saving", todo, cur, {}, NoInvoice)
    /\ UNCHANGED <<contractVars, signVars, age, of, billVars, faultVars>>

(* Mutant: the schedule moves on twice.                                    *)
AdvanceTwice ==
    /\ pc = "saving"
    /\ status' = [status EXCEPT ![cur.contract] = "ACTIVE"]
    /\ kind' = [kind EXCEPT ![cur.contract] = "FSMA"]
    /\ next' = [next EXCEPT ![cur.contract] = cur.next + 2]
    /\ invoiceId' = IF cur.invoiced THEN invoiceId \cup {cur.contract}
                    ELSE invoiceId \ {cur.contract}
    /\ GoOn
    /\ UNCHANGED <<signVars, age, readingVars, billVars, faultVars>>

(* The contract is saved as it was loaded, but for its next date: an edit  *)
(* is undone, a deleted row is inserted again.                             *)
Advance ==
    /\ pc = "saving"
    /\ status' = [status EXCEPT ![cur.contract] = "ACTIVE"]
    /\ kind' = [kind EXCEPT ![cur.contract] = "FSMA"]
    /\ next' = [next EXCEPT ![cur.contract] = cur.next + 1]
    /\ invoiceId' = IF cur.invoiced THEN invoiceId \cup {cur.contract}
                    ELSE invoiceId \ {cur.contract}
    /\ GoOn
    /\ UNCHANGED <<signVars, age, readingVars, billVars, faultVars>>

Dropped == IF pc = "created" THEN lost \cup {made} ELSE lost

(* A call or a query throws: the error is logged, the next contract's turn *)
(* comes, and this one is due again tomorrow.  The readings of a deleted   *)
(* contract cannot be saved.                                               *)
TurnFails ==
    /\ pc \in {"posting", "created", "saving"}
    /\ IF pc = "created" /\ status[cur.contract] = "DELETED"
       THEN UNCHANGED faults
       ELSE faults < MaxFaults /\ faults' = faults + 1
    /\ lost' = Dropped
    /\ GoOn
    /\ UNCHANGED <<contractVars, signVars, age, readingVars, bill, refusals>>

(* The inventory service stops, whatever it was doing, and starts again.   *)
Restart ==
    /\ faults < MaxFaults /\ faults' = faults + 1
    /\ lost' = Dropped
    /\ Sweep("idle", {}, NoLoaded, {}, NoInvoice)
    /\ checked' = {}
    /\ signing' = [c \in Contract |-> "none"]
    /\ UNCHANGED <<contractVars, age, readingVars, bill, refusals>>

SweepStep ==
    \/ StartSweep \/ TakeTurn
    \/ CreateInvoice \/ InvoiceRefused
    \/ MarkBilled \/ Advance

ScreenStep(c) ==
    \/ CheckMachine(c)
    \/ \E k \in Kind : CreateContract(c, k)
    \/ SigningInvoice(c) \/ SaveInvoiceId(c) \/ SigningFails(c)
    \/ \E k \in Kind, s \in {"ACTIVE", "EXPIRED", "TERMINATED"}, sendsStart \in BOOLEAN :
         UpdateContract(c, k, s, sendsStart)
    \/ DeleteContract(c)
    \/ \E r \in Reading : RecordMeterReading(c, r)
    \/ MonthPasses(c)

Next ==
    \/ \E c \in Contract : ScreenStep(c)
    \/ SweepStep
    \/ TurnFails
    \/ Restart

Spec == Init /\ [][Next]_vars

(* The sweep is started again every 24 hours and each of its steps is      *)
(* followed by the next or by an exception; time passes.                   *)
Fairness ==
    /\ WF_vars(SweepStep \/ TurnFails)
    /\ \A c \in Contract : WF_vars(MonthPasses(c))

FairSpec == Spec /\ Fairness

----------------------------------------------------------------------------
(* Properties.                                                             *)

TypeOK ==
    /\ status \in [Contract -> Status]
    /\ kind \in [Contract -> Kind]
    /\ next \in [Contract -> Nat]
    /\ invoiceId \subseteq Contract /\ checked \subseteq Contract
    /\ signing \in [Contract -> Signing]
    /\ age \in [Contract -> 0 .. MaxAge]
    /\ of \in [Reading -> Contract \cup {NoContract}]
    /\ rows \subseteq Reading
    /\ by \in [Reading -> Invoice \cup {NoInvoice}]
    /\ bill \in [Invoice -> SUBSET Reading]
    /\ lost \subseteq Invoice
    /\ pc \in {"idle", "loop", "posting", "created", "saving"}
    /\ todo \subseteq Loaded /\ cur \in Loaded
    /\ \A one \in todo : one.contract \in Contract
    /\ pc \in {"posting", "created", "saving"} => cur.contract \in Contract
    /\ pending \subseteq Reading
    /\ made \in Invoice \cup {NoInvoice}
    /\ pc = "created" <=> made # NoInvoice
    /\ faults \in 0 .. MaxFaults /\ refusals \in 0 .. MaxRefusals

(* A reading is marked as billed only with an invoice whose amount it is   *)
(* part of, also when it was recorded while the invoice was being created  *)
(* ("only unbilled ones get swept into the next bill").                    *)
MarkedIsBilled ==
    \A r \in Reading : by[r] # NoInvoice => r \in bill[by[r]]

(* However readings, edits, deletions and sweeps interleave, no reading is *)
(* charged on two bills, unless the sweep was stopped, or lost the answer, *)
(* between the creation of one of them and the marking of its readings.    *)
BilledTwiceOnlyAfterLoss ==
    \A i, j \in Invoice : i # j /\ bill[i] \cap bill[j] # {} => i \in lost \/ j \in lost

(* A reading of an FSMA contract that stays active is billed in the end,   *)
(* although the sweep may fail or stop between any two of its steps and    *)
(* billing may refuse a bill.  (The contract needs another billing date    *)
(* within the instance for that, and one more for each refusal to come.)   *)
Billable(c) == status[c] = "ACTIVE" /\ kind[c] = "FSMA" /\ c \in HasBranch

DatesLeft(c) ==
    LET toCome == MaxRefusals - refusals IN
    /\ next[c] + toCome < MaxAge
    /\ \A one \in todo \cup {cur} : one.contract = c => one.next + toCome < MaxAge

ReadingIsBilled ==
    \A r \in Reading :
        (\E c \in Contract : of[r] = c /\ r \in rows /\ DatesLeft(c))
          ~> (by[r] # NoInvoice \/ r \notin rows \/ \E c \in Contract : of[r] = c /\ ~ Billable(c))
=============================================================================
