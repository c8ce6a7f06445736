# Xerocare: a TLA+ model

Xerocare runs the business of a company that sells, rents and leases office
machines: stock in several branches and warehouses, quotations and contracts,
meter readings and invoices, service tickets, accounting.  It is a set of
TypeScript services (Express, TypeORM on PostgreSQL, RabbitMQ, Redis) and a
Next.js frontend.  This directory models the part of it that unit tests reach
least: state that several request handlers, several services or a redelivered
message change at the same time.

All paths below are relative to `src/backend/` unless they start with `src/`.
The repository has no automated tests; what the code promises is taken from its
comments, error messages and documents, and quoted where a run refutes it.

## Inventory

| Part | State | Operations | Interacts with | Hard behaviour | What makes it correct |
|---|---|---|---|---|---|
| Stock transfers (`ven_inv_service/src/services/stockTransferService.ts`) | `stock_transfers`, `stock_transfer_items`, counters of `spare_parts`, `warehouse_id` and `transfer_status` of `products`, one lot per transfer | createDraft, submit, approve, reject, dispatch, cancel, completeFromLot | lots (receipt), product status events, exchange rates, notifications | status checked outside the transaction, locks in approve only, several transfers on one row | reservations equal what is held, no unit lost, a machine in one transfer, lot and transfer agree |
| Lots (`repositories/lotRepository.ts`) | `lots`, `lot_items` | create, updateReceivingQuantities, confirmLotReceived, shipment and costs | transfers, purchases, products created in bulk | counting overlaps confirming | a received lot stays closed |
| Inventory events (`worker/productAllocationWorker.ts`, `sparePartReductionWorker.ts`) | `processed_invoice_items`, `products`, `spare_parts`, queues | consume, acknowledge, dead-letter | direct sales in billing, the broker | redelivery, crash between commit and acknowledgement, concurrent deliveries, connection loss | each sale changes the stock once |
| Product status events (`worker/productStatusUpdateWorker.ts`) | `products` | consume, requeue once | every contract flow in billing | unordered events of one machine, missing acknowledgement | the machine's status follows its contract |
| Service tickets (`controllers/serviceController.ts`) | tickets, estimates, revisions, `inventory_reservations`, `spare_parts` | create, claim, diagnose, estimate, approve, start, pause, complete, cancel | the counters transfers and sales use, billing, CRM leads | no transaction around reservation, repeated approval, cancel beside approve | reserved parts are released or consumed once |
| Contracts (`billing_service/src/services/billingService.ts`, `machineSwapController.ts`, `creditNoteController.ts`, `cron.ts`) | `invoices` (status and contractStatus), `product_allocations`, swap requests, usage | quotation and its approvals, convert, allocateMachines, activate, reject, replace, swap, refund, exchange, final usage, expiry | inventory over HTTP and events | allocation race, release of machines after the commit in several statements, rejected but activatable contracts | a machine on one contract, an ended contract keeps none, the inventory follows |
| Direct sale (same file) | `invoices`, `product_allocations` | createDirectSale | inventory (HTTP check, events) | check before, effect after the transaction | no oversell |
| Payments, cheques, cashbook (`billingService.recordPayment`, `saleWorkflowController`, `chequesRoutes`, `cashbookService`) | `invoice_ledger`, `payment_transactions`, requests, `cheques`, `cashbook_entries`, account balance | recordPayment, request, approve, reject, deposit, clear, bounce, cancel, start-up reconciliation | contracts, sales | every write a commit of its own, unlocked balance, reviews and clears that overlap | each payment in the cashbook once, PAID means paid |
| Service contracts (`controllers/serviceController.ts`, `services/fsmaBillingJob.ts`) | `service_contracts`, `contract_meter_readings`, invoices in billing | create with invoice at signing, edit, delete, record a reading, the daily billing sweep | billing over HTTP | the sweep between two services, stale rows written back, stops anywhere | each reading on one bill, and on one in the end |
| Usage and billing calculation (`usageService`, `billingCalculationService`) | usage records | record, bill, slab pricing | contracts | replaced machines, boundaries of slabs | the bill covers each copy once |
| Other schedulers (`cron.ts`, `preventativeMaintenanceJob.ts`) | last-run marks | expiry, reminders | contracts, tickets | restart inside a run | once per period |
| Accounting reports, expenses | read mostly | aggregation | payments | none of its own | out of scope |
| Purchasing (vendors, RFQ, purchases) | RFQs, quotes, purchases | send, award, convert to lot | lots | linear | one award per RFQ |
| Catalogue (models, products, warehouses) | single rows, Redis cache | CRUD | all; its product form writes `warehouse_id` and `product_status` of machines transfers work with | stale cache, rows changed or deleted under a transfer or an event | cache invalidated by each writer; transfers and events cope |
| Employee service | employees, tokens, OTP, leave, payroll | sign-in, leave approval, e-mail worker | all (authentication) | token rotation, e-mail retry | not modelled |
| CRM service | customers, leads | CRUD, conversion | billing | single rows | not modelled |
| API gateway, frontend, scripts | none that matters here | proxying, presentation, maintenance | all | none | not modelled |

`PROJECT.json` lists the same parts with their status, and under `hazards` each
place where one of these behaviours can go wrong.

## Modules

| Module | Contents |
|---|---|
| `StockTransfer` | the transfers and their lots, every operation one step: the abstract specification |
| `StockTransferProofs` | the inductive invariant and the theorems about `StockTransfer` |
| `StockTransferRace` | the same operations as the handlers run them: load, read rows, commit |
| `InventoryEvents` | direct sales, their events, and the two idempotent consumers |
| `ServiceTickets` | service tickets, their estimates and the parts they hold, beside the other users of a spare-part row |
| `ServiceTicketsProofs` | the inductive invariant and the theorems about `ServiceTickets` |
| `StockTransferRaceProofs` | what overlapping handlers cannot break, and the refinement of `StockTransfer` by one |
| `InventoryEventsProofs` | exactly-once application of events, and no unit taken twice |
| `MachineHolding` | what allocations promise: a machine is out with one contract (abstract) |
| `ContractLifecycle` | quotations, contracts and direct sales, their allocations, and the inventory's view of the machines |
| `ContractLifecycleProofs` | the refinement of `MachineHolding` and the invariants of `ContractLifecycle` |
| `PaymentLedger` | the money of one sale, round trip by round trip |
| `PaymentLedgerProofs` | no payment is booked twice, cash is booked, PAID is paid |
| `ServiceContracts` | service contracts, their readings and the monthly billing sweep |
| `ServiceContractsProofs` | the inductive invariant of the sweep |
| `SumTheorems` | sums over finite sets, for the proofs that add up units and amounts |
| `MC...` | values of the constants for TLC |

An operator introduced by a comment "Mutant" is a variation of the definition
after it, with a bug that definition does not have.  No specification uses it;
it is there to show that a property notices.

### StockTransfer

The rows of the database are functions: `status`, `assigned`
(`assigned_product_ids`), `approved` (`approved_qty`) and `lot` by transfer,
`quantity` and `reserved` by spare-part row, `warehouse`, `transferStatus` and
`available` by machine.  `body` is the request the client sent.  An action is a
service method with the calls it makes: `Approve` includes `createTransferLot`,
`ConfirmReceived` is `confirmLotReceived` with `completeFromLot` inside its
transaction, `CreateDraft` includes the two validations.

The rows are shared, and the other writers are in the model as they touch them:

- `ProductStatusUpdate` (the worker of status events) and `EditProduct` (the
  product form, which sends `warehouse_id` and `product_status` with every save)
  write a machine's row and never look at `transfer_status`;
- `OtherChange` is what sales, returns and service tickets do to a spare-part
  row: `Sale`, `Return`, `TicketReserve`, `TicketRelease`, `TicketConsume`.  A
  sale checks nothing and may drive `quantity` below zero, a ticket looks at
  `quantity` alone, without the reservations of transfers.  `ticketed` is the
  part of `reserved` that tickets hold; `others` and `moved` record what those
  services put on or took off a row, and which machines staff moved since a
  transfer took them, so that the properties can tell what transfers do from
  what others do to them.

The other services' own rules are in `ServiceTickets` and `InventoryEvents`;
here they may do any of this to the rows of `SharedRow`, at any time.

What is abstracted:

- a spare-part row is identified by the part (name, brand, model) and its
  warehouse, so the destination row that `resolveDestSparePart` finds or creates
  is the row of the same part at the destination, with zero counters until then;
- a request has at most one line per row or model, and its destination warehouse
  belongs to the destination branch; spare-part rows without a warehouse are
  left out;
- after approval `dispatched_qty` equals `approved_qty`, so one variable stands
  for both; `item_status` is APPROVED exactly for lines with an approved quantity;
- who may call (branch, role, not one's own request), prices, exchange rates,
  notifications and caches; the lease check of billing, which lets the machine
  pass whenever billing does not answer, can only refuse a step;
- `markSparePartDamaged` and the manual `updateStock` change `quantity` as a sale
  or a return does; rows deleted while a transfer uses them, and spare-part rows
  moved to another warehouse by hand, are left out.

### StockTransferRace

A handler (`Handler`) first loads the transfer and checks its status
(`Load`), reads the stock rows in its transaction (`ReadRows`) and commits
(`Commit...`), or fails at any point (`Fail`, a rollback).  `approve` reads with
`setLock('pessimistic_write')`, so its read and commit are one step.  PostgreSQL
runs at READ COMMITTED, so everything else may interleave.  The two values of
`fresh` are the two things TypeORM's `save(entity)` can do to a column the
handler did not assign: it compares the entity with a row it reads again, and
writes the old value back unless the other transaction commits after that
comparison.  The UNIQUE lot number makes a second lot of one transfer roll back.
`reject` marks the lines in one commit (`CommitRejectItems`) and saves the
transfer in another (`CommitReject`).  The other writers run in handlers too:
`ReadMachine` and `SaveStatus` (the status worker, which saves the whole product
it read, `transfer_status` and `warehouse_id` included), `ReadPart` and
`SavePart` (sales, returns, tickets), and `EditRow`, one `UPDATE` statement.  `Op`
says which of the ten kinds of handler an instance has.
`ReadRows` reads all rows of a request at once, which leaves out interleavings
inside the loop over lines; the instances have one machine and one part row, so
nothing is lost in them.

### InventoryEvents

Each invoice item goes through billing (`sale`), the broker (`message`) and the
consumer (`worker`).  `CheckStock`, `CommitInvoice` and `Emit` are the parts of
`createDirectSale` before, in and after its transaction; `LoseEvent` is a crash
or a swallowed publishing error in between.  `ReadRow` and `CommitStock` are the
consumer's unlocked read and its transaction, which also writes
`processed_invoice_items`; `Ack` and `DeadLetter` settle the message if the
channel is still open.  `DeleteRow` is the deletion of a part or product in the
catalogue, which may come at any time; the consumer does not find a deleted row
and acknowledges its event without applying it (`SkipMissing`).  `Disconnect`
leaves the process running with its consumers gone (`config/rabbitmq.ts`
reconnects on the next publication but subscribes nobody; `app.ts` keeps the
process alive), `Restart` subscribes them again.  There is one process per service (`src/ecosystem.config.js`), so no two
handlers work on the same event at once.  Redelivery and the operator's move of
a dead letter are the broker's (marked external in the map).
Events without an item id or with an invalid payload, which the consumers drop or
apply without a record, are not sent by these publishers and are left out.

### ServiceTickets

`status`, `diagnosed`, `started`, `paused` and `quoted` are columns of
`service_tickets`; `estimates` is the sequence of a ticket's estimates and
`revision` its revision; `trackA` are the tickets of free contexts, decided at
creation; `held` counts the units of the ticket's RESERVED rows
in `inventory_reservations`; `quantity`, `reserved`, `consumed` and `damaged`
are the counters of `spare_parts`.  `promised` and `gone` are the share of the
other users of those counters: what approved transfers reserved, and what was
sold or dispatched.  An action is a handler of `serviceController.ts`, alone.
`reserveSparePart`, `releaseReservations` and `consumeReservations` are the
operators `ReserveParts`, `ReleaseReservations` and `ConsumeReservations`; the
first reserves the lines `done` the loop got through before one did not fit
(`LoopEnds`), and the handler keeps what it saved before.

What is abstracted:

- lines are items of a fixed set, each with a part and a quantity; a row is on
  one estimate of a ticket or on its revision, and custom lines (no part) are
  left out;
- a ticket has at most one revision, which has no status, because no handler
  reads it;
- `PatchQuotationLink` writes any status on any ticket, as its route allows;
  `closedByLink` records the tickets whose last status it wrote and closed, which
  the properties about closed and completed tickets set apart;
- the callbacks `ExtendValidity` and `ReviseEstimate` come for quoted tickets
  only; finance approval and rejection can be called for any ticket, as the
  route allows;
- `startDiagnosis` and technician claims change nothing that is modelled;
- coverage, prices, visit charges, yields, history and lead conversion;
- a transfer is seen from the part row only: `TransferApproved`,
  `TransferCancelled` and `TransferDispatched` are what `StockTransfer` does to
  the row at its source, `Sold` is what a consumed sale event does, and `Sold`
  does not oversell.

### MachineHolding and ContractLifecycle

`saleType`, `type`, `status`, `contractStatus` and `item` are columns of
`invoices` and its one PRODUCT line, `allocated` the ALLOCATED rows of
`product_allocations`, `past` the contracts with other rows, `swap` the pending
request of a contract.  `stock` is `products.product_status` in the inventory
service, `queue` the events under way to it.  Reads and first commit of a handler
are a step, with three exceptions whose check and save lie far apart:
`DeleteInvoice` (`CheckDelete`, kept in `removing`), `AllocateMachines`
(`CheckAllocation`; the inventory is asked over HTTP in between) and
`ReplaceDevice` (`CheckReplacement`), both kept in `checked`: whatever happens
meanwhile, they save what they set out to save.  What a handler does after its
first commit is not part of the step either: `FinanceReject` and
`RecordFinalUsage` start a release that `ReleaseFind` and `ReleaseUpdate`
finish, statement by statement, or `ReleaseCutShort` does not.
`UpdateStatus` writes any status, as `PUT /:id/status` does for any caller.  The events of
one machine are handled concurrently (no prefetch), so any queued event may be
applied next, again, or never.

`MachineHolding` says what the allocations are for: take a free machine, give
machines back, exchange one for a free one, in one step.  `ImplementsHolding` is
the refinement (`held <- allocated`).

The inventory agrees with billing only up to causes the model names in
`explained`: events that cross or are lost, and the places where the code
reports what its own allocations do not say:

- a refunded machine returns to stock while its allocation stays ALLOCATED
  (`creditNoteController.ts`, whose comment says it "is still perfectly sellable
  and goes back to stock": the index refuses to sell it);
- the expiry job reports RETURNED and leaves the rows ALLOCATED;
- an approved swap reports the machine recorded with the request, not the one
  whose row it closes; on a sale without allocation it opens one;
- a release that publishes for the rows it found, not for those it updated;
- a replacement on a sale reports RENT; one that is saved after its row was given
  back reports that machine RETURNED, whoever has it by then.

An ended contract keeps no machine up to causes recorded in `stranded`, at the
step where they happen and until the next release: a release cut short, a status
set by hand while the contract has machines, and a replacement saved after the
row it read had been given back.  The history is kept for rentals and leases
only, of which the property speaks; so is `past`.

What is abstracted: one PRODUCT line per contract; prices, usage, taxes and
notifications; createQuotation, edits of lines, templates and service
quotations; `processReturn` (changes no modelled state) and `completeContract`
(answers 410); DAMAGED returns; consolidated invoices of sales; more than one
allocation or replacement of one contract between its check and its save at a
time; two approvals of one swap or credit note at the same time (one step each).
`BackOnShelf` is the one manual edit of a machine that is modelled.

### PaymentLedger

`credited` and `reversals` count the transactions of each payment, `rows` and
`paid` are the rows of `invoice_ledger`, `cheque` and `entries` the cheque and
the cashbook entries of each payment, `balance` the account.  `work` is what a
handler has read.  `recordPayment` shares no transaction between its writes, so
each round trip is an action, and a handler may fail or the service restart
between any two; `CommitApproval` is a transaction, with the unique columns of
`cashbook_entries` as the guard that aborts it.

What is abstracted: one invoice with a fixed total, one account, one currency;
legacy `payment_ledgers` rows, opening and manual entries, cheques entered or
edited by hand and ISSUED cheques; the growth of a rental's total by usage
bills; who may review.

### ServiceContracts

`status`, `kind`, `next` (`nextBillingDate`, in months from the start) and
`invoiceId` are columns of `service_contracts`; `of`, `rows` and `by` describe
`contract_meter_readings`; `bill` are the invoices in billing.  Creating a
contract is three or four steps (`CheckMachine`, `CreateContract`,
`SigningInvoice`, `SaveInvoiceId`), the other screens one each.  The sweep
(`StartSweep`, then for each contract `TakeTurn`, `CreateInvoice`, `MarkBilled`,
`Advance`) keeps what it loaded in `todo` and `cur`: `Advance` saves the whole
contract as it was loaded, which undoes an edit made meanwhile and inserts a
deleted row again (TypeORM's `save`).  `InvoiceRefused` is an answer of billing
without success: nothing is billed and the schedule advances all the same.
`TurnFails` and `Restart` may come after
any step.

What is abstracted: every reading is chargeable, its amount and meters are left
out; AMC is not told from SMA, whose readings the code records and never bills;
terms do not end; an edit resends the start date it found; the sweep's
notifications.  Readings and bills are numbered in order of creation.

## Runs

| Run | Question | Instance and why it is enough |
|---|---|---|
| `transfers` | are counters, machines and lots consistent when operations do not overlap? | two transfers, any pair of four bodies (two INTRA in opposite directions, two INTER), two machines of one model, one part, three warehouses in two branches. Each pair shares a row and a machine; partial approval, two source rows landing on one, and a body that cannot be served all occur. Beside them status events, one machine that staff may move to the other branch, and one row of which sales, returns and tickets take, put on or hold one unit (net): enough for a row that lacks what an approval was promised. 1,010,688 states, deadlock checked (status events keep the system live) |
| `race_one_handler` | do load, read and save implement the atomic operation? | two transfers, one handler, both types, every operation and every other writer. Refinement: `StockTransferRace` shares the rows with `StockTransfer`, so with `linked` and `req` hidden it must satisfy its `Spec`. 416,904 states |
| `race_approvals` | do the row locks keep approvals apart, and does an approved transfer have its lot? | two INTER requests for the same machine and the same two units, two handlers. Only operations that write no stale row back: submit, approve, reject, count, confirm, and the product form; an unlocked cancel or dispatch, the status worker or a sale would overwrite the row (see below). The theorem about `ApprovedHasLot` has no such limit. 1,348,824 states |
| `race_dispatch` | expected violation | one INTER transfer, two handlers |
| `events` | is the stock changed once per sale, never by more than is on record, and every event settled in the end? | two sales of one part and two of one machine, two outages (lost connection, restart or redriven dead letter) at any point, rows deleted at any point, fairness. 356,256 states |
| `tickets` | do the counters of a part agree with what tickets hold, and does a closed ticket hold nothing, in every order of the handlers? | one ticket, free or chargeable, one estimate and its revision, lines of one and two units of a part with two on the shelf: a list that is reserved in part, a repeated approval, a closed ticket that is reopened, a row that a transfer has reserved, a status written by the quotation link all occur. 1,365,111 states |
| `tickets_promise` | expected violation | one ticket, no estimate |
| `contracts` | do allocations, contracts and the inventory agree through a contract's whole life? | a rental or a lease beside a direct sale that competes for the same two machines, with up to two events of a rental under way when a step adds to them (enough for overtaking, loss, repetition, a release crossed by an allocation) and one of a lease; and a sale with swaps, refunds, exchanges and deletion, the events of one step under way at a time. By hand the rental is set to FINANCE_REJECTED and the lease to that or DRAFT (which lets it be deleted with its machines, or allocated again); the lease is deleted, rental and lease have machines replaced. 2,224,585 states |
| `contracts_activation` | expected violation | the same |
| `payments` | is a payment booked once, and is PAID paid? | two handlers; a requested cheque and a requested cash payment, a direct cheque with the first one's number, a cash deposit; the total needs two of them. 2,841,000 states |
| `payments_dishonour` | expected violation | one handler |
| `service_billing` | is each reading billed once, and in the end? | one contract, three billing dates, two readings, two failures or stops, one refused bill; four bills are what two readings and two failures can need, and the third date is what the refused bill costs. 268,926 states, fairness |

`CHECK_DEADLOCK FALSE` is set where the system really may stop: requests are
clients' choice and every transfer, sale or contract of the instance may be
finished.  Bounds: `MaxQty` (quantity of a line), `MaxOutages`, `MaxEstimates`
(estimates of a ticket), `MaxOther` and `SharedRow` (what other services take off,
put on or hold of which part rows), `Edit` (the machines staff move, and where),
`MaxQueue` (events under way when a step adds to them), `Worked` (the contracts
with more than a direct sale), `SetByHand` and `Called` (the statuses set by hand,
and whether deletion and replacement are called, for each mix of sale types),
`MaxAge` (months), `MaxFaults`, `MaxRefusals`, and the sets of
payments, readings and bills.  The theorems hold for all values of these.
Symmetry is used over transfers, handlers
and machines, and never in a run with a liveness property.

Fairness.  `events`: weak fairness of `Deliver`, because a broker pushes what is
queued to a subscribed consumer, and of `Handle`, because an asynchronous
handler runs on to its acknowledgement or its exception.  Nothing obliges a lost
connection to come back (nothing in the code does), so the property assumes
`<>[]consuming`.  `service_billing`: weak fairness of the sweep, because the job
runs when the service starts and every 24 hours, and each of its steps is
followed by the next or by an exception that is caught; and of the passing of
time.  Nobody has to create, edit or record anything.  The property asks that
the contract has another billing date before `MaxAge`, where the instance ends,
after those that refused bills still to come may cost.

### What the violations show

- `race_dispatch`: dispatch checks the status on a row loaded outside its
  transaction.  A cancel that commits in between is overwritten: the transfer is
  IN_TRANSIT with a CANCELLED lot, its reservation released twice (the second
  one hidden by `Math.max(0, ...)`).
- `tickets_promise`: a ticket takes reserved units out of `quantity`, a transfer
  leaves them in and adds to `reserved_quantity`.  The ticket's check
  (`part.quantity < quantity`) does not see the transfer's reservation, so an
  approved transfer may find its units gone and drive `quantity` below zero.
- `contracts_activation`: finance rejects a rental and takes its machine back;
  `contractStatus` stays PENDING_CONFIRMATION and the row, now RETURNED, still
  counts, so the contract can be activated without a machine.
- `payments_dishonour`: cheques filed by `recordPayment` have the source type
  INVOICE, the reversal looks for SALE, RENT and LEASE: a bounced cheque keeps
  its credit.

The models contain more behaviour of this kind, which has no run of its own:

- sales drive a part's `quantity` below zero, and sales and tickets take units an
  approved transfer was promised; the product form moves a machine that is
  committed or on its way, and the transfer is dispatched and received all the
  same;
- a status worker that read a machine before an approval clears its
  `transfer_status`, and a second approval takes the machine;
- an event whose row was deleted is acknowledged and nobody hears of it;
- the quotation link completes or cancels a ticket and leaves its parts reserved;
- a status set by hand ends a contract that keeps its machines, or lets it be
  deleted with them; so does a deletion that overlaps an allocation; a
  replacement beside a release puts a machine on an ended contract;
- a bill refused by billing advances the schedule as if it had been made;
- approve, which locks machines and part rows but not the transfer, approves a
  request cancelled meanwhile; a count that read its lot before the receipt
  reopens it;
- two reductions of one part handled at once: one is lost although both are on
  record, so redelivery cannot repair it (`NoUnitTakenTwice` says that the error
  never goes the other way);
- two direct sales checked before either event is applied oversell;
- a customer's acceptance reserves no parts and a repair needs no approval,
  unlike `src/docs/unified_service_and_contract_workflow.md` lines 216 and 150;
- the sweep that lost the answer of billing bills the same readings again the
  next day; a schedule that has fallen behind, or was restarted by an edit, bills
  twice in a month (`fsmaBillingJob.ts` says "only ever generated once a month");
- two creations of contracts for one machine both pass the search for an active
  one, and an edit to ACTIVE does not search;
- a contract is deleted between its invoice and the saving of `invoiceId`, and an
  FSMA contract, which never gets one, after any number of monthly bills;
- a rejection that loaded its request before the approval overwrites APPROVED; a
  clear beside a bounce books the money and reverses the credit; a paid invoice
  whose cheque bounced stays PAID until the service restarts.

## Proofs

`StockTransferProofs` proves about `StockTransfer`, for any finite sets of
transfers, machines and warehouses, any branches, models, parts, quantities and
request bodies that satisfy `ConstantsAssumption`:

- `InvariantHolds`: `Spec => []IInv`;
- from it `TypeCorrect`, `ReservationsExact`, `MachineExclusive`, `LotsAgree`,
  `TakenMachinesStay`, and the action property `PromisesAreKept`.

`IInv` is the conjunction of the properties with what they need of one another.
`TypeOK` alone is not inductive: a ticket's release or a dispatch subtracts from
`reserved`, and that the result is what is still held, and a natural number,
needs the reservation to contain that share (`ReservedMatchesApprovals`), or
`Monus` would clip.  Nothing of the kind holds of `quantity`, which is an integer.
`TakenStandsAtSource` needs `MachineInOneTransfer`: a receipt moves the machines
it carries, and another transfer's machine is not among them.
`PromisesAreKept` goes through the actions that hold or take units:
an approval takes at most what is free, so it takes no row short
(`ApproveKeepsPromises`), an INTRA dispatch the same
(`DispatchIntraKeepsPromises`), and a dispatch of approved units lowers the
promise and the shelf alike (`ReleaseKeepsPromises`).  The counter lemmas (`HeldUnitsTaken`,
`HeldUnitsReturned`, `HeldUnitsKept`) say how the sum of held units changes when
one transfer enters or leaves APPROVED.  There is one lemma per action that
touches stock, and `PaperworkStep` for those that do not.

On top of `IInv`, `StockIsConserved`: the units of a part on all shelves and on
the way are those of the beginning and what the other services put on the shelves
since.  A dispatch is a departure
(`DepartureConserves`): each row loses what the transfer takes from it, and the
transfer travels with their sum.  A receipt is an arrival (`ArrivalConserves`):
one row of the part gains that sum (`UnitsOfLanding`).  Every other action moves
nothing between the two (`NothingMoves`), and a sale, return or ticket changes
the shelf by what `others` records (`OthersConserve`).

`ServiceTicketsProofs` proves about `ServiceTickets`, for any finite set of
tickets, any parts, any finite set of lines, any stock and any bound on
estimates that satisfy `ConstantsAssumption`: `TicketInvariantHolds` and from it
`TicketTypes`, `ClosedTicketsHoldNothing` and `PausedTicketsAreUnfinished`.  The
invariant is the conjunction of the three properties: a closed ticket holds
nothing because whatever reserves also sets a status that is not closed
(`ReserveStep`), and whatever leaves the reservations alone closes no ticket
(`PaperStep`); `CompleteStep` and `CancelStep` are the two that close.  The
quotation link, which can close anything, records that it did (`LinkStep`).

`ReservedIsAlwaysHeld` and `UnitsAreAccounted` follow from `Accounts`, which says
both of each part.  `ReserveBalances`, `ReleaseBalances` and `StockStepBalances`
show what a list of lines, a release or a consumption and the other users of the
row do to the balance.  A release subtracts a ticket's units from
`reserved`, which contains them, so the clipping of `Monus` never bites.

`StockTransferRaceProofs` has three results.

- `ApprovedTransferHasLot`: with any transfers, handlers and operations, all
  overlapping, an approved transfer has the one lot its approval created and it
  can still be received.  `LotInv` adds what a receipt in flight knows: one that
  read its lot before the approval will fail (`ConfirmSawApproval`).
- `ApprovalsAreExclusive`: with any handlers overlapping, approved transfers
  share no machine and no units, provided clients neither dispatch nor cancel,
  and no status worker, sale, return or ticket saves these rows
  (`Op \cap WritersBack = {}`; the other six operations overlap freely, as in
  `race_approvals`).  The hypothesis is needed: those write back rows they read
  without a lock, and TLC breaks the property with dispatch and two transfers, or
  cancel and three.  `TakeInv` says that a machine an
  approval took shows it (`TakenIsMarked`) and that `reserved` covers what
  approvals hold (`ReservedCovers`).  It may exceed it: a rejection that loaded
  its transfer before the approval overwrites APPROVED and releases nothing.
- `OneHandlerImplementsStockTransfer`: with one handler at a time
  (`OneHandler`), every step of the service is a step of `StockTransfer` or
  changes no row, whatever fails.  There is one lemma for each kind of commit
  (`SubmitRefines`, ..., `ConfirmRefines`).  They need `OneInv`: what the handler
  read is still so (`ReadIsCurrent`), a lot is linked to its transfer
  (`LotsLinked`, or cancel would leave the lot alone and a receipt would not find
  the transfer), and a transfer that was not approved was given nothing
  (`NothingGiven`, or reject would forget lines that `StockTransfer` keeps).
  `OneHandlerKeepsPromises` carries the theorems about `StockTransfer` over.

`InventoryEventsProofs` proves `EventTypes`, `ExactlyOnce` and
`AcknowledgedIsApplied` (or its row is gone) for any items, deletions and any
number of outages.  The
strengthening (`HandlerKnows`) is that a handler which has read the row works on
an item not on record, and nobody else records it meanwhile: the one consumer
process handles an item once at a time.  `UnitsTakenOnce` takes the item set of
spare parts to be finite.  Its invariant `UInv` bounds not only the counter but
every quantity a handler has read (`SeenIsBounded`): the units on record only
grow, so a value read earlier stays above the bound, and what is saved is that
value less the units that go on record in the same transaction.

`ContractLifecycleProofs` proves, for any contracts, machines, mix of sale types,
statuses set by hand and bound on the queue: `TypeCorrect`;
`AllocationsImplementHolding` (the
refinement: the initial states map to the initial state, each step takes, gives
back, exchanges or stutters) and its corollary `OneContractPerMachine`;
`EndedContractsHoldNothing` and `InventoryFollowsAllocation`.  `HInv`, for the
first of these, adds that swaps are for contracts without a meter
(`SwapsAreSales`) and that what a replacement has read is still so as long as it
is marked live (`RowsReadAreRight`): a replacement saved late then either
exchanges a row the contract has, or is one of the named causes.  `SInv`, for the
last, adds where the latest event of each machine is (`ToldRight`) and that a
machine has one holder (`OneHolder`).

`PaymentLedgerProofs` proves `PaymentsBookedOnce` for any payments, amounts and
handlers.  A direct payment is recorded by one handler, from its submission to
its posting, and until then has neither entry nor cheque (`Records`); a requested
cash payment is booked by the commit that credits it; a cheque by the clear whose
entry was first (`Clears`).

`LedgerTypes`, `CashIsAlwaysBooked` and `PaidMeansRecorded` hold for any finite
set of payments.  Handlers write a balance, a sum and a status that they read or
computed several round trips ago, so `LInv` says of each what it needs at the
time it is written (`JobCovered`): a balance read is at most what is booked, a
sum computed is at most what is recorded, and a status PAID is carried only when
the total is recorded.  The booked and recorded amounts only grow (`SumsGrow`),
hence what covered a handler once covers it from then on.

`ServiceContractsProofs` proves `ContractTypes`, `MarkedReadingsAreBilled` and
`DoubleChargeNeedsLoss` for any contracts, readings, bills and faults.
`BillingInv` adds that what the sweep is about to bill is unbilled, since nothing
else marks readings (`PendingUnbilled`), that the bill under way is for exactly
those (`MadeForPending`), and that every other bill not lost has marked its
readings (`KeptBillsMark`); two such bills cannot share a reading because a
reading carries one `billingInvoiceId`.

`SumTheorems` is what the counting proofs share.  The models add up with
`SumFunctionOnSet` of the community modules, a fold, which is the value of a
function defined by recursion over subsets.  The lemmas show that such a function
exists on every finite set and is unique there (`SumExists`, `SumUnique`), that
any element may be split off first (`SumRemove`), and from that how a sum
changes when its function changes in one place (`SumChange`), grows
(`SumMonotone`) or is itself a sum of two (`SumPlus`).  The library's induction
theorems take a predicate as a parameter, which the provers cannot instantiate;
induction here ranges over a set of good subsets instead (`FiniteInduction`), and
follows from the library's theorem that in a well-founded order every nonempty
set has a minimal element (`WFMin`).

All theorems hold for the finite sets that the constants' assumptions name:
transfers, machines and warehouses, tickets and lines, the items that sell
parts, payments.  A database has finitely many rows; the assumptions say no more.

Only model-checked: the liveness properties `EmittedIsSettled` and
`ReadingIsBilled` (fairness and ENABLED are out of the provers' reach).  Every
invariant, action property and refinement that a passing run checks is proved,
`ApprovalsExclusive` and `ImplementsStockTransfer` under the hypotheses above,
which are the values that `Op` and `Handler` have in their runs.

## Not modelled

- Service tickets handler beside handler: `ServiceTickets` runs one at a time.
  A crash between the save of a part and of its reservation strands units, and
  overlapping handlers overwrite the row, by the shape of the code.
- Usage records and the billing calculation: decimal arithmetic on one record at
  a time; what a final record does to the contract is in `ContractLifecycle`.
- Meter values, slab prices, taxes, currencies, exchange rates: no property here
  depends on them.
- Reminders (`preventativeMaintenanceJob`, the notification jobs): they read
  committed rows and send messages.
- The catalogue, but for the product form and the deletions that meet transfers
  and events: single rows and their cache.
- Purchasing, vendor lots, expenses and reports, CRM, employees,
  authentication, mail, gateway, frontend, scripts: single rows, presentation or
  proxying, no state shared with what is modelled.
