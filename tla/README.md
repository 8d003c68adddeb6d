# A TLA+ model of the ERP system

These modules model the parts of the ERP where rows of several tables have to
agree and where requests, threads, programs and crashes can come between two of
them: orders of the point of sale with their cashier shifts, payments and returns;
the kitchen's tickets; warehouses and the transfers between them; purchases and
the lots they bring; the queue of outgoing messages; the printing of receipts; the
rooms of the hotel; and the payroll with its entries in the ledger. TLC checks
eight models on small instances, TLAPS proves theorems about each of them for every
value of its constants. Paths are relative to the root of the repository; most code
is under `modules/`.

Contents: 1 the system, 2 the modules and the code, 3 what the runs show,
4 disagreements with the code, 5 what is proved, 6 assumptions and bounds,
7 what is not modelled, 8 plan, 9 how to run.

## 1. The system

A FastAPI application renders every page on the server. One process serves the
requests (sync handlers in a pool of threads, async ones on the event loop), and
`app/main.py` starts a background thread for messages. All lasting state is in
one SQL database, reached through SQLAlchemy with one session per request
(`infra/db.py`); MySQL/InnoDB is the usual one. A browser's cookie session holds
the cashier's shift and the order being edited. No handler modelled here locks a
row or checks a row version. Printing is done by a program on another machine
(`tools/print_agent`) that polls the server over HTTP.

| component | state it keeps | operations | interacts with |
|---|---|---|---|
| `sales` | `sales`, `sale_lines`: status, shift, total, quantities, what the kitchen was sent | new order, add/reduce line, send to kitchen and supplements, complete, cancel, serve | stock movements (`inventory`), shifts, kitchen tickets (`kds`), payments |
| `pos_shifts` | `pos_shifts`: one open shift per cashier, expected and counted cash | open, close, close by the administrator | reads sales, payments, refunds; its id is in the cookie |
| `payments` (checkout) | `sale_payments` | checkout, charge a room | completes the sale, then tickets, then the next draft, in commits of their own |
| `refunds` | `sale_returns`, lines, `refund_payments` | a partial or full return | reads the sale; adds to stock; lowers a shift's cash |
| `kds` | sections, kitchen tickets | create, advance, reject, reset, serve; sections on and off | tickets are written by the sale, a second commit and a repair on the kitchen's screen; a served ticket may serve the order |
| `inventory` | `warehouses`, `stock_movements` (the ledger), `stock_balances` (its sums), transfers and their lines | movement, transfer, answer to a line, activation | every module that sells, buys, counts or wastes |
| `payments` (purchases), `inventory/lots.py` | purchases, lines, payments; lots and their consumptions | record, pay, edit, delete; allocate the oldest, void | an invoice moves stock and makes a lot; every movement out uses lots up |
| `messaging` outbox | `message_outbox`: status, attempts | enqueue, batch, send now, cancel, put back | provider over HTTP; receipts, campaigns and notifications put rows in |
| `notifications` | rules, `notification_events`, `notification_logs` | emit, send, retry failed | the outbox; runs in threads and from the command line |
| `printing`, `tools/print_agent` | `print_jobs`, printers, agents; the program's list of fetched jobs | create, list, claim, print, report, cancel, put back | a sale creates jobs; programs poll |
| `hotel` | bookings, quotations, rooms, room accounts | book, quote, confirm, check in and out, extend, move, cancel, no-show, housekeeping | charges of the point of sale go on a room's account |
| `hr` (payroll) | runs, entries, advances, deductions, repayments | draw up, edit, post, pay, reopen, delete; grant, waive, repay | a payment is an expense of the treasury and two entries of `gl` |
| `gl` | journal entries with idempotency keys | post, reverse, report | written beside sales, refunds, shifts, purchases, payroll |
| others | customers and loyalty, attendance, receivables, payables, delivery, shop, tables, catalog, settings, platform, authorisation, reports, backup | forms and sums over rows | section 7 |

What is hard. *Concurrency*: a handler decides on the rows its transaction saw
first, and writes later; nothing stops another request in between. *Several
tables, one fact*: stock is deducted when an order is sent, when more is added to
it, or when it is paid, by three pieces of code that each rely on the others; the
kitchen is told by three others. *Protocols over days*: orders outlive shifts and
change hands, a booking meets other bookings of its room, a month of salaries is
paid, reopened and paid again. *Partial failure*: a checkout commits in parts, a
sender or a printing program dies between doing and recording, and an alert commits
the caller's transaction in its middle (section 2). *Retries*: the
queue, the notification log, the printing and the administrator all retry.

What makes the components correct:

- sales, payments: a completed order is settled once and in full; stock follows
  the order; a cashier never leaves an order on a closed shift.
- shifts: the report of a closed shift stays true, but for what its orders are later
  refunded or corrected.
- refunds: no more goods or money go back than were sold or paid.
- kitchen: every section is told exactly what the order sells of it, nothing twice,
  and an order that was sent gets there in the end.
- inventory: a transfer neither makes nor loses goods, its lines explain its
  movements, an answer is final, a warehouse that was never for sale is not overdrawn;
  what a broken off request leaves is known exactly.
- purchases and lots: the oldest lot goes first, lots claim no goods that are not
  there, an invoice's movements are its line, it is not paid beyond its total.
- outbox: what is reported as sent was sent, a delivery is not repeated without
  reason, none waits for ever.
- printing: paper comes out at most once for each time it was asked for, and for each
  claim that crossed another; a claimed
  job is in a program's hands; all settle while nothing goes wrong.
- hotel: two stays do not share a night in a room; no room is closed over its guest;
  a room counts as occupied exactly while one lives in it whom no other booking
  displaced.
- payroll and ledger: what a paid run withheld was repaid by it, no claim is repaid
  beyond its amount, a run is paid once by the requests that finish, its payment is in
  the ledger.

`PROJECT.json` lists all components under `components`, and under `hazards` the
places in the code where each of these can go wrong, with the property that
would notice, or the reason why there is none.

## 2. The modules and the code

`map` in `PROJECT.json` gives the lines for every definition. An action is a
request up to its commit, with everything the handler does on the way, unless said
otherwise.

*Commits in the middle.* A handler that posts a movement of stock, an expense or a
kitchen ticket calls `emit_event` (`notifications/service.py:48-86`) with its own
session. When a rule for the event is active, its message goes out at once, and
`_dispatch_one` commits that session (`messaging/outbox.py:348`): with what the handler
wrote so far, without what it would write next. If it then raises, is refused or dies,
the rollback undoes the second half only. Four models have such steps beside the whole
handler, which may be taken instead of it up to a bound: `CreateBreaksOff`,
`ApproveBreaksOff` and `RejectBreaksOff` of a transfer, `BreakOffPay` of the payroll,
`BreakOffEdit`, `BreakOffReversal` and `BreakOffDelete` of an invoice,
`FinishRequestStuck` and `RepairStuck` of the kitchen. Their properties say what is
still true, and exactly what such a request leaves behind.

**`SaleFlow`** (`modules/sales`, `pos_shifts`, `refunds`, the checkout of
`payments`). Variables are columns, one function per column from the ids of sales
or shifts; `deducted`, `paid`, `charged`, `returned`, `refunded` and `refundedCash` are
the sums of the rows that belong to a sale, `byBank` is the method of its payment;
`current` is the order in the cookie of each
cashier. What a handler does on the way: the session is put on the cashier's latest
open shift, a touched draft moves off a closed shift, empty drafts are swept, a
supplement goes to the kitchen when a sent order grows. Actions: `OpenShift`,
`NewOrder`, `Visit` (the page and its poll, which cancel and move drafts),
`OpenOrder` (any cashier may continue any draft), `AddLine`, `ReduceLine`,
`SendToKitchen`, `Checkout`, `ChargeRoom`, `CorrectPayment` (of a completed order, also
on a closed shift), `CancelOrder`, `Refund`, `CloseShift`,
`AdminClose`. What a shift expects is its cash: the payments whose method is cash when
it is closed, less the refunds in cash; `moved` of a shift is history, what corrections
took out of it or put into it since. `Checkout` with `new = None` is the request that dies after its first
commit, before the next draft exists. Each action takes `x`, the rows the request
reads, apart from the rows it writes to; in `SaleFlow` the two are the same.
**`OrderService`** is what all this promises of an order to its customer, the stock
and the cash: goods leave for an open order, it is settled once for exactly what left,
an order that is dropped took nothing, and what comes back is goods that left, paid back
at their price when they were paid in cash. It has no lines, kitchen, shifts or cashiers.
`Order == INSTANCE OrderService` maps its phase from the status and takes the stock
movements, payments and returns as they are; `ImplementsOrder` is the refinement.

**`SaleRaces`** composes those actions concurrently: `Start` takes the snapshot of
a request, `Commit` runs the action on the snapshot against the rows as they are
by then, `Abort` gives up. Columns the handler left at the value it had read are
not written (`Written`), sums of rows add up, ids never collide.

**`Kitchen`** (`modules/kds`, with `sales/order_pipeline.py` and what the routes of
sales and payments call). `tickets` has the statuses of an order's tickets by
section, `printed` what the papers of its tickets ask a section to make, `missed` what it
was not asked when the creation of tickets got stuck, `cooked` is
`SaleLine.kitchen_sent_qty`. The papers are what is counted: that of a supplement asks
for what was added, while the screen shows with every ticket all lines of the order
(section 4). Sending (`Send`) and paying (`Pay`) commit the order
first and create the tickets in a second transaction; `pending` counts the requests
in between, which go on (`FinishRequest`), die (`LoseRequest`) or get stuck after some
sections' tickets (`FinishRequestStuck`), each of which is committed with its event.
`Repair` is the kitchen's screen, which creates missing tickets; `AddLine` on a sent order creates a
supplement; `Advance`, `Reject`, `Reset` are the screen's buttons, `MarkServed` and
`ConfirmReceipt` those of the cashier and the customer, `SaveSection` switches a
section on or off. `AddLine` and `ReduceLine` share the quantities with `SaleFlow`;
the two are separate modules because the stock and the tickets of an order do not
read each other.

**`WarehouseTransfer`** (`modules/inventory`). `ledger` is the sum of movement rows, and
stands for `stock_balances` too, because `apply_movement` ends by reconciling the
balance it wrote; `moved` and `entered` are the parts of the ledger that belong to a
transfer and to none. Requests are served in turn: `CreateTransfer`, `ApproveLine`,
`RejectLine`, `RequestModify`, `Movement` (a sale, or what other modules do to stock),
`SetActive` (the form of a warehouse, which writes `active` and the flag `sells`),
`OpenOutlet` and `CloseOutlet` (a cashier's session or the setting names the warehouse
its sales are deducted from). `SoldFrom` is where sales look: the flag is checked for
the warehouse of a product, not for that of the session or the setting, so `shops` is
the history of all that were ever for sale. An approval makes two movements when the
recipient counted less than was sent, writes the line and recomputes the transfer's
status; `ApproveBreaksOff` stops after one or both movements, with the line still
waiting, `CreateBreaksOff` before the row of the line whose goods it took. `loose` is
the part of `moved` that such requests posted. **`TransferService`** is what
sender and recipient rely on: goods are in one warehouse or in one parcel (`Send`), a
parcel is answered once (`Answer`), goods go astray only when a request breaks off
(`Misplace`, or a parcel lost on its way out), and all else comes from outside and
overdraws shops only (`Otherwise`, `OpenShop`). It has no statuses, no activation and no
sums of movements; `ImplementsTransfers` is the refinement, with a line as a parcel
(`ParcelOf`), the ledger as the stock and `loose` as what went astray.

**`Purchases`** (`payments/service.py`, `purchase_edit.py`, `cost_reference.py`,
`inventory/lots.py`). A place is a product in a warehouse. `left` and `used` are
what a lot has and what its consumptions took, `balance` the sum of a place's
movements, `brought` the part of it that names an invoice. `Taken` is
`allocate_lots_fifo`: the set (of one element) of what a movement out takes of each
lot. `RecordPurchase` makes the goods, their lot and an optional payment;
`EditPurchase` voids the lots of the invoice, takes the old line out, which uses up
other lots, and brings the new line in. `BreakOffReversal` stops between the two,
`BreakOffEdit` after both, when the payment is refused, `BreakOffDelete` with the goods
gone and the invoice still there; `missing` is what such edits took out of an invoice's
goods and did not bring back. (A `RecordPurchase` that breaks off is one without a
payment.) `DeletePurchase`, `RecordPayment` and the cost references (`RecordReference`, `EditReference`: an invoice and a lot without
goods) follow. `Issue`, `Sell` and `Receive` stand for the movements of all other
modules.

**`Outbox`** (`modules/messaging/outbox.py`, `NotificationService` of
`modules/notifications`). Senders are the background thread and request threads.
A sender loads a batch (`LoadBatch`), takes a row and commits the attempt
(`Begin`), calls the provider (`Send`), records the outcome (`Record`) and, for a
notification, its log (`Log`); `SendNow` and `RetryFailed` start with one row.
Between any two of these steps other senders, `Cancel`, `Retry` (the
administrator) and `Crash` may come. `read` and `seen` in a sender's task are
SQLAlchemy's loaded attributes: the attempts counted for a row are those read when
the batch was loaded, until a failure rolls the session back and expires them.

**`PrintQueue`** (`modules/printing`, `tools/print_agent/print_agent.py`). Each
program holds the jobs it fetched in its memory (`todo`) and is told nothing of what
happens to them. Its steps are `Poll`, `Claim`, `HandOver` (the bytes go to the
printer), `TellPrinted` or `TellFailed`; each request may be lost on its way or on
its way back, a print may break off, a program may stop anywhere (`Restart`) and two
copies may run on one token. `claim_job` reads the status and writes it without a lock:
`Claim` is the read, `GrantClaim` the write, of a job other requests may have claimed,
printed or cancelled by then (`claims`, and those that are `late`); the program may have
stopped waiting for the answer (`StopWaiting`). `taken` counts the claims written,
`crossed` those written late. The server's side: `CreateJob`, `RetryJob`,
`RetryAllFailed`, `CancelOpen`, `SavePrinter` (another agent, or off),
`ToggleAgent`. **`PrintService`** is what all this promises, without programs and
claims: a job is ordered, put on paper, shown as printed, in trouble or given up, and a
late claim may open it again (`TakeLate`).
`Service == INSTANCE PrintService` maps `shown` from the status of the row and
takes `orders`, `crossed` and `paper` as they are; `ImplementsService` is the refinement.

**`HotelRooms`** (`hotel/booking_service.py`, `availability.py`). `CreateBooking`,
`SaveQuotation` and the other steps of a quotation up to its conversion, `Confirm`,
`AdjustStay`, `Cancel`, `NoShow`, `CheckIn`, `CheckOut`, `ExtendStay`, `ChangeRoom`;
housekeeping: `Clean`, `Maintain`, `MaintenanceDone`, `SetActive`. Days are numbers.
`arrived` is history: the day a stay really begins, where `checkIn` stays as it was
booked; so is `displaced`: the guests (`Housemates`) who still lived in a room when a step
of another booking made it free.

**`Payroll`** (`hr/service.py`, `gl/posting.py`, `gl/reversal.py`). `claim` has the
advances and deductions, `took` the repayments by paid runs, `byHand` the others,
`entry` what a run withholds from each salary, `expense` what the treasury paid,
`book` which of the accrual's and the payment's entries are in the ledger, and
whether reversed. Actions: `Grant`, `RepayByHand`, `Waive`, `DeleteAdvance`;
`CreateRun`, `EditEntry`, `ViewRun` (the page writes what it shows), `SyncRun`,
`PostRun`, `PayRun`, `ReopenRun`, `DeleteRun`, `DeleteExpense`. `BreakOffPay` is a payment
whose expense was committed with its alert and which went no further: the expense is in
`stray`, the run is POSTED and may be paid again; `DeleteStray` is the form that deletes
such an expense.

The `MC*` modules only name model values and symmetry; each `.cfg` gives the
constants of one run. The `*_proofs` modules hold the theorems of section 5, `Sums` the
lemmas on sums they share.

## 3. What the runs show

| run | instance | states | result |
|---|---|---|---|
| `transfer_serial` | 2 warehouses, 2 products, 1 transfer, quantities to 2, 1 request that breaks off | 566 thousand | transfers are accounted line by line (`LineAccounted`), goods conserved (`StockConserved`), no overdraft where nothing was ever sold (`NeverOverdrawn`), the recipient's inbox is exact (`CompletedWhenAnswered`), `TransferService` is implemented (`ImplementsTransfers`) |
| `sale_two` | 2 cashiers, 1 product, quantities to 2, 2 orders (one may be paid by bank), 2 shifts | 1.03 million | stock follows the order (`StockFollowsOrder`), it is settled once (`SettledOnce`), `OrderService` is implemented (`ImplementsOrder`), closed reports stay true but for refunds and corrections (`ReportStaysTrue`), a cashier leaves none of their orders behind (`NothingStranded`) |
| `race_checkout` | 1 cashier, 1 order, 2 requests at once | | `SettledOnce` is violated |
| `kitchen_tickets` | 1 order, 2 sections, quantities to 2 | 606 thousand | every section is told all, but for what a stuck request passed over (`WholeOrderInKitchen`), no paper asks for more (`NothingPrintedTwice`), and an order that was sent gets there in the end (`SentReachesKitchen`, under fairness) |
| `kitchen_served` | 1 order that must be ready before it is paid | | `ServedWhenReady` is violated |
| `purchase_lots` | 2 invoices, 3 lots, a shop and a store, quantities to 2, 1 edit or deletion that breaks off | 466 thousand | lots go in order (`OldestFirst`) and claim no more than there is (`LotsWithinStock`), invoices explain their movements, but for what a broken off edit took out (`ReceivedAsInvoiced`), and payments (`PaidWithinTotal`) |
| `purchase_edit` | the same | | `LotsLeaveWithStock` is violated |
| `outbox_queue` | 1 sender, 2 messages (one urgent), batch of 2, 1 retry, 2 mishaps | 317 thousand | nothing is reported that was not sent (`SentWasDelivered`), none is repeated without a reason (`DeliveredOnce`), all are handled (`EveryMessageHandled`, under fairness) |
| `print_jobs` | 2 programs on one token, 2 jobs, 1 printer, the first asked for up to twice, 1 mishap or change | 639 thousand | no more paper than was asked for, and one more for each claim that crossed another (`OncePerOrder`), a claimed job is held (`ClaimedIsHeld`), all settle (`JobsSettle`, under fairness), `PrintService` is implemented (`ImplementsService`) |
| `hotel_rooms` | 2 bookings, 2 rooms, 4 days | 1.2 million | stays are disjoint (`StaysDisjoint`), no room is closed over its guest (`NoGuestUnderMaintenance`), a room is marked as occupied exactly while a guest lives in it whom no other booking displaced (`OccupiedIffLivedIn`) |
| `payroll_runs` | 2 employees, 1 advance, 1 deduction, 2 months, 1 payment of the first that breaks off | PAYROLL | claims and their rows agree (`RepaidAsStatusSays`, `RepaidIsRecorded`), paid runs with what they withheld (`WithheldIsRepaid`), with the treasury, but for broken off payments (`PaidOnce`), and the ledger (`PaymentIsInLedger`) |
| `payroll_reports` | the same | | `DraftIsNotInReports` is violated |

Some properties hold only when requests do not overlap, and say so in their
comment: without locks or row versions, overlapping requests break them, and
`race_checkout` shows it where it matters most. `RefundedWithinPaid` falls to two
overlapping returns, `AnsweredOnce` to two overlapping answers, `StaysDisjoint` to
two overlapping bookings and `PaidWithinTotal` to two overlapping payments in the
same way. The models of the theorems about them serve requests in turn. Printing is the
exception: there a claim is split where two overlap.

## 4. Disagreements with the code

Four are runs whose counterexample is a behaviour of the code, and entries of
`findings` with the line it contradicts.

1. *An order paid twice* (`race_checkout`). Two checkouts both read DRAFT at
   `sales/service.py:782`.
2. *Half an order is served* (`kitchen_served`). `order_pipeline.py:67` adds the number of
   served tickets to itself and compares it with all of them: one of two is enough.
3. *The reports after a reversal* (`payroll_reports`). A reversed entry is left out of
   the reports, its reversal is not: what was undone counts negatively.
4. *An edit that empties other lots* (`purchase_edit`). The lots of an invoice are
   voided before its old goods are taken out, so those are taken from other lots.

Others came up while the models were written and are kept out of the runs:

- A request that breaks off after a commit in its middle leaves goods at a recipient
  whose line is still open and may be answered again, goods taken with no line, an
  expense no salary knows of, after which the salary is paid a second time, and an
  invoice without its goods. Nothing in the code looks for any of these.
- Two approvals of a line at once both pass the check at
  `inventory/transfer_service.py:151` and both add the goods.
- The flag `deduct_sales_enabled` is not looked at for the warehouse of the session or
  the setting (`inventory/service.py:127-146`): a warehouse whose flag is off may be sold
  from, and overdrawn.
- Correcting the method of a payment on a closed shift changes the cash its orders
  explain and not what its report expects (`payments/service.py:1040-1086`).
- Supplements are tickets "for the extra items only" by the comment on
  `create_supplement_tickets_for_sale`; the kitchen's screen shows the full lines of the
  order with them (`kds/service.py:880-901`), so what was already made is asked for again.
- Two copies of the printing program on one token may both be given one job
  (`printing/service.py:658-673`), and both print it.
- A cashier may continue an order another one began; it moves to that cashier's
  shift, but only orders the cashier created keep the shift from being closed. This
  is why `NothingStranded` speaks of orders whose shift is their creator's.
- The shift a checkout read may be closed before the checkout commits.
- A batch does not look at a row's status again before it sends: a message
  cancelled meanwhile goes out, and SENT is written over CANCELLED.
- `retry_failed` of the notifications hands failed rows to a function that skips all
  that are not pending.
- Voiding a sent order always fails: `void_service.py:123` calls a function of three
  parameters with two.
- A program that stops with a claimed job leaves it claimed; nothing offers it again.
- A guest's room is offered as free or to be cleaned after another booking of it is
  moved, leaves, or does not show up (`booking_service.py:1304`, `1400`);
  `OccupiedIffLivedIn` says that only such guests (`displaced`) lose their room.
- A waived advance is due again when a run that had repaid part of it is reopened.

## 5. What is proved

For every value of the constants and the bounds, from the named assumptions of the
modules only (`WarehouseAssumption`, `SaleAssumption`, `OutboxAssumption`,
`PrintAssumption`, `HotelAssumption`, `KitchenAssumption`, `PayrollAssumption`,
`PurchaseAssumption`), and the hypothesis `OneSender` where a theorem
states it. The assumptions say, among other things, that orders, products,
warehouses, transfers, employees, claims and months of payroll are finitely many: a
table has finitely many rows, and a sum over infinitely many means nothing.

`Sums` has the lemmas on sums of amounts over finite sets that the other modules
cite: a sum of natural numbers is one (`SumNat`), may be split at a row
(`SumRemove`) and into two sums (`SumPlus`), changes by what one row changes (`SumAt`),
bounds each of its parts and grows with them. The library defines a sum by a fold, and induction
over sets is out of the provers' reach, so the proofs go by a smallest
counterexample: of the finite subsets for which a lemma fails take one of least
cardinality (`SmallestSet`); it is not empty, and without one of its rows it is
smaller, so the lemma holds of that and of the set itself.

`WarehouseTransfer_proofs`:

- `TypeCorrect`, `SerialAccounts`, `SerialBalances`, `SerialStatus`: `TypeOK`,
  `LineAccounted`, `NeverOverdrawn`, `CompletedWhenAnswered`, with any number of requests
  that break off. The inductive invariant `Inv` adds `Filed` (a transfer without a row has
  no lines, what waits has not been received, and a transfer has two different ends, so
  that its two movements do not fall on one warehouse), `ForSale` (where sales are
  deducted is in `shops`) and `Recorded` (the ledger is what came from outside and the
  movements of all transfers). Requests do one of few things to rows: a transfer is
  `Created` with a set of its lines, a line is `Counted` or its goods are `Misplaced`;
  approvals and rejections, whole or broken off, are instances.
- `SerialAnswers`: the action property `AnsweredOnce`, of lines: what was approved or
  rejected stays as it is. (A line whose answer broke off was not answered.)
- `SerialConserved`: `StockConserved`, which is no invariant of its own but follows from
  `Recorded` and `LineAccounted`: the movements of a transfer come to minus what waits of
  it plus what is loose (`SaysTotal`, `MovedTotal`), and sums of sums are added
  (`AllConserved`).
- `SerialRefines`: `Spec => ImplementsTransfers`. A transfer that is `Created` is sent, a
  line that is `Counted` is answered (what was counted may be nothing), one that is
  `Misplaced` goes astray, other movements come from outside the parcels, and the other
  steps put a warehouse up for sale or are stutters.

`Outbox_proofs`:

- `OutboxTyped`: `Spec => []TypeOK`, with a sender past its first step holding a
  message.
- `OutboxSent`: `SentWasDelivered`, with any number of senders, crashes, lost
  answers, cancellations and retries. The invariant adds that a sender whose call
  succeeded holds a message that was delivered (`OkDelivered`); deliveries only
  grow.
- `OneSenderCounts`, `OneSenderDeliversOnce`: with one sender, `DeliveriesCounted`
  and `DeliveredOnce`. `Held`: the message being sent is no longer in the batch.
  `Counted`: the attempt is recorded before the call, and what the sender read of
  the attempts is still so. `Spared`: a message that may be sent without a further
  mishap or retry (`MayBeSent`: in the batch, in hand, or pending) was delivered at
  most as often as there were mishaps and retries. With two senders the third
  clause of `MayBeSent` fails: a row another sender holds is still pending.

`SaleFlow_proofs`, for requests served one after another:

- `SaleStock`: `StockFollowsOrder`. The inductive invariant `StockInv` adds
  `KitchenKnows`: an unsent order has nothing in the kitchen, an open one that was
  sent has all of its lines there, and only drafts and completed orders were sent.
  That is what lets `send_kitchen_supplement` deduct the difference alone and
  `complete_sale` deduct nothing for an order that was sent; a line of a sent order
  cannot be reduced, because the kitchen has all of it.
- `SaleGoodsBack`: returns belong to completed orders and stay within what was sold.
- `SaleSettled`, `SaleRefunds`: `SettledOnce` and `RefundedWithinPaid`. `MoneyInv` adds
  that an order with lines carries their total and that only completed orders were
  refunded.
- `SaleOneShift`, `SaleReports`, `SaleNothingStranded`, `SaleTypes`: a cashier has at
  most one open shift (`OneOpenShift`), `ReportStaysTrue`, `NothingStranded` and
  `TypeOK`, from `DrawerInv`. The shift a request works on is
  therefore the open one of its user (`OnOpenShift`), so every request does one of
  three things to each order's shift: it leaves it (`Stays`), it takes a draft to an
  open shift (`ToOpen`), or it opens or closes a shift and touches no order that
  has lines. What a closed shift took is then a sum over the same orders as before,
  with the same payments and no smaller refunds; a correction of a payment moves the sum
  by as much as `moved` of its shift (`Corrected`). An order can only come into use on
  an open shift, and a shift is closed by its cashier only when no such order of
  theirs is left on it.
- `SaleRefines`: `Spec => ImplementsOrder`. Each of the seven descriptions below is a step
  of `OrderService` for one order while drafts begin and end on the way. That what is paid
  is the price of what left follows from `StockFollowsOrder` and `SettledOnce`
  together; that cash comes back at its price is the sum of the returns with one
  product changed (`SumAt`).
- `SaleClosedStay`: the action property `ClosedOrdersStay`: no request reopens, moves,
  pays or changes an order that was completed or cancelled; only its returns and
  refunds grow, and the method of its payment may be corrected.

  The proofs go through six descriptions of what a request writes (`LinesAdded`,
  `LinesReduced`, `AllSent`, `Settled`, `Back`, `Corrected`) and one of the requests that only
  open, cancel and move drafts (`OnlyDrafts`); `StepIs` shows that every step is one
  of them.

`PrintQueue_proofs`:

- `PrintTyped`, `PrintOnce`, `PrintHandedOver`: `TypeOK`, `OncePerOrder`, and
  `PrintedWasHandedOver` (a job shown as printed was handed to its printer in full).
  The invariant `Safe` adds that a program past its first step holds a job (`Busy`)
  and that what it is about to report was handed over (`ToldWasHandedOver`).
  `OncePerOrder` counts in two steps: paper and the programs that are printing against
  claims written, and these against orders and crossed claims. It is not inductive: a
  claim that is still in time may use up the last order although its job is no longer
  waiting (`InTime`, `Left`), and only once any claim is written are the others late.
- `PrintClaims`: `ClaimedIsHeld`, with `Steady`: while nothing was changed, what a
  program holds is its own agent's; and `ClaimsAwaited`: while nothing went wrong, whoever
  claims a job waits for the answer.
- `PrintRefines`: `Spec => ImplementsService`. Every step of the queue, its programs
  and its mishaps is a step of `PrintService` or leaves it alone: a late claim is
  `TakeLate`.

`HotelKitchen_proofs`, two models that share nothing but the module:

- `HotelTyped`, `HotelStays`, `HotelMaintenance`: `HotelTypeOK`, `StaysDisjoint`,
  `NoGuestUnderMaintenance`. `Begun` is what the second needs: the recorded arrival,
  which the search for conflicts uses, is never later than the real one.
- `HotelOccupied`: `OccupiedIffLivedIn`, in both directions, with the same invariant:
  every step that ends or begins a stay, or moves one, marks the rooms it has to do with,
  and whoever else lived in a room that was made free is in `displaced`.
- `KitchenTyped`, `KitchenToldAll`, `KitchenPrintedOnce`: `TypeOK`,
  `WholeOrderInKitchen`, `NothingPrintedTwice`. `Known(s)` says what is known of an
  order: an unsent draft has nothing in the kitchen (`Quiet`), of a sent one every
  line counts as sent (`AllSent`), at most as many requests are between their two
  transactions as there were (`Requests`), a section without a ticket has no paper, and
  nothing is missed before there is a ticket (`Untold`). It is what lets handlers that may
  get stuck after any section each create what is missing.
- `KitchenServes`: `NotServedUnprepared`: neither the screen nor the cashier has an
  order served of which no ticket is.

`Payroll_proofs`:

- `PayrollTyped`, `PayrollRepaid`, `PayrollWithheld`, `PayrollPaidOnce`,
  `PayrollInLedger`: `TypeOK`, `RepaidAsStatusSays`, `WithheldIsRepaid`, `PaidOnce`,
  `PaymentIsInLedger`. The invariant adds that claims stay within `MaxAmount`
  (`ClaimsOK`), so that what is due is a sum of amounts. `PaidOnce` holds for any number
  of payments that break off: each leaves one expense that no entry refers to
  (`StrayIsBroken`), and none of these is counted as the run's.
- `PayrollRecorded`: `RepaidIsRecorded`, from `RInv`, which adds `TakenOfOwner`: only a
  paid run has taken anything, and only of the claims of the employee it paid. The
  proof follows one row of the sum over the runs: paying a run puts it from zero to
  what it takes, reopening it back.

`Purchases_proofs`:

- `PurchasesTyped`, `PurchasesOldestFirst`, `PurchasesReceived`, `PurchasesPaid`:
  `TypeOK`, `OldestFirst`, `ReceivedAsInvoiced`, `PaidWithinTotal`. The invariant adds
  `LotsInUse` (no lot beyond the last id; an unused id has no consumptions) and
  `InvoicesInUse` (an unsaved invoice has no movements and nothing missing; only cost
  references lack goods, which is why an edit, refused to them, always has a line to take out).
- `PurchasesWithinStock`: `LotsWithinStock`, from `SInv`, which adds that an unused lot is
  empty (`EmptyUntilUsed`). A movement out takes from the lots of its place as much as
  it takes from the balance, or all they have (`Taken`); what comes in adds at most
  that much to one lot.

Only model-checked: liveness under fairness (`EveryMessageHandled`, `JobsSettle`,
`SentReachesKitchen`), which is out of the prover's reach, and the runs that find
violations. Every invariant and every action property of a passing run is a theorem.

## 6. Assumptions and bounds

*Transactions.* A request sees the rows as of its first read (InnoDB, repeatable
read) and its writes appear at its commit. For the point of sale that first read is
the cashier's open shift (`require_open_pos_shift`); the middleware that loads the
user has a session of its own. A request on a snapshot older than the rows is also
what read committed gives when all its reads come first. In `WarehouseTransfer`,
`HotelRooms`, `Payroll`, `Purchases` and, but for its two transactions, `Kitchen`,
requests are served one after another; so they are in `PrintQueue`, but for a claim, whose
read and write are two steps. A request that breaks off after a commit in its middle
(section 2) is a step of its own there, taken at most `MaxBroken` or `MaxBreaks` times; in
`Kitchen` at most as often as requests create tickets. `SaleFlow` leaves one such commit
out: a movement of an order may raise an alert that stock is low
(`notifications/inventory_hooks.py`), seldom because alerts of one product are throttled,
and would commit half of a `Checkout`.

*Fairness.* `Outbox`: weak fairness of the background thread's own steps.
`_messaging_worker` is a loop that survives every exception, sleeps between rounds
and takes the head of the queue each time. Nothing is assumed of the requests, the
administrator or the provider's answer, so `EveryMessageHandled` holds when every
send fails: the third attempt settles the row. It assumes that messages are enabled
in the settings. `PrintQueue`: weak fairness of each program's `Work`, the loop of
`main`, which survives every exception too, and of `Answer`: the server finishes a claim
it has let in. `JobsSettle` is about behaviours
without mishaps, because a stopped program really leaves its claim behind.
`Kitchen`: weak fairness of `Repair`, which the kitchen's screen runs each time it
asks for its tickets, every few seconds; it assumes that a screen is open.

*Bounds.* Ids (`Sales`, `Shifts`, `Messages`, `Jobs`, lots, bookings) run out, so the
runs of `SaleFlow`, `Outbox`, `PrintQueue`, `HotelRooms` and `Purchases` may stop
and do not check for deadlock; `WarehouseTransfer`, `Kitchen` and `Payroll` never
stop and do.

- `sale_two`: two orders and two shifts are what moving an order, cancelling drafts
  and comparing reports need; two cashiers share one order; `MaxQty = 2` lets a line
  be sent and returned in parts. `SendBeforePay` is FALSE, the wider of the two
  policies: orders paid before and after the kitchen got them both occur. One of the two
  orders may be paid by bank or corrected (`BankSales`), so cash and bank meet on a shift.
- `transfer_serial`: a line can be approved below what was sent, and a second line is what
  a broken off creation needs; other movements fill a warehouse up to `StockBound` and
  sales overdraw it by up to `Overdraft`, per product (`Filled`, `Owed`); only the form of
  the branch is used (`Managed`), as the main warehouse cannot be closed; one line cannot
  move between more than two warehouses. `MaxBroken = 1` lets a request break off and all
  others meet what it left.
- `outbox_queue`: `MaxMishaps = 2` covers a lost answer followed by a crash,
  `MaxRetries = 1` a retry of a message already sent. One sender: two are what
  `OutboxSent` is proved for.
- `print_jobs`: two programs on one token are what a claim protects against, and what
  makes claims cross; the first job may be asked for twice, so one mishap or change may
  fall before, between and after; a batch of 2 leaves a job in memory while the first is
  printed.
- `kitchen_tickets`: orders meet only in the sections they share and whether those
  are active, so one order and two sections suffice; its quantities allow a
  ticket, a supplement and a reduction. The order is a delivery, which the cashier's
  button serves; in `kitchen_served` it is one the kitchen serves.
- `hotel_rooms`: two bookings are what a conflict needs, two rooms what a move needs;
  four days let stays precede, touch, overlap and contain one another.
- `payroll_runs`: two months let one run take what another counted on; one of two
  employees has claims, of both kinds, larger than a month's pay, so they are repaid in
  parts; the other shows that nothing is taken from a salary for another's claim. One
  payment of the first month may break off (`MaxBreaks`), so the same salaries are paid
  again while the other month takes its part.
- `purchase_lots`: three lots for two invoices let one be edited while the other's
  lot is there; a shop that may be overdrawn and a store that may not. A unit costs 1,
  so an edit of a cost reference changes nothing in this run. One edit or deletion
  may break off (`MaxBreaks`), after which the invoice is edited or deleted again.

*Abstractions.* Sales: a product costs 1 and consumes 1 unit of stock; discounts,
taxes, recipes, costs and tables are left out (cancelling with the orders of a table
is cancelling any of the cashier's unsent drafts); a payment is in cash or by bank, and
shifts count cash; opening floats and shift expenses are 0. Messages: delays between them only allow more interleavings, which the model has anyway. Kitchen: each
section makes one product; departments and root categories from before the sections,
WhatsApp targets, the archive, the switch that turns the workflow off and the
cancelling of unsent orders are left out, and so is the order hub's synchronisation
on a GET, which is not committed; what the screen shows with a ticket is the order as it
is then, and is not counted. Inventory: of `settings`, only what names a warehouse for
sales; a new warehouse is one that was inactive. Hotel: rates, prepayment,
guests' papers and the reception's shifts are left out, and the date a quotation is
valid to; every form asks for a room, so every booking has one. Payroll: the ledger is
on and takes every entry, amounts are whole; `cancel_employee_deduction` has no
caller; deleting an employee is left out. Purchases: an invoice has one line, its
warehouse is active; expiry dates, assets, images and the ledger entry are left out.

## 7. What is not modelled

Reads and forms without a protocol: reports, settings, platform switches, tables,
authorisation (checked on every route), branding, alerts apart from what they
commit, dashboards, web marketing, the integration interface,
backup, administration, migrations and scripts. Sums over rows: receivables,
payables, treasuries, expenses. Text: chats, campaigns, orders understood from a
chat, receipts. Arithmetic over punches: attendance. `infra/sqlite_patch.py` repairs
the schema of an old file once. The reconciliation of balances finds what
`apply_movement` has reconciled already. Voiding a sent
order is not modelled because it always fails and is rolled back
(`void_service.py:123`). Most of the lines of the code are routes that read forms,
build pages and format reports; of the modules whose rows form a protocol, the ones
left are in section 8.

## 8. Plan

1. A room's account with `ChargeRoom`: charges of the point of sale, prepayments and
   the settlement at departure.
2. Notifications: the event ledger with throttling; loyalty points earned, redeemed
   and reversed.
3. Chat and web orders from cart to acceptance, composed with `SaleFlow`.
4. An abstract calendar of rooms that `HotelRooms` implements, and an abstract stock of
   lots, oldest first, that `Purchases` implements.
5. Overlapping requests for `HotelRooms` and `Purchases`, in the form of `SaleRaces`;
   which properties of `SaleFlow` survive there (a cancelled or completed order is
   never a draft again).

## 9. How to run

    tlc -workers 2 -config MCSaleFlow_two.cfg MCSaleFlow.tla
    tlapm Outbox_proofs.tla

`PROJECT.json` lists the runs, the changed definitions under which each property is
violated (`mutants`: the operators marked "mutant" in the modules), the lines of
code each definition stands for (`map`) and the theorems. The longest run takes
a few minutes.
