-------------------------------- MODULE SaleFlow --------------------------------
(* Orders of the point of sale and cashier shifts (modules/sales,               *)
(* modules/pos_shifts, the checkout of modules/payments, modules/refunds).      *)
(*                                                                             *)
(* Each operation is an action over x, the rows and cookies the request reads,  *)
(* and over the rows in the database when it commits.  Here requests are served *)
(* one after another, so x is always Rows; SaleRaces serves them concurrently,  *)
(* each with the snapshot its transaction took when it began.                   *)
(*                                                                             *)
(* One unit of every product costs 1 and consumes 1 unit of stock, an order is  *)
(* paid by one method, in cash or at a bank, and every shift opens with an      *)
(* empty drawer.                                                                *)
EXTENDS Integers, FiniteSets, Functions

CONSTANTS
  Users,          \* cashiers
  Shifts,         \* ids a pos_shifts row may get
  Sales,          \* ids a sales row may get
  Products,
  MaxQty,         \* bound: the largest quantity of a line
  BankSales,      \* bound: the orders that a bank may have to do with
  SendBeforePay   \* order policy: must an order be sent to the kitchen before it is paid?

None == 0         \* a NULL id

ASSUME SaleAssumption ==
  /\ Shifts \subseteq Nat \ {None}
  /\ Sales \subseteq Nat \ {None}
  /\ IsFiniteSet(Sales) /\ IsFiniteSet(Products)
  /\ MaxQty \in Nat \ {0}
  /\ BankSales \subseteq Sales
  /\ SendBeforePay \in BOOLEAN

VARIABLES
  status,     \* Sale.status, "NONE" for an id not given yet
  by,         \* Sale.created_by_id
  at,         \* Sale.pos_shift_id
  sent,       \* is Sale.sent_to_kitchen_at set?
  total,      \* Sale.total
  qty,        \* SaleLine.quantity per product, 0 when there is no line
  cooked,     \* SaleLine.kitchen_sent_qty
  deducted,   \* per sale and product, what its SALE stock movements took
  paid,       \* SalePayment.amount, 0 when there is no row
  byBank,     \* is its payment method one of a bank?
  charged,    \* the sum of its RoomCharge rows
  returned,   \* per product, the sum of its SaleReturnLine rows
  refunded,   \* the sum of its RefundPayment rows
  refundedCash, \* of which in cash
  shift,      \* PosShift: status, user_id, expected_cash, orders ignored when closed, and
              \* the cash that corrections of payments moved to a bank since it was closed
  current     \* per user, session["draft_sale_id"]

lines    == <<total, qty, cooked>>
money    == <<paid, byBank, charged>>
returns  == <<returned, refunded, refundedCash>>
sale     == <<status, by, at, sent, lines, deducted, money, returns>>
vars     == <<sale, shift, current>>

SaleStatus == {"DRAFT", "COMPLETED", "CANCELLED"}
NoOne == "nobody"
NoShift == [st |-> "NONE", user |-> NoOne, expected |-> 0, ignored |-> FALSE, moved |-> 0]

Rows == [status |-> status, by |-> by, at |-> at, sent |-> sent, total |-> total,
         qty |-> qty, cooked |-> cooked, paid |-> paid, byBank |-> byBank,
         charged |-> charged, returned |-> returned, refunded |-> refunded,
         refundedCash |-> refundedCash, shift |-> shift, current |-> current]

(* A column is written only when the handler changed the value it had read. *)
Written(now, read, assigned) == IF assigned = read THEN now ELSE assigned

Total(q) == SumFunctionOnSet(q, Products)

-----------------------------------------------------------------------------
(* What the handlers read.                                                      *)

OpenShifts(x, u) == {k \in Shifts : x.shift[k].st = "OPEN" /\ x.shift[k].user = u}

(* sync_session_pos_shift: every request works on the user's latest open shift, *)
(* and is refused (redirected) when there is none.                              *)
OnShift(x, u) == OpenShifts(x, u) # {}
SessionShift(x, u) == CHOOSE k \in OpenShifts(x, u) : \A j \in OpenShifts(x, u) : j <= k

IsDraft(x, s) == s \in Sales /\ x.status[s] = "DRAFT"
HasLines(x, s) == \E p \in Products : x.qty[s][p] > 0
Unsent(x, s) == IsDraft(x, s) /\ ~x.sent[s]

(* line_kitchen_pending_qty *)
NewForKitchen(q, c) == IF q > c THEN q - c ELSE 0

(* migrate_draft_to_shift: a draft without a shift, or on a closed one, moves   *)
(* to the shift of whoever touches it.                                          *)
ShiftAfter(x, s, k) ==
  IF x.at[s] = None THEN k
  ELSE IF x.shift[x.at[s]].st = "CLOSED" THEN k ELSE x.at[s]

OpenDraftsUnsent(x, u, k) ==                                \* mutant
  {s \in Sales : Unsent(x, s) /\ x.by[s] = u /\ x.at[s] \in {k, None} /\ HasLines(x, s)}

(* list_pos_open_drafts: the open orders a user made on a shift. *)
OpenDrafts(x, u, k) ==
  {s \in Sales : /\ IsDraft(x, s) /\ x.by[s] = u
                 /\ x.at[s] \in {k, None}
                 /\ x.sent[s] \/ HasLines(x, s)}

(* cancel_stale_empty_pos_drafts, with the shift of the draft keep already moved. *)
StaleDrafts(x, u, k, keep) ==
  {s \in Sales : /\ Unsent(x, s) /\ x.by[s] = u /\ s # keep
                 /\ x.at[s] \in {k, None} /\ ~HasLines(x, s)}

(* What compute_shift_financial_summary adds up: the payments whose method is    *)
(* cash now, and the refunds that were paid in cash.                            *)
CashPaid(x) == [s \in Sales |-> IF x.byBank[s] THEN 0 ELSE x.paid[s]]
Takings(x, k) == SumFunctionOnSet(CashPaid(x), {s \in Sales : x.at[s] = k})
Refunds(x, k) == SumFunctionOnSet(x.refundedCash, {s \in Sales : x.at[s] = k})

ExpectedCashPlus(x, k) == Takings(x, k) + Refunds(x, k)      \* mutant

(* compute_expected_cash *)
ExpectedCash(x, k) == Takings(x, k) - Refunds(x, k)

-----------------------------------------------------------------------------
Zero == [p \in Products |-> 0]

Init ==
  /\ status = [s \in Sales |-> "NONE"]
  /\ by = [s \in Sales |-> NoOne]
  /\ at = [s \in Sales |-> None]
  /\ sent = [s \in Sales |-> FALSE]
  /\ total = [s \in Sales |-> 0]
  /\ qty = [s \in Sales |-> Zero]
  /\ cooked = [s \in Sales |-> Zero]
  /\ deducted = [s \in Sales |-> Zero]
  /\ paid = [s \in Sales |-> 0]
  /\ byBank = [s \in Sales |-> FALSE]
  /\ charged = [s \in Sales |-> 0]
  /\ returned = [s \in Sales |-> Zero]
  /\ refunded = [s \in Sales |-> 0]
  /\ refundedCash = [s \in Sales |-> 0]
  /\ shift = [k \in Shifts |-> NoShift]
  /\ current = [u \in Users |-> None]

(* open_shift *)
OpenShift(x, u, k) ==
  /\ ~OnShift(x, u)
  /\ shift[k] = NoShift
  /\ shift' = [shift EXCEPT ![k] = [st |-> "OPEN", user |-> u, expected |-> 0,
                                    ignored |-> FALSE, moved |-> 0]]
  /\ UNCHANGED <<sale, current>>

(* create_draft_sale, beside the cancellation of the drafts in gone and the     *)
(* move of the drafts in moved to shift k.                                      *)
Drafts(u, k, new, gone, moved) ==
  /\ new # None => status[new] = "NONE"      \* ids come from the database
  /\ status' = [s \in Sales |-> IF s = new THEN "DRAFT"
                                ELSE IF s \in gone THEN "CANCELLED" ELSE status[s]]
  /\ by' = [s \in Sales |-> IF s = new THEN u ELSE by[s]]
  /\ at' = [s \in Sales |-> IF s = new \/ s \in moved THEN k ELSE at[s]]

(* POST /pos/new-order: an empty draft becomes the session's order, and the     *)
(* user's other empty drafts are cancelled.                                     *)
NewOrder(x, u, new) ==
  /\ OnShift(x, u)
  /\ new # None
  /\ LET k   == SessionShift(x, u)
         cur == x.current[u]
         moved == {s \in {cur} : IsDraft(x, s) /\ ShiftAfter(x, s, k) # x.at[s]}
         y   == [x EXCEPT !.at = [s \in Sales |-> IF s \in moved THEN k ELSE @[s]]]
         keep == IF IsDraft(x, cur) /\ (x.sent[cur] \/ HasLines(x, cur)) THEN cur ELSE None
     IN  Drafts(u, k, new, StaleDrafts(y, u, k, keep), moved)
  /\ current' = [current EXCEPT ![u] = new]
  /\ UNCHANGED <<sent, lines, deducted, money, returns, shift>>

(* GET /pos and its poll: empty drafts other than the session's are cancelled,  *)
(* and the user's drafts leave their closed shifts for the open one.            *)
Visit(x, u) ==
  /\ OnShift(x, u)
  /\ LET k == SessionShift(x, u)
         gone == StaleDrafts(x, u, k, x.current[u])
     IN  Drafts(u, k, None, gone,
                {s \in Sales \ gone : /\ IsDraft(x, s) /\ x.by[s] = u
                                      /\ x.at[s] # None /\ ShiftAfter(x, s, k) # x.at[s]})
  /\ UNCHANGED <<sent, lines, deducted, money, returns, shift, current>>

(* POST /pos/open-order/../checkout: any draft becomes the session's order.     *)
(* (/pos/open-order refuses some and commits nothing more.)                     *)
OpenOrder(x, u, s) ==
  /\ OnShift(x, u)
  /\ IsDraft(x, s)
  /\ current' = [current EXCEPT ![u] = s]
  /\ UNCHANGED <<sale, shift>>

(* _recalc_sale_total, after the handler made the lines of s be q. *)
RecalcSaleTotal(x, s, q) == Written(total[s], x.total[s], Total(q))

(* send_kitchen_supplement, when an order that was sent gets more: what is new  *)
(* is deducted and every line counts as sent.                                   *)
SupplementUnbooked(x, s, q) ==                               \* mutant
  /\ cooked' = [cooked EXCEPT ![s] = IF x.sent[s] THEN q ELSE @]
  /\ UNCHANGED deducted

SupplementAdds(x, s, q) ==                                   \* mutant
  IF x.sent[s]
  THEN /\ deducted' = [deducted EXCEPT ![s] = [p \in Products |-> @[p] + q[p]]]
       /\ cooked' = [cooked EXCEPT ![s] = [p \in Products |-> @[p] + q[p]]]
  ELSE UNCHANGED <<cooked, deducted>>

Supplement(x, s, q) ==
  IF x.sent[s]
  THEN /\ deducted' = [deducted EXCEPT ![s] =
                         [p \in Products |-> @[p] + NewForKitchen(q[p], x.cooked[s][p])]]
       /\ cooked' = [cooked EXCEPT ![s] =
                       [p \in Products |-> Written(@[p], x.cooked[s][p], q[p])]]
  ELSE UNCHANGED <<cooked, deducted>>

(* POST /pos/add-line, /pos/scan and /pos/adjust-line with a positive delta:    *)
(* the session's draft, or a new one when the session has none, gets n more.    *)
AddLine(x, u, s, p, n) ==
  /\ OnShift(x, u)
  /\ IF IsDraft(x, x.current[u]) THEN s = x.current[u] ELSE x.status[s] = "NONE"
  /\ x.qty[s][p] + n <= MaxQty
  /\ LET k     == SessionShift(x, u)
         new   == IF IsDraft(x, s) THEN None ELSE s
         moved == {d \in {s} : IsDraft(x, d) /\ ShiftAfter(x, d, k) # x.at[d]}
         q     == [x.qty[s] EXCEPT ![p] = @ + n]
     IN  /\ Drafts(u, k, new, {}, moved)
         /\ qty' = [qty EXCEPT ![s][p] = IF x.qty[s][p] = 0 THEN @ + n ELSE q[p]]
         /\ total' = [total EXCEPT ![s] = RecalcSaleTotal(x, s, q)]
         /\ Supplement(x, s, q)
  /\ current' = [current EXCEPT ![u] = s]
  /\ UNCHANGED <<sent, money, returns, shift>>

(* A line whose quantity would not stay positive is deleted. *)
Left(q, n) == IF q > n THEN q - n ELSE 0

(* POST /pos/adjust-line with a negative delta and /pos/remove-line: what the   *)
(* kitchen was sent stays.                                                      *)
ReduceLine(x, u, p, n) ==
  /\ OnShift(x, u)
  /\ LET s == x.current[u]
         k == SessionShift(x, u)
     IN  /\ IsDraft(x, s)
         /\ x.qty[s][p] > 0
         /\ Left(x.qty[s][p], n) >= x.cooked[s][p]
         /\ qty[s][p] > 0                      \* the row is still there to be written
         /\ Drafts(u, k, None, {}, {d \in {s} : ShiftAfter(x, d, k) # x.at[d]})
         /\ LET q == [x.qty[s] EXCEPT ![p] = Left(@, n)]
            IN  /\ qty' = [qty EXCEPT ![s][p] = q[p]]
                /\ total' = [total EXCEPT ![s] = RecalcSaleTotal(x, s, q)]
  /\ UNCHANGED <<sent, cooked, deducted, money, returns, shift, current>>

(* POST /pos/order/../send-kitchen, for any draft: all of it is deducted and    *)
(* counts as sent.                                                              *)
SendToKitchen(x, u, s) ==
  /\ OnShift(x, u)
  /\ Unsent(x, s) /\ HasLines(x, s)
  /\ LET k == SessionShift(x, u)
     IN  Drafts(u, k, None, {}, {d \in {s} : ShiftAfter(x, d, k) # x.at[d]})
  /\ sent' = [sent EXCEPT ![s] = TRUE]
  /\ cooked' = [cooked EXCEPT ![s] =
                  [p \in Products |-> Written(@[p], x.cooked[s][p], x.qty[s][p])]]
  /\ deducted' = [deducted EXCEPT ![s] = [p \in Products |-> @[p] + x.qty[s][p]]]
  /\ UNCHANGED <<total, qty, money, returns, shift, current>>

MayPayAgain(x, s) ==                                         \* mutant
  s \in Sales /\ HasLines(x, s) /\ (SendBeforePay => x.sent[s])

(* payment_block_reason, room_charge_block_reason *)
MayPay(x, s) ==
  /\ IsDraft(x, s)
  /\ HasLines(x, s)
  /\ SendBeforePay => x.sent[s]

(* complete_sale on shift k; what the kitchen was never sent is deducted now.   *)
(* The new draft is created when the first commit is over: a request that dies  *)
(* in between creates none.                                                     *)
Complete(x, u, k, s, new) ==
  /\ new # None => status[new] = "NONE"
  /\ status' = [d \in Sales |-> IF d = s THEN "COMPLETED" ELSE IF d = new THEN "DRAFT" ELSE status[d]]
  /\ by' = [d \in Sales |-> IF d = new THEN u ELSE by[d]]
  /\ at' = [d \in Sales |-> IF d = s THEN Written(at[d], x.at[d], k) ELSE IF d = new THEN k ELSE at[d]]
  /\ deducted' = [deducted EXCEPT ![s] =
                    IF x.sent[s] THEN @ ELSE [p \in Products |-> @[p] + x.qty[s][p]]]
  /\ current' = IF new = None THEN current ELSE [current EXCEPT ![u] = new]

MayBeBank(s) == IF s \in BankSales THEN BOOLEAN ELSE {FALSE}

(* POST /pos/checkout *)
Checkout(x, u, new) ==
  /\ OnShift(x, u)
  /\ LET s == x.current[u]
     IN  /\ MayPay(x, s)
         /\ Complete(x, u, SessionShift(x, u), s, new)
         /\ paid' = [paid EXCEPT ![s] = @ + x.total[s]]
         /\ \E bank \in MayBeBank(s) : byBank' = [byBank EXCEPT ![s] = bank]
  /\ UNCHANGED <<sent, lines, charged, returns, shift>>

(* POST /pos/charge-room: the order goes on the account of a hotel room. *)
ChargeRoom(x, u, new) ==
  /\ OnShift(x, u)
  /\ LET s == x.current[u]
     IN  /\ MayPay(x, s)
         /\ x.paid[s] = 0 /\ x.charged[s] = 0
         /\ Complete(x, u, SessionShift(x, u), s, new)
         /\ charged' = [charged EXCEPT ![s] = @ + x.total[s]]
  /\ UNCHANGED <<sent, lines, paid, byBank, returns, shift>>

(* POST /pos/cancel-open-order and /pos/cancel-draft: an order the kitchen was  *)
(* not sent is cancelled, and with it the unsent drafts the user has at the     *)
(* same table (tables are not modelled: any of the user's unsent drafts).       *)
CancelOrder(x, u, s, others, new) ==
  /\ OnShift(x, u)
  /\ Unsent(x, s)
  /\ x.by[s] = u \/ x.current[u] = s
  /\ LET k == SessionShift(x, u)
     IN  /\ others \subseteq {d \in Sales : Unsent(x, d) /\ x.by[d] = u /\ x.at[d] \in {k, None}}
         /\ Drafts(u, k, new, others \cup {s}, {})
  /\ new # None => x.current[u] = s
  /\ current' = [current EXCEPT ![u] = IF @ = s THEN new ELSE @]
  /\ UNCHANGED <<sent, lines, deducted, money, returns, shift>>

MayReturnAgain(x, s, p, n) ==                                \* mutant
  s \in Sales /\ x.status[s] = "COMPLETED" /\ n <= x.qty[s][p]

(* create_sale_return of n units of one product, paid back unless the order is  *)
(* on a room account, by the method it was paid with or, with the permission,   *)
(* another.                                                                     *)
MayReturn(x, s, p, n) ==
  /\ s \in Sales /\ x.status[s] = "COMPLETED"
  /\ x.returned[s][p] + n <= x.qty[s][p]
  /\ Total(x.returned[s]) + n <= x.total[s]
  /\ x.paid[s] > 0 => x.refunded[s] + n <= x.paid[s]

Refund(x, u, s, p, n) ==
  /\ OnShift(x, u)
  /\ MayReturn(x, s, p, n)
  /\ returned' = [returned EXCEPT ![s][p] = @ + n]
  /\ refunded' = [refunded EXCEPT ![s] = IF x.paid[s] > 0 THEN @ + n ELSE @]
  /\ \E bank \in MayBeBank(s) :
       refundedCash' = [refundedCash EXCEPT ![s] = IF x.paid[s] > 0 /\ ~bank THEN @ + n ELSE @]
  /\ UNCHANGED <<status, by, at, sent, lines, deducted, money, shift, current>>

(* correct_sale_payment_method, from the point of sale or the report of a shift *)
(* that may long be closed: the payment of a completed order turns out to have  *)
(* been by another method.  It records a transfer between the methods first;    *)
(* a request that ends there leaves only that, which no report of a shift reads. *)
CorrectPayment(x, s) ==
  /\ x.status[s] = "COMPLETED"
  /\ x.charged[s] = 0 /\ x.paid[s] > 0
  /\ s \in BankSales
  /\ byBank' = [byBank EXCEPT ![s] = ~x.byBank[s]]
  /\ shift' = [k \in Shifts |->
                 IF k = x.at[s] /\ shift[k].st = "CLOSED"
                 THEN [shift[k] EXCEPT !.moved = @ + IF x.byBank[s] THEN -x.paid[s] ELSE x.paid[s]]
                 ELSE shift[k]]
  /\ UNCHANGED <<status, by, at, sent, lines, deducted, paid, charged, returns, current>>

(* _finalize_shift_close: the drawer is counted against the cash the rows of    *)
(* the shift's sales explain.                                                   *)
Finalize(x, k, ignored) ==
  shift' = [shift EXCEPT ![k] = [@ EXCEPT !.st = "CLOSED", !.expected = ExpectedCash(x, k),
                                          !.ignored = ignored]]

(* POST /pos/shift/close: refused while the cashier has open orders. *)
CloseShift(x, u, k) ==
  /\ k \in OpenShifts(x, u)
  /\ OpenDrafts(x, u, k) = {}
  /\ Finalize(x, k, FALSE)
  /\ UNCHANGED <<sale, current>>

(* admin_close_shift: unsent orders are cancelled if the administrator wants     *)
(* it; what is left stays open, which takes his force_ignore_pending.           *)
AdminClose(x, k) ==
  /\ x.shift[k].st = "OPEN"
  /\ LET open == OpenDrafts(x, x.shift[k].user, k)
     IN  \E safe \in {{}, {s \in open : ~x.sent[s]}} :
           /\ Drafts(x.shift[k].user, k, None, safe, {})
           /\ Finalize(x, k, open \ safe # {})
  /\ UNCHANGED <<sent, lines, deducted, money, returns, current>>

Next ==
  \/ \E u \in Users :
       \/ \E k \in Shifts : OpenShift(Rows, u, k) \/ CloseShift(Rows, u, k)
       \/ Visit(Rows, u)
       \/ \E s \in Sales : NewOrder(Rows, u, s) \/ OpenOrder(Rows, u, s) \/ SendToKitchen(Rows, u, s)
       \/ \E s \in Sales, p \in Products, n \in 1..MaxQty :
            AddLine(Rows, u, s, p, n) \/ Refund(Rows, u, s, p, n)
       \/ \E p \in Products, n \in 1..MaxQty : ReduceLine(Rows, u, p, n)
       \/ \E new \in Sales \cup {None} : Checkout(Rows, u, new) \/ ChargeRoom(Rows, u, new)
       \/ \E s \in Sales, others \in SUBSET Sales, new \in Sales \cup {None} :
            CancelOrder(Rows, u, s, others, new)
  \/ \E s \in Sales : CorrectPayment(Rows, s)
  \/ \E k \in Shifts : AdminClose(Rows, k)

Spec == Init /\ [][Next]_vars

-----------------------------------------------------------------------------
(* Types, with the bounds of the quantities. *)
TypeOK ==
  /\ status \in [Sales -> SaleStatus \cup {"NONE"}]
  /\ by \in [Sales -> Users \cup {NoOne}]
  /\ at \in [Sales -> Shifts \cup {None}]
  /\ sent \in [Sales -> BOOLEAN]
  /\ total \in [Sales -> Int]
  /\ qty \in [Sales -> [Products -> 0..MaxQty]]
  /\ cooked \in [Sales -> [Products -> 0..MaxQty]]
  /\ deducted \in [Sales -> [Products -> Int]]
  /\ paid \in [Sales -> Int] /\ byBank \in [Sales -> BOOLEAN] /\ charged \in [Sales -> Int]
  /\ returned \in [Sales -> [Products -> Int]]
  /\ refunded \in [Sales -> Int] /\ refundedCash \in [Sales -> Int]
  /\ shift \in [Shifts -> [st : {"NONE", "OPEN", "CLOSED"}, user : Users \cup {NoOne},
                           expected : Int, ignored : BOOLEAN, moved : Int]]
  /\ current \in [Users -> Sales \cup {None}]

(* What an order took from stock is what it sells: all of it once it was sent   *)
(* to the kitchen or sold, whatever was added in between, and nothing before or *)
(* when it was cancelled.  complete_sale relies on it: it deducts nothing for   *)
(* an order that was sent.                                                      *)
StockFollowsOrder ==
  \A s \in Sales : deducted[s] =
    IF status[s] = "COMPLETED" \/ (status[s] = "DRAFT" /\ sent[s]) THEN qty[s] ELSE Zero

(* A completed order is settled exactly once and in full, at the till or on a   *)
(* room account, and its total is that of its lines; no other order is.         *)
SettledOnce ==
  \A s \in Sales :
    IF status[s] = "COMPLETED"
    THEN paid[s] + charged[s] = Total(qty[s]) /\ 0 \in {paid[s], charged[s]}
    ELSE paid[s] = 0 /\ charged[s] = 0

(* Returns never exceed what was sold, nor refunds what was paid. *)
RefundedWithinPaid ==
  \A s \in Sales :
    /\ \A p \in Products : returned[s][p] <= qty[s][p]
    /\ refunded[s] <= paid[s]

(* The report of a closed shift stays true: whatever is sold, moved, returned    *)
(* and corrected later, the cash it expected is what the payments and refunds   *)
(* of its orders explain, but for two things: the refunds made since, and the   *)
(* payments whose method was corrected since, neither of which the code writes  *)
(* into the report.                                                             *)
ReportStaysTrue ==
  \A k \in Shifts : shift[k].st = "CLOSED" =>
    shift[k].expected - shift[k].moved \in ExpectedCash(Rows, k) .. Takings(Rows, k)

(* An open order of its own cashier is left on a closed shift only when an      *)
(* administrator chose to ignore it.  (One that another cashier's request moved *)
(* to that cashier's shift is in no one's list and stays behind.)               *)
NothingStranded ==
  \A s \in Sales :
    /\ status[s] = "DRAFT" /\ (sent[s] \/ HasLines(Rows, s))
    /\ at[s] # None /\ by[s] = shift[at[s]].user
    => shift[at[s]].st = "OPEN" \/ shift[at[s]].ignored

-----------------------------------------------------------------------------
(* An order as its customer, the stock and the cash see it. *)
Phase(st) ==
  CASE st = "NONE" -> "none" [] st = "DRAFT" -> "open"
    [] st = "COMPLETED" -> "settled" [] st = "CANCELLED" -> "dropped"

Order == INSTANCE OrderService WITH
           Worth <- Total, phase <- [s \in Sales |-> Phase(status[s])], gone <- deducted,
           atTill <- paid, onRoom <- charged, back <- returned, tillBack <- refunded

(* Orders, shifts and cashiers keep the promise of OrderService: whichever       *)
(* requests come in whatever order, goods leave only for open orders, an order   *)
(* is settled once for what left, and returns are paid back at their price.      *)
ImplementsOrder == Order!Spec
===============================================================================
