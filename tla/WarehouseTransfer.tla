--------------------------- MODULE WarehouseTransfer ---------------------------
(* Warehouses, stock movements and warehouse transfers (modules/inventory).    *)
(*                                                                             *)
(* An action is a request, and requests are served one after another.  But a   *)
(* request is not one transaction: apply_movement tells the notifications of   *)
(* every movement, and sending one commits the session (outbox.py:348), with   *)
(* the movement and without what the handler writes after it.  A handler that  *)
(* raises or dies after that leaves the movement behind: the actions named     *)
(* ...BreaksOff.                                                               *)
(*                                                                             *)
(* A StockBalance row is the sum of the movements of its product in its        *)
(* warehouse, because apply_movement ends by reconciling it; the ledger stands *)
(* for both.                                                                   *)
EXTENDS Integers, FiniteSets, Functions

CONSTANTS
  Warehouses,     \* rows of warehouses
  Main,           \* the row with is_main
  Products,
  Transfers,      \* ids a warehouse_transfers row may get
  MaxQty,         \* bound: largest quantity of a line or of one movement
  Managed,        \* bound: warehouses whose form is used
  StockBound,     \* bound: other movements and broken off requests fill up to this,
  Overdraft,      \* bound: and sales overdraw by up to this, per product
  MaxBroken       \* bound: requests that break off between two commits

ASSUME WarehouseAssumption ==
  /\ Main \in Warehouses /\ Managed \subseteq Warehouses
  /\ IsFiniteSet(Warehouses) /\ IsFiniteSet(Transfers)
  /\ MaxQty \in Nat \ {0}
  /\ StockBound \in [Products -> Nat] /\ Overdraft \in [Products -> Nat]
  /\ MaxBroken \in Nat

VARIABLES
  active,    \* Warehouse.is_active
  sells,     \* Warehouse.deduct_sales_enabled
  outlets,   \* where a cashier's session or the general setting has sales deducted
  shops,     \* history: the warehouses that ever were for sale, by flag or outlet
  ledger,    \* the sum of StockMovement.quantity, per warehouse and product
  moved,     \* the part of that sum whose rows carry a given transfer_id
  entered,   \* per product, the sum of the rows that carry no transfer_id
  route,     \* WarehouseTransfer.from_warehouse_id and to_warehouse_id
  status,    \* WarehouseTransfer.status
  line,      \* WarehouseTransferLine, one per product of a transfer
  loose,     \* history: of moved, what broken off requests posted
  broken     \* number of those requests

selling == <<active, sells, outlets, shops>>
stock == <<ledger, moved, entered>>
docs  == <<route, status, line>>
ghost == <<loose, broken>>
vars  == <<active, sells, outlets, shops, ledger, moved, entered, route, status, line,
           loose, broken>>

LineStatus == {"PENDING", "APPROVED", "REJECTED", "MODIFY_REQUESTED"}
TransferStatus == {"PENDING", "PARTIAL", "COMPLETED", "CANCELLED"}
Waiting == {"PENDING", "MODIFY_REQUESTED"}
None == "NONE"        \* a row that does not exist

Routes == Warehouses \X Warehouses
Lines == {ln \in [st : LineStatus \cup {None}, sent : 0..MaxQty, received : 0..MaxQty] :
            ln.received <= ln.sent /\ (ln.st # None => ln.sent > 0)}
NoLine == [st |-> None, sent |-> 0, received |-> 0]
PerItem(S) == [Warehouses -> [Products -> S]]
NoMoves == [wh \in Warehouses |-> [p \in Products |-> 0]]

Source(rt) == rt[1]
Dest(rt)   == rt[2]

-----------------------------------------------------------------------------
(* The checks of the handlers. *)

(* apply_movement: every movement needs an active warehouse, and only a sale   *)
(* may take the balance below zero.                                            *)
CanMoveUnchecked(wh, p, delta, isSale) == active[wh]       \* mutant

CanMove(wh, p, delta, isSale) ==
  /\ active[wh]
  /\ delta < 0 /\ ~isSale => ledger[wh][p] + delta >= 0

(* Where a sale may be deducted: in the warehouse of the product, if its flag  *)
(* is on, else in that of the session, the general setting or the main one,    *)
(* whose flag is not looked at.                                                *)
SoldFrom(wh) == sells[wh] \/ wh \in outlets

CanCreate(t, from, to, qty) ==
  /\ status[t] = None
  /\ active[from] /\ active[to]
  /\ from # to
  /\ \E p \in Products : qty[p] > 0
  /\ \A p \in Products : qty[p] > 0 => CanMove(from, p, -qty[p], FALSE)

CanApproveAgain(t, p, qty) ==                              \* mutant
  line[t][p].st # None /\ qty <= line[t][p].sent

CanApproveMore(t, p, qty) == line[t][p].st \in Waiting     \* mutant

CanApprove(t, p, qty) == line[t][p].st \in Waiting /\ qty <= line[t][p].sent

CanRejectAgain(t, p) == line[t][p].st # None               \* mutant

CanReject(t, p) == line[t][p].st \in Waiting

CanModifyAnswered(t, p) == line[t][p].st # None            \* mutant

CanModify(t, p) == line[t][p].st = "PENDING"

-----------------------------------------------------------------------------
Init ==
  /\ active = [wh \in Warehouses |-> TRUE]
  /\ sells = [wh \in Warehouses |-> wh = Main]
  /\ outlets = {Main}
  /\ shops = {Main}
  /\ ledger = NoMoves
  /\ moved = [t \in Transfers |-> NoMoves]
  /\ entered = [p \in Products |-> 0]
  /\ route = [t \in Transfers |-> <<Main, Main>>]
  /\ status = [t \in Transfers |-> None]
  /\ line = [t \in Transfers |-> [p \in Products |-> NoLine]]
  /\ loose = [t \in Transfers |-> NoMoves]
  /\ broken = 0

(* The movements d are added to f. *)
Plus(f, d) == [wh \in Warehouses |-> [p \in Products |-> f[wh][p] + d[wh][p]]]

(* The movements d of transfer t are made. *)
PostTransfer(t, d) ==
  /\ ledger' = Plus(ledger, d)
  /\ moved' = [moved EXCEPT ![t] = Plus(@, d)]
  /\ UNCHANGED <<selling, entered>>

(* The request broke off; it leaves d without the rows that explain it (within *)
(* the bounds).                                                                *)
LeftLoose(t, d) ==
  /\ broken < MaxBroken
  /\ \A wh \in Warehouses, p \in Products : ledger'[wh][p] <= StockBound[p]
  /\ loose' = [loose EXCEPT ![t] = Plus(@, d)]
  /\ broken' = broken + 1

(* A transfer is made, with a line for each product of rows. *)
OpenTransfer(t, from, to, qty, rows) ==
  /\ route' = [route EXCEPT ![t] = <<from, to>>]
  /\ status' = [status EXCEPT ![t] = "PENDING"]
  /\ line' = [line EXCEPT ![t] = [p \in Products |->
                IF p \in rows THEN [st |-> "PENDING", sent |-> qty[p], received |-> 0]
                ELSE NoLine]]

Shipped(from, qty) == [wh \in Warehouses |-> [p \in Products |->
                         IF wh = from THEN -qty[p] ELSE 0]]

CreateTransfer(t, from, to, qty) ==
  /\ CanCreate(t, from, to, qty)
  /\ OpenTransfer(t, from, to, qty, {p \in Products : qty[p] > 0})
  /\ PostTransfer(t, Shipped(from, qty))
  /\ UNCHANGED ghost

(* The movement of one line after another is made and its row added.  A later  *)
(* line may be refused for want of stock when the movement of line last, with  *)
(* all before it, has been committed, and the row of last has not.             *)
CreateBreaksOff(t, from, to, qty, last) ==
  /\ CanCreate(t, from, to, qty)
  /\ qty[last] > 0
  /\ OpenTransfer(t, from, to, qty, {p \in Products : qty[p] > 0} \ {last})
  /\ PostTransfer(t, Shipped(from, qty))
  /\ LeftLoose(t, Shipped(from, [p \in Products |-> IF p = last THEN qty[p] ELSE 0]))

RefreshedStatusAny(lns) ==                                 \* mutant
  IF \E p \in Products : lns[p].st = "APPROVED" THEN "COMPLETED" ELSE "PENDING"

(* The status a transfer whose lines are lns gets from _refresh_transfer_status. *)
RefreshedStatus(lns) ==
  LET sts == {lns[p].st : p \in Products} \ {None}
  IN  IF sts = {} THEN "CANCELLED"
      ELSE IF sts \cap Waiting = {} THEN "COMPLETED"
      ELSE IF "APPROVED" \in sts THEN "PARTIAL"
      ELSE "PENDING"

(* What an answer to line p of transfer t writes. *)
AnswerLine(t, p, st, received) ==
  /\ line' = [line EXCEPT ![t][p].st = st, ![t][p].received = received]
  /\ status' = [status EXCEPT ![t] = RefreshedStatus(line'[t])]
  /\ UNCHANGED route

(* The movements of an answer: back goes to the source, got to the destination. *)
Answered(t, p, back, got) ==
  [wh \in Warehouses |-> [q \in Products |->
    IF q # p THEN 0
    ELSE IF wh = Dest(route[t]) THEN got
    ELSE IF wh = Source(route[t]) THEN back
    ELSE 0]]

(* The recipient counted qty; the difference to what was sent goes back first. *)
ApproveLine(t, p, qty) ==
  LET back == line[t][p].sent - qty
  IN  /\ CanApprove(t, p, qty)
      /\ back > 0 => CanMove(Source(route[t]), p, back, FALSE)
      /\ CanMove(Dest(route[t]), p, qty, FALSE)
      /\ AnswerLine(t, p, "APPROVED", qty)
      /\ PostTransfer(t, Answered(t, p, back, qty))
      /\ UNCHANGED ghost

(* After the first movement, as when the destination is no longer active, or   *)
(* after both: the line still waits, and may be answered again.                *)
ApproveBreaksOff(t, p, qty) ==
  LET back == line[t][p].sent - qty
  IN  /\ CanApprove(t, p, qty)
      /\ back > 0 => CanMove(Source(route[t]), p, back, FALSE)
      /\ \/ back > 0
            /\ PostTransfer(t, Answered(t, p, back, 0))
            /\ LeftLoose(t, Answered(t, p, back, 0))
         \/ CanMove(Dest(route[t]), p, qty, FALSE)
            /\ PostTransfer(t, Answered(t, p, back, qty))
            /\ LeftLoose(t, Answered(t, p, back, qty))
      /\ UNCHANGED docs

RejectLine(t, p) ==
  /\ CanReject(t, p)
  /\ CanMove(Source(route[t]), p, line[t][p].sent, FALSE)
  /\ AnswerLine(t, p, "REJECTED", 0)
  /\ PostTransfer(t, Answered(t, p, line[t][p].sent, 0))
  /\ UNCHANGED ghost

RejectBreaksOff(t, p) ==
  /\ CanReject(t, p)
  /\ CanMove(Source(route[t]), p, line[t][p].sent, FALSE)
  /\ PostTransfer(t, Answered(t, p, line[t][p].sent, 0))
  /\ LeftLoose(t, Answered(t, p, line[t][p].sent, 0))
  /\ UNCHANGED docs

RequestModify(t, p) ==
  /\ CanModify(t, p)
  /\ line' = [line EXCEPT ![t][p].st = "MODIFY_REQUESTED"]
  /\ status' = [status EXCEPT ![t] = "PARTIAL"]
  /\ UNCHANGED <<selling, stock, route, ghost>>

(* Movements of other modules: a sale, or an adjustment, a purchase, a waste or *)
(* a return.                                                                    *)
Movement(wh, p, delta, isSale) ==
  /\ delta # 0
  /\ isSale => delta < 0 /\ SoldFrom(wh)
  /\ CanMove(wh, p, delta, isSale)
  /\ ledger[wh][p] + delta \in (-Overdraft[p])..StockBound[p]
  /\ ledger' = [ledger EXCEPT ![wh][p] = @ + delta]
  /\ entered' = [entered EXCEPT ![p] = @ + delta]
  /\ UNCHANGED <<selling, moved, docs, ghost>>

(* The form of a warehouse writes both switches. *)
SetActive(wh, on, flag) ==
  /\ wh = Main => on
  /\ on # active[wh] \/ flag # sells[wh]
  /\ active' = [active EXCEPT ![wh] = on]
  /\ sells' = [sells EXCEPT ![wh] = flag]
  /\ shops' = IF flag THEN shops \cup {wh} ELSE shops
  /\ UNCHANGED <<outlets, stock, docs, ghost>>

(* A cashier opens a session at a warehouse (open_shift wants its flag on), or  *)
(* the settings name it for all sales (the flag is not looked at).              *)
OpenOutlet(wh) ==
  /\ active[wh] /\ wh \notin outlets
  /\ outlets' = outlets \cup {wh}
  /\ shops' = shops \cup {wh}
  /\ UNCHANGED <<active, sells, stock, docs, ghost>>

(* The session ends, or the setting changes; without them it is the main one.   *)
CloseOutlet(wh) ==
  /\ wh \in outlets \ {Main}
  /\ outlets' = outlets \ {wh}
  /\ UNCHANGED <<active, sells, shops, stock, docs, ghost>>

Quantities == [Products -> 0..MaxQty]

Next ==
  \/ \E t \in Transfers, from, to \in Warehouses, qty \in Quantities :
       CreateTransfer(t, from, to, qty)
  \/ \E t \in Transfers, from, to \in Warehouses, qty \in Quantities, last \in Products :
       CreateBreaksOff(t, from, to, qty, last)
  \/ \E t \in Transfers, p \in Products, qty \in 1..MaxQty : ApproveLine(t, p, qty)
  \/ \E t \in Transfers, p \in Products, qty \in 1..MaxQty : ApproveBreaksOff(t, p, qty)
  \/ \E t \in Transfers, p \in Products : RejectLine(t, p)
  \/ \E t \in Transfers, p \in Products : RejectBreaksOff(t, p)
  \/ \E t \in Transfers, p \in Products : RequestModify(t, p)
  \/ \E wh \in Warehouses, p \in Products, delta \in (-MaxQty)..MaxQty, isSale \in BOOLEAN :
       Movement(wh, p, delta, isSale)
  \/ \E wh \in Managed, on, flag \in BOOLEAN : SetActive(wh, on, flag)
  \/ \E wh \in Warehouses : OpenOutlet(wh)
  \/ \E wh \in Warehouses : CloseOutlet(wh)

Spec == Init /\ [][Next]_vars
-----------------------------------------------------------------------------
(* Every variable has its type; ledgers may be negative. *)
TypeOK ==
  /\ active \in [Warehouses -> BOOLEAN]
  /\ sells \in [Warehouses -> BOOLEAN]
  /\ outlets \in SUBSET Warehouses
  /\ shops \in SUBSET Warehouses
  /\ ledger \in PerItem(Int)
  /\ moved \in [Transfers -> PerItem(Int)]
  /\ entered \in [Products -> Int]
  /\ route \in [Transfers -> Routes]
  /\ status \in [Transfers -> TransferStatus \cup {None}]
  /\ line \in [Transfers -> [Products -> Lines]]
  /\ loose \in [Transfers -> PerItem(Int)]
  /\ broken \in 0..MaxBroken

(* What a line has taken out of its source: all it sent until the recipient    *)
(* answers, then what the recipient confirmed.                                 *)
TakenBy(ln) == IF ln.st \in Waiting THEN ln.sent ELSE ln.received

(* What a line says of the stock of a warehouse.                               *)
Says(t, wh, p) == (IF wh = Dest(route[t]) THEN line[t][p].received ELSE 0)
                - (IF wh = Source(route[t]) THEN TakenBy(line[t][p]) ELSE 0)

(* The movements of a transfer are what its lines say: the source lost what    *)
(* the line took, the destination holds what was confirmed and no other        *)
(* warehouse moved; and beyond that exactly what requests posted that broke    *)
(* off before they wrote the line (create, approve with a difference, reject). *)
(* Holds when requests run one at a time.                                      *)
LineAccounted == \A t \in Transfers, wh \in Warehouses, p \in Products :
  moved[t][wh][p] = Says(t, wh, p) + loose[t][wh][p]

(* Goods neither appear nor vanish in a transfer: over all warehouses, stock   *)
(* plus what waits for a recipient is what purchases, sales and adjustments    *)
(* have brought in, and what broken off requests left.  Holds when requests    *)
(* run one at a time.                                                          *)
Total(f, p) == SumFunctionOnSet([wh \in Warehouses |-> f[wh][p]], Warehouses)

InTransit(p) ==
  SumFunctionOnSet([t \in Transfers |-> IF line[t][p].st \in Waiting THEN line[t][p].sent ELSE 0],
                   Transfers)

LeftOver(p) == SumFunctionOnSet([t \in Transfers |-> Total(loose[t], p)], Transfers)

StockConserved == \A p \in Products :
  Total(ledger, p) + InTransit(p) = entered[p] + LeftOver(p)

(* A warehouse that never was for sale, neither by its flag nor as the outlet  *)
(* of a session or of the settings, is never overdrawn, whatever transfers,    *)
(* adjustments, sales elsewhere and (de)activations do, or leave half done.    *)
(* Holds when requests run one at a time.                                      *)
NeverOverdrawn == \A wh \in Warehouses \ shops, p \in Products : ledger[wh][p] >= 0

(* A transfer that has lines is COMPLETED exactly when none of them waits for  *)
(* an answer, so the recipient's inbox (PENDING and PARTIAL) shows every line  *)
(* still open and nothing else (except a transfer whose creation broke off at  *)
(* its first line).  Holds when requests run one at a time.                    *)
CompletedWhenAnswered == \A t \in Transfers :
  (\E p \in Products : line[t][p].st # None) =>
    (status[t] = "COMPLETED" <=> \A p \in Products : line[t][p].st \notin Waiting)

(* "This line has already been processed": once the recipient has approved or  *)
(* rejected a line, no later request answers it again.                         *)
AnsweredOnce == [][\A t \in Transfers, p \in Products :
  line[t][p].st \in {"APPROVED", "REJECTED"} => line'[t][p] = line[t][p]]_vars

-----------------------------------------------------------------------------
(* A line as its sender and its recipient see it. *)
ParcelOf(ln) ==
  [st |-> IF ln.st = None THEN "none" ELSE IF ln.st \in Waiting THEN "carried" ELSE "answered",
   goods |-> TakenBy(ln)]

Service == INSTANCE TransferService WITH
             stock <- ledger, ends <- route, outside <- entered, astray <- loose,
             parcel <- [t \in Transfers |-> [p \in Products |-> ParcelOf(line[t][p])]]

(* Transfers, answers, sales and the switches of warehouses keep the promise of  *)
(* TransferService: a parcel is answered once, and its goods are in one place    *)
(* but for those that a request which broke off moved without saying so.  Holds  *)
(* when requests run one at a time.                                              *)
ImplementsTransfers == Service!Spec
=============================================================================
