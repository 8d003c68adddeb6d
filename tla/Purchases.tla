-------------------------------- MODULE Purchases --------------------------------
(* Purchase invoices (modules/payments: service.py, purchase_edit.py,             *)
(* cost_reference.py), the lots they bring (modules/inventory/lots.py), which     *)
(* every movement out of a warehouse uses up, oldest first, and what is paid of   *)
(* them.  A request is one transaction, but for the alert of a movement, which     *)
(* may commit what was written so far (inventory_hooks.py:149, outbox.py:348); a   *)
(* request may break off, or be refused, after it.                                *)
(*                                                                               *)
(* A place is the key of a stock balance: a product in a warehouse.  An invoice   *)
(* has one line: lines for different places do not meet, and each is handled      *)
(* before the next.  Costs matter for the invoice's amount only.                  *)
EXTENDS Integers, Functions

CONSTANTS
  Purchases,    \* ids of the purchases of kind INVENTORY
  None,         \* no invoice
  Places,
  SellingPlaces,\* where sales are deducted, also below zero
  Quantities,   \* of lines and movements
  Costs,        \* of a unit
  MaxStock,     \* bound: what other modules bring in, or sales overdraw
  MaxLots,      \* bound: rows of inventory_lots created
  MaxBreaks     \* bound: edits and deletions that break off

ASSUME PurchaseAssumption ==
  /\ None \notin Purchases
  /\ SellingPlaces \subseteq Places
  /\ Quantities \subseteq Nat \ {0} /\ 1 \in Quantities
  /\ Costs \subseteq Nat \ {0}
  /\ MaxStock \in Nat /\ MaxLots \in Nat /\ MaxBreaks \in Nat
  /\ Places # {}

(* Ids of lots, in the order of their creation. *)
LotIds == 1 .. MaxLots

VARIABLES
  invoice,     \* Purchase and its line
  paid,        \* sum of its PurchasePayment rows
  payments,    \* number of them
  lotOf,       \* the invoice of a lot, None for an id not in use
  lotAt,       \* its place
  left,        \* qty_remaining
  used,        \* sum of its InventoryLotConsumption rows
  lastLot,     \* the last lot id given
  balance,     \* sum of the movements of a place
  brought,     \* sum of those that name an invoice
  overdrawn,   \* places that were below zero
  missing,     \* goods of an invoice's line that an edit broken off took out
  breaks       \* requests that broke off

money == <<paid, payments>>
lots == <<lotOf, lotAt, left, used, lastLot>>
broken == <<missing, breaks>>
vars == <<invoice, money, lots, balance, brought, overdrawn, broken>>

(* is_cost_reference_purchase looks at the name of the supplier only. *)
COST_REFERENCE_SUPPLIER == "cost reference"
Suppliers == {COST_REFERENCE_SUPPLIER, "supplier"}

NoInvoice(st) ==
  [st |-> st, at |-> CHOOSE k \in Places : TRUE, qty |-> 0, amount |-> 0,
   supplier |-> "supplier", stocked |-> FALSE]

Nothing == [k \in Places |-> 0]

Init ==
  /\ invoice = [p \in Purchases |-> NoInvoice("NONE")]
  /\ paid = [p \in Purchases |-> 0]
  /\ payments = [p \in Purchases |-> 0]
  /\ lotOf = [l \in LotIds |-> None]
  /\ lotAt = [l \in LotIds |-> CHOOSE k \in Places : TRUE]
  /\ left = [l \in LotIds |-> 0]
  /\ used = [l \in LotIds |-> 0]
  /\ lastLot = 0
  /\ balance = Nothing
  /\ brought = [p \in Purchases |-> Nothing]
  /\ overdrawn = {}
  /\ missing = [p \in Purchases |-> Nothing]
  /\ breaks = 0

-----------------------------------------------------------------------------
(* Lots. *)

Lots(p) == {l \in LotIds : lotOf[l] = p}

(* list_fifo_lots at a place, but for the lots gone, which were voided before. *)
Remaining(k, gone) ==
  [l \in LotIds |-> IF lotOf[l] # None /\ l \notin gone /\ lotAt[l] = k THEN left[l] ELSE 0]

Least(a, b) == IF a < b THEN a ELSE b

TakenNewestFirst(stock, q) ==                                        \* mutant
  {t \in [LotIds -> 0 .. q] :
     /\ \A l \in LotIds : t[l] <= stock[l]
     /\ \A i, j \in LotIds : (i < j /\ t[i] > 0) => t[j] = stock[j]
     /\ SumFunction(t) = Least(q, SumFunction(stock))}

TakenOfOne(stock, q) ==                                              \* mutant
  {t \in [LotIds -> 0 .. q] :
     /\ \A l \in LotIds : t[l] <= stock[l]
     /\ \A i, j \in LotIds : (i < j /\ t[j] > 0) => stock[i] = 0
     /\ \A l \in LotIds : t[l] > 0 => t[l] = Least(q, stock[l])
     /\ SumFunction(stock) > 0 => SumFunction(t) > 0}

(* allocate_lots_fifo: what is taken of each lot.  A lot is used up before the    *)
(* next is touched; goods no lot accounts for leave without one.                 *)
Taken(stock, q) ==
  {t \in [LotIds -> 0 .. q] :
     /\ \A l \in LotIds : t[l] <= stock[l]
     /\ \A i, j \in LotIds : (i < j /\ t[j] > 0) => t[i] = stock[i]
     /\ SumFunction(t) = Least(q, SumFunction(stock))}

NewLot == lastLot + 1

(* The bound: requests that bring a lot, and those that break off. *)
Room == lastLot + breaks < MaxLots

-----------------------------------------------------------------------------
(* Movements of other modules. *)

(* A movement out: waste, shortages, transfers, consumption of components. *)
TakeOut(k, q) ==
  /\ \E t \in Taken(Remaining(k, {}), q) :
       /\ left' = [l \in LotIds |-> left[l] - t[l]]
       /\ used' = [l \in LotIds |-> used[l] + t[l]]
  /\ balance' = [balance EXCEPT ![k] = @ - q]
  /\ UNCHANGED <<invoice, money, lotOf, lotAt, lastLot, brought, broken>>

Issue(k, q) ==
  /\ balance[k] >= q
  /\ TakeOut(k, q)
  /\ UNCHANGED overdrawn

(* Sales are not refused for want of stock. *)
Sell(k, q) ==
  /\ k \in SellingPlaces /\ balance[k] - q >= -MaxStock
  /\ TakeOut(k, q)
  /\ overdrawn' = IF balance[k] < q THEN overdrawn \cup {k} ELSE overdrawn

(* Transfers in, adjustments, returns (which name no sale) restore no lot. *)
Receive(k, q) ==
  /\ balance[k] + q <= MaxStock
  /\ balance' = [balance EXCEPT ![k] = @ + q]
  /\ UNCHANGED <<invoice, money, lots, brought, overdrawn, broken>>

-----------------------------------------------------------------------------
(* Invoices. *)

Saved(p) == invoice[p].st = "SAVED"
IsReference(p) == invoice[p].supplier = COST_REFERENCE_SUPPLIER

SavedInvoice(k, q, a, s, stocked) ==
  [st |-> "SAVED", at |-> k, qty |-> q, amount |-> a, supplier |-> s, stocked |-> stocked]

(* record_inventory_purchase: pay is what is paid at once, all of it or nothing   *)
(* if the form does not say; nothing can be paid on a cost reference.             *)
RecordPurchase(p, k, q, a, s, pay) ==
  /\ invoice[p].st = "NONE" /\ Room
  /\ pay <= a /\ (s = COST_REFERENCE_SUPPLIER => pay = 0)
  /\ invoice' = [invoice EXCEPT ![p] = SavedInvoice(k, q, a, s, TRUE)]
  /\ paid' = [paid EXCEPT ![p] = pay]
  /\ payments' = [payments EXCEPT ![p] = IF pay > 0 THEN 1 ELSE 0]
  /\ lotOf' = [lotOf EXCEPT ![NewLot] = p]
  /\ lotAt' = [lotAt EXCEPT ![NewLot] = k]
  /\ left' = [left EXCEPT ![NewLot] = q]
  /\ lastLot' = NewLot
  /\ balance' = [balance EXCEPT ![k] = @ + q]
  /\ brought' = [brought EXCEPT ![p][k] = @ + q]
  /\ UNCHANGED <<used, overdrawn, broken>>

(* record_component_cost_entry: an invoice and a lot for the cost of a component, *)
(* and no goods.                                                                 *)
RecordReference(p, k, a) ==
  /\ invoice[p].st = "NONE" /\ Room
  /\ invoice' = [invoice EXCEPT ![p] = SavedInvoice(k, 1, a, COST_REFERENCE_SUPPLIER, FALSE)]
  /\ lotOf' = [lotOf EXCEPT ![NewLot] = p]
  /\ lotAt' = [lotAt EXCEPT ![NewLot] = k]
  /\ lastLot' = NewLot
  /\ UNCHANGED <<money, left, used, balance, brought, overdrawn, broken>>

(* edit_cost_reference_lines *)
EditReference(p, a) ==
  /\ Saved(p) /\ IsReference(p)
  /\ invoice' = [invoice EXCEPT ![p].amount = a]
  /\ UNCHANGED <<money, lots, balance, brought, overdrawn, broken>>

Outstanding(p) == IF IsReference(p) THEN 0 ELSE invoice[p].amount - paid[p]

(* record_purchase_payment *)
RecordPayment(p, a) ==
  /\ Saved(p)
  /\ paid' = [paid EXCEPT ![p] = @ + a]
  /\ payments' = [payments EXCEPT ![p] = @ + 1]
  /\ UNCHANGED <<invoice, lots, balance, brought, overdrawn, broken>>

SyncSinglePayment(p, a, credit) ==                                   \* mutant
  \/ (credit \/ payments[p] = 0) /\ UNCHANGED paid
  \/ ~credit /\ payments[p] = 1 /\ paid' = [paid EXCEPT ![p] = a]

(* _sync_payment_after_edit, when the total becomes a: unless the invoice is on   *)
(* credit now, a payment in full becomes one of the new total, and any other is   *)
(* refused.                                                                      *)
SyncPayment(p, a, credit) ==
  /\ paid[p] <= a
  /\ \/ (credit \/ payments[p] = 0) /\ UNCHANGED paid
     \/ /\ ~credit /\ payments[p] = 1 /\ paid[p] = invoice[p].amount
        /\ paid' = [paid EXCEPT ![p] = a]

CanReverseUnchecked(p) == Saved(p)                                   \* mutant

(* _assert_can_reverse_stock; without it the movement out would be refused.       *)
CanReverse(p) == balance[invoice[p].at] >= invoice[p].qty

MovedAtNewPlace(p, k, q) ==                                          \* mutant
  [brought[p] EXCEPT ![k] = @ + q - invoice[p].qty]

(* The movements of an invoice whose line becomes q at place k: the old line is   *)
(* taken out where it was brought in.                                            *)
Moved(p, k, q) ==
  [i \in Places |-> brought[p][i]
                      - (IF i = invoice[p].at THEN invoice[p].qty ELSE 0)
                      + (IF i = k THEN q ELSE 0)]

(* What an edit makes of the line and its goods.  The lots of the invoice are set  *)
(* to nothing; the movement that takes the old line out then uses up other lots;  *)
(* the lots go with the old line, and their consumptions with them (ON DELETE     *)
(* CASCADE).                                                                     *)
EditLine(p, k, q, a, s) ==
  /\ Saved(p) /\ ~IsReference(p) /\ Room
  /\ CanReverse(p)
  /\ invoice' = [invoice EXCEPT ![p] = SavedInvoice(k, q, a, s, TRUE)]
  /\ \E t \in Taken(Remaining(invoice[p].at, Lots(p)), invoice[p].qty) :
       /\ left' = [i \in LotIds |-> IF i = NewLot THEN q ELSE IF i \in Lots(p) THEN 0 ELSE left[i] - t[i]]
       /\ used' = [i \in LotIds |-> IF i \in Lots(p) THEN 0 ELSE used[i] + t[i]]
  /\ lotOf' = [i \in LotIds |-> IF i = NewLot THEN p ELSE IF i \in Lots(p) THEN None ELSE lotOf[i]]
  /\ lotAt' = [lotAt EXCEPT ![NewLot] = k]
  /\ lastLot' = NewLot
  /\ brought' = [brought EXCEPT ![p] = Moved(p, k, q)]
  /\ balance' = [i \in Places |-> balance[i] + Moved(p, k, q)[i] - brought[p][i]]
  /\ UNCHANGED <<payments, overdrawn, missing>>

(* edit_inventory_purchase *)
EditPurchase(p, k, q, a, s, credit) ==
  /\ SyncPayment(p, a, credit)
  /\ EditLine(p, k, q, a, s)
  /\ UNCHANGED breaks

(* Committed by the alert of the new goods; then the payment is refused.          *)
BreakOffEdit(p, k, q, s) ==
  /\ breaks < MaxBreaks /\ breaks' = breaks + 1
  /\ EditLine(p, k, q, invoice[p].amount, s)
  /\ UNCHANGED paid

(* The goods of an invoice are taken out, and its lots keep their rows.           *)
TakeBack(p) ==
  /\ Saved(p) /\ ~IsReference(p) /\ CanReverse(p)
  /\ Room /\ breaks < MaxBreaks /\ breaks' = breaks + 1
  /\ \E t \in Taken(Remaining(invoice[p].at, Lots(p)), invoice[p].qty) :
       /\ left' = [i \in LotIds |-> IF i \in Lots(p) THEN 0 ELSE left[i] - t[i]]
       /\ used' = [i \in LotIds |-> used[i] + t[i]]
  /\ balance' = [balance EXCEPT ![invoice[p].at] = @ - invoice[p].qty]
  /\ UNCHANGED <<money, lotOf, lotAt, lastLot, overdrawn>>

(* Committed by the alert of the old goods: the line still stands, at the new      *)
(* place, where the next edit will look for them.                                *)
BreakOffReversal(p, k, s) ==
  /\ TakeBack(p)
  /\ brought' = [brought EXCEPT ![p][invoice[p].at] = @ - invoice[p].qty]
  /\ missing' = [missing EXCEPT ![p][k] = @ + invoice[p].qty]
  /\ invoice' = [invoice EXCEPT ![p].at = k, ![p].supplier = s]

(* delete_purchase likewise; its movement does not name the invoice.              *)
BreakOffDelete(p) ==
  /\ TakeBack(p)
  /\ UNCHANGED <<invoice, brought, missing>>

(* delete_purchase: only the name of its supplier tells whether an invoice has    *)
(* goods to take out.  Its movements stay, without its number.                   *)
DeletePurchase(p) ==
  LET q == IF IsReference(p) THEN 0 ELSE invoice[p].qty
      k == invoice[p].at
  IN  /\ Saved(p) /\ (IsReference(p) \/ CanReverse(p))
      /\ \E t \in Taken(Remaining(k, Lots(p)), q) :
           /\ left' = [i \in LotIds |-> IF i \in Lots(p) THEN 0 ELSE left[i] - t[i]]
           /\ used' = [i \in LotIds |-> IF i \in Lots(p) THEN 0 ELSE used[i] + t[i]]
      /\ lotOf' = [i \in LotIds |-> IF i \in Lots(p) THEN None ELSE lotOf[i]]
      /\ balance' = [balance EXCEPT ![k] = @ - q]
      /\ invoice' = [invoice EXCEPT ![p] = NoInvoice("DELETED")]
      /\ paid' = [paid EXCEPT ![p] = 0]
      /\ payments' = [payments EXCEPT ![p] = 0]
      /\ brought' = [brought EXCEPT ![p] = Nothing]
      /\ missing' = [missing EXCEPT ![p] = Nothing]
      /\ UNCHANGED <<lotAt, lastLot, overdrawn, breaks>>

-----------------------------------------------------------------------------
Next ==
  \/ \E k \in Places, q \in Quantities : Issue(k, q) \/ Sell(k, q) \/ Receive(k, q)
  \/ \E p \in Purchases, k \in Places, c \in Costs :
       \/ RecordReference(p, k, c)
       \/ \E q \in Quantities, s \in Suppliers :
            \/ \E pay \in 0 .. q * c : RecordPurchase(p, k, q, q * c, s, pay)
            \/ \E credit \in BOOLEAN : EditPurchase(p, k, q, q * c, s, credit)
  \/ \E p \in Purchases, k \in Places, s \in Suppliers :
       BreakOffReversal(p, k, s) \/ \E q \in Quantities : BreakOffEdit(p, k, q, s)
  \/ \E p \in Purchases :
       \/ DeletePurchase(p) \/ BreakOffDelete(p)
       \/ \E c \in Costs : EditReference(p, invoice[p].qty * c)
       \/ \E a \in 1 .. Outstanding(p) : RecordPayment(p, a)

Spec == Init /\ [][Next]_vars

-----------------------------------------------------------------------------
Invoices ==
  [st : {"NONE", "SAVED", "DELETED"}, at : Places, qty : Nat, amount : Nat,
   supplier : Suppliers, stocked : BOOLEAN]

(* Types; only where sales are deducted is a balance ever below zero.            *)
TypeOK ==
  /\ invoice \in [Purchases -> Invoices]
  /\ paid \in [Purchases -> Nat]
  /\ payments \in [Purchases -> Nat]
  /\ lotOf \in [LotIds -> Purchases \cup {None}]
  /\ lotAt \in [LotIds -> Places]
  /\ left \in [LotIds -> Nat]
  /\ used \in [LotIds -> Nat]
  /\ lastLot \in Nat
  /\ balance \in [Places -> Int]
  /\ \A k \in Places \ SellingPlaces : balance[k] >= 0
  /\ brought \in [Purchases -> [Places -> Int]]
  /\ overdrawn \subseteq Places
  /\ missing \in [Purchases -> [Places -> Nat]] /\ breaks \in Nat

(* "First in, first out" (lots.py:1): while an older lot of a place has goods, no *)
(* younger one was touched, whatever was sold, issued, edited or deleted.         *)
OldestFirst ==
  \A i, j \in LotIds :
    (i < j /\ lotOf[i] # None /\ lotOf[j] # None /\ lotAt[i] = lotAt[j] /\ used[j] > 0)
      => left[i] = 0

InLots(k) == SumFunction(Remaining(k, {}))

(* A place that was never overdrawn holds at least the goods its lots claim, so   *)
(* what the next sale is charged for is there: every movement out reduces the     *)
(* lots with the balance, and nothing fills a lot again.                         *)
LotsWithinStock == \A k \in Places \ overdrawn : InLots(k) <= balance[k]

(* What the movements that name an invoice add up to is its line, at the place it *)
(* has now, but for what edits that broke off took out and did not bring in: an    *)
(* edit takes the goods out where they were, though the invoice may have another  *)
(* warehouse by then (purchase_edit.py:332), and the alert of that movement may   *)
(* commit it before the old line goes (purchase_edit.py:160 and 173).             *)
ReceivedAsInvoiced ==
  \A p \in Purchases : (Saved(p) /\ invoice[p].stocked) =>
    brought[p] = [k \in Places |->
                    (IF k = invoice[p].at THEN invoice[p].qty ELSE 0) - missing[p][k]]

(* No invoice is paid beyond its total, at once, later or in parts, with its total *)
(* edited and its method changed in between.                                     *)
PaidWithinTotal ==
  \A p \in Purchases : ~IsReference(p) => paid[p] <= invoice[p].amount

(* A lot that stays loses goods only when its place does.  It does not hold: an    *)
(* edit that changes nothing uses up the lots of other invoices.                 *)
LotsLeaveWithStock ==
  [][\A l \in LotIds :
       (lotOf'[l] = lotOf[l] /\ lotOf[l] # None /\ left'[l] < left[l])
         => balance'[lotAt[l]] < balance[lotAt[l]]]_vars
=================================================================================
