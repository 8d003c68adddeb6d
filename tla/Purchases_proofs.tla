---------------------------- MODULE Purchases_proofs ----------------------------
(* What TLAPS proves about Purchases, for any invoices, places, quantities,       *)
(* costs and bounds.  Sums are needed for LotsWithinStock only: whatever is taken *)
(* of the lots, it is taken in order and within what is left.                    *)
EXTENDS Purchases, Sums

(* What else must be known of a lot: no id beyond the last one given is in use,   *)
(* and what is not in use has no consumptions.                                   *)
LotsInUse ==
  \A l \in LotIds :
    /\ lotOf[l] # None => l <= lastLot
    /\ lotOf[l] = None => used[l] = 0

(* ... and of an invoice: before it is saved nothing names it, and only a cost    *)
(* reference has no goods.                                                       *)
InUse(p) ==
  /\ invoice[p].st = "NONE" => brought[p] = Nothing /\ missing[p] = Nothing
  /\ Saved(p) /\ ~invoice[p].stocked => IsReference(p)

InvoicesInUse == \A p \in Purchases : InUse(p)

(* What the movements of an invoice say of its line.                              *)
LineOf(p) ==
  [k \in Places |-> (IF k = invoice[p].at THEN invoice[p].qty ELSE 0) - missing[p][k]]
Received(p) == Saved(p) /\ invoice[p].stocked => brought[p] = LineOf(p)

IInv ==
  /\ TypeOK /\ LotsInUse /\ InvoicesInUse
  /\ OldestFirst /\ ReceivedAsInvoiced /\ PaidWithinTotal

-----------------------------------------------------------------------------
(* What is taken is taken within the stock and in the order of the lots.         *)
LEMMA TakenOf ==
  ASSUME NEW stock, NEW q \in Nat, NEW t \in Taken(stock, q)
  PROVE  /\ t \in [LotIds -> Nat]
         /\ \A l \in LotIds : t[l] <= stock[l]
         /\ \A i, j \in LotIds : (i < j /\ t[j] > 0) => t[i] = stock[i]
  BY DEF Taken

LEMMA RemainingOf ==
  ASSUME TypeOK, NEW k \in Places, NEW gone
  PROVE  \A l \in LotIds :
           /\ Remaining(k, gone)[l] \in Nat
           /\ Remaining(k, gone)[l] <= left[l]
           /\ (lotOf[l] # None /\ l \notin gone /\ lotAt[l] = k) => Remaining(k, gone)[l] = left[l]
           /\ ~(lotOf[l] # None /\ l \notin gone /\ lotAt[l] = k) => Remaining(k, gone)[l] = 0
  BY DEF Remaining, TypeOK

(* A movement of q out of place k while the lots of gone are voided: what it      *)
(* takes of each lot is at hand, and of two lots of a place the older is empty    *)
(* when the younger was touched, before or by it.                                *)
LEMMA OutOfLots ==
  ASSUME IInv, NEW k \in Places, NEW gone, NEW q \in Nat, NEW t \in Taken(Remaining(k, gone), q)
  PROVE  /\ t \in [LotIds -> Nat]
         /\ \A l \in LotIds : left[l] - t[l] \in Nat /\ used[l] + t[l] \in Nat
         /\ \A l \in LotIds : (lotOf[l] = None \/ l \in gone) => t[l] = 0
         /\ \A i, j \in LotIds :
              (/\ i < j /\ lotOf[i] # None /\ lotOf[j] # None /\ i \notin gone /\ j \notin gone
               /\ lotAt[i] = lotAt[j] /\ used[j] + t[j] > 0) => left[i] - t[i] = 0
<1> DEFINE stock == Remaining(k, gone)
<1>1. /\ t \in [LotIds -> Nat]
      /\ \A l \in LotIds : t[l] <= stock[l]
      /\ \A i, j \in LotIds : (i < j /\ t[j] > 0) => t[i] = stock[i]
  BY TakenOf
<1>2. \A l \in LotIds :
        /\ stock[l] \in Nat /\ stock[l] <= left[l]
        /\ (lotOf[l] # None /\ l \notin gone /\ lotAt[l] = k) => stock[l] = left[l]
        /\ ~(lotOf[l] # None /\ l \notin gone /\ lotAt[l] = k) => stock[l] = 0
  BY RemainingOf DEF IInv
<1>3. \A l \in LotIds : left[l] \in Nat /\ used[l] \in Nat /\ l \in Int
  BY PurchaseAssumption DEF IInv, TypeOK, LotIds
<1> HIDE DEF stock
<1>4. \A l \in LotIds : t[l] \in Nat /\ left[l] - t[l] \in Nat /\ used[l] + t[l] \in Nat
  BY <1>1, <1>2, <1>3
<1>5. \A l \in LotIds : (lotOf[l] = None \/ l \in gone) => t[l] = 0
  BY <1>1, <1>2, <1>4
<1>6. ASSUME NEW i \in LotIds, NEW j \in LotIds, i < j, lotOf[i] # None, lotOf[j] # None,
             i \notin gone, j \notin gone, lotAt[i] = lotAt[j], used[j] + t[j] > 0
      PROVE  left[i] - t[i] = 0
  <2>1. CASE used[j] > 0
    <3>1. left[i] = 0
      BY <1>6, <2>1 DEF IInv, OldestFirst
    <3> QED
      BY <3>1, <1>4
  <2>2. CASE used[j] = 0
    <3>1. t[j] > 0
      BY <1>6, <2>2, <1>4
    <3>2. lotAt[j] = k
      BY <3>1, <1>1, <1>2, <1>4
    <3>3. t[i] = stock[i] /\ stock[i] = left[i]
      BY <3>1, <3>2, <1>6, <1>1, <1>2
    <3> QED
      BY <3>3, <1>3
  <2> QED
    BY <2>1, <2>2, <1>3
<1> QED
  BY <1>1, <1>4, <1>5, <1>6

-----------------------------------------------------------------------------
LEMMA Initially == Init => IInv
<1> SUFFICES ASSUME Init PROVE IInv
  OBVIOUS
<1> DEFINE here == CHOOSE k \in Places : TRUE
<1>1. here \in Places
  BY PurchaseAssumption
<1> HIDE DEF here
<1>2. Init => lotAt = [l \in LotIds |-> here]
  BY DEF Init, here
<1>3. NoInvoice("NONE") = [st |-> "NONE", at |-> here, qty |-> 0, amount |-> 0,
                           supplier |-> "supplier", stocked |-> FALSE]
  BY DEF NoInvoice, here
<1>4. NoInvoice("NONE") \in Invoices
  <2>1. "supplier" \in Suppliers
    BY DEF Suppliers
  <2>2. [st |-> "NONE", at |-> here, qty |-> 0, amount |-> 0, supplier |-> "supplier", stocked |-> FALSE]
          \in Invoices
    BY <1>1, <2>1 DEF Invoices
  <2> QED
    BY <1>3, <2>2
<1>5. TypeOK
  BY <1>1, <1>2, <1>4 DEF Init, TypeOK, Nothing
<1>6. LotsInUse /\ OldestFirst
  BY DEF Init, LotsInUse, OldestFirst
<1>7. \A p \in Purchases : invoice[p].st = "NONE" /\ invoice[p].amount = 0 /\ paid[p] = 0
                              /\ brought[p] = Nothing /\ missing[p] = Nothing
  BY <1>3 DEF Init
<1>8. InvoicesInUse /\ ReceivedAsInvoiced /\ PaidWithinTotal
  BY <1>7 DEF InvoicesInUse, InUse, ReceivedAsInvoiced, PaidWithinTotal, Saved
<1> QED
  BY <1>5, <1>6, <1>8 DEF IInv

-----------------------------------------------------------------------------
(* The parts of the invariant that a step leaves alone.                          *)
LEMMA InvoicesStay ==
  ASSUME InvoicesInUse, ReceivedAsInvoiced, PaidWithinTotal, UNCHANGED <<invoice, brought, paid, missing>>
  PROVE  InvoicesInUse' /\ ReceivedAsInvoiced' /\ PaidWithinTotal'
  BY DEF InvoicesInUse, InUse, ReceivedAsInvoiced, PaidWithinTotal, Saved, IsReference

LEMMA ReceivedOfAll ==
  /\ ReceivedAsInvoiced <=> \A p \in Purchases : Received(p)
  /\ ReceivedAsInvoiced' <=> \A p \in Purchases : Received(p)'
  BY DEF ReceivedAsInvoiced, Received, LineOf

LEMMA OthersStay ==
  ASSUME NEW p \in Purchases, IInv, InUse(p)', Received(p)',
         \A r \in Purchases \ {p} :
           invoice'[r] = invoice[r] /\ brought'[r] = brought[r] /\ missing'[r] = missing[r]
  PROVE  InvoicesInUse' /\ ReceivedAsInvoiced'
<1>1. \A r \in Purchases \ {p} : InUse(r)'
  BY DEF IInv, InvoicesInUse, InUse, Saved, IsReference
<1>2. ASSUME NEW r \in Purchases \ {p} PROVE Received(r)'
  <2>1. Received(r)
    BY ReceivedOfAll DEF IInv
  <2>2. LineOf(r)' = LineOf(r)
    BY DEF LineOf
  <2> QED
    BY <2>1, <2>2 DEF Received, Saved
<1> QED
  BY <1>1, <1>2, ReceivedOfAll DEF InvoicesInUse

LEMMA LotsStay ==
  ASSUME LotsInUse, OldestFirst, UNCHANGED lots
  PROVE  LotsInUse' /\ OldestFirst'
  BY DEF LotsInUse, OldestFirst, lots

(* A movement out by another module.                                             *)
LEMMA TakeOutKeeps ==
  ASSUME IInv, NEW k \in Places, NEW q \in Nat, TakeOut(k, q),
         k \notin SellingPlaces => balance[k] >= q,
         overdrawn' \subseteq Places
  PROVE  IInv'
<1>1. PICK t \in Taken(Remaining(k, {}), q) :
        /\ left' = [l \in LotIds |-> left[l] - t[l]]
        /\ used' = [l \in LotIds |-> used[l] + t[l]]
  BY DEF TakeOut
<1>2. /\ balance' = [balance EXCEPT ![k] = @ - q]
      /\ UNCHANGED <<invoice, money, lotOf, lotAt, lastLot, brought, broken>>
  BY DEF TakeOut
<1>3. /\ \A l \in LotIds : left[l] - t[l] \in Nat /\ used[l] + t[l] \in Nat
      /\ \A l \in LotIds : lotOf[l] = None => t[l] = 0
      /\ \A i, j \in LotIds :
           (/\ i < j /\ lotOf[i] # None /\ lotOf[j] # None
            /\ lotAt[i] = lotAt[j] /\ used[j] + t[j] > 0) => left[i] - t[i] = 0
  <2>1. /\ \A l \in LotIds : left[l] - t[l] \in Nat /\ used[l] + t[l] \in Nat
        /\ \A l \in LotIds : (lotOf[l] = None \/ l \in {}) => t[l] = 0
        /\ \A i, j \in LotIds :
             (/\ i < j /\ lotOf[i] # None /\ lotOf[j] # None /\ i \notin {} /\ j \notin {}
              /\ lotAt[i] = lotAt[j] /\ used[j] + t[j] > 0) => left[i] - t[i] = 0
    BY OutOfLots
  <2> QED
    BY <2>1
<1>4. TypeOK'
  <2>1. left' \in [LotIds -> Nat] /\ used' \in [LotIds -> Nat]
    BY <1>1, <1>3
  <2>2. balance' \in [Places -> Int] /\ \A i \in Places \ SellingPlaces : balance'[i] >= 0
    BY <1>2 DEF IInv, TypeOK
  <2> QED
    BY <1>2, <2>1, <2>2 DEF IInv, TypeOK, money, broken
<1>5. LotsInUse'
  BY <1>1, <1>2, <1>3 DEF IInv, LotsInUse
<1>6. OldestFirst'
  BY <1>1, <1>2, <1>3 DEF OldestFirst
<1>7. InvoicesInUse' /\ ReceivedAsInvoiced' /\ PaidWithinTotal'
  BY <1>2, InvoicesStay DEF IInv, money, broken
<1> QED
  BY <1>4, <1>5, <1>6, <1>7 DEF IInv

LEMMA ReceiveKeeps ==
  ASSUME IInv, NEW k \in Places, NEW q \in Nat, Receive(k, q)
  PROVE  IInv'
<1>1. TypeOK'
  BY DEF Receive, IInv, TypeOK, money, lots, broken
<1>2. LotsInUse' /\ OldestFirst'
  BY LotsStay DEF Receive, IInv
<1>3. InvoicesInUse' /\ ReceivedAsInvoiced' /\ PaidWithinTotal'
  BY InvoicesStay DEF Receive, IInv, money, broken
<1> QED
  BY <1>1, <1>2, <1>3 DEF IInv

-----------------------------------------------------------------------------
LEMMA RoomForLot == IInv /\ Room => NewLot \in LotIds
  BY PurchaseAssumption DEF IInv, TypeOK, Room, NewLot, LotIds

(* A new lot with its goods: it is the youngest and untouched.                   *)
LEMMA NewLotKeeps ==
  ASSUME IInv, NEW p \in Purchases, NewLot \in LotIds,
         lotOf' = [lotOf EXCEPT ![NewLot] = p],
         lotAt' \in [LotIds -> Places],
         \A l \in LotIds \ {NewLot} : lotAt'[l] = lotAt[l] /\ left'[l] = left[l],
         lastLot' = NewLot, UNCHANGED used
  PROVE  LotsInUse' /\ OldestFirst'
<1>1. NewLot = lastLot + 1 /\ lastLot \in Nat /\ \A l \in LotIds : l \in Int
  BY PurchaseAssumption DEF NewLot, IInv, TypeOK, LotIds
<1>2. lotOf[NewLot] = None /\ used[NewLot] = 0
  BY <1>1 DEF IInv, LotsInUse
<1>3. LotsInUse'
  BY <1>1, <1>2, PurchaseAssumption DEF IInv, LotsInUse, TypeOK
<1>4. OldestFirst'
  <2> SUFFICES ASSUME NEW i \in LotIds, NEW j \in LotIds, i < j, lotOf'[i] # None, lotOf'[j] # None,
                      lotAt'[i] = lotAt'[j], used'[j] > 0
               PROVE  left'[i] = 0
    BY DEF OldestFirst
  <2>1. j # NewLot
    BY <1>2
  <2>2. lotOf[j] # None /\ j <= lastLot
    BY <2>1 DEF IInv, LotsInUse, TypeOK
  <2>3. i # NewLot
    BY <1>1, <2>2
  <2>4. lotOf[i] # None
    BY <2>3 DEF IInv, TypeOK
  <2> QED
    BY <2>1, <2>2, <2>3, <2>4 DEF IInv, OldestFirst
<1> QED
  BY <1>3, <1>4

LEMMA RecordPurchaseKeeps ==
  ASSUME IInv, NEW p \in Purchases, NEW k \in Places, NEW q \in Nat, NEW a \in Nat,
         NEW s \in Suppliers, NEW pay \in Nat, RecordPurchase(p, k, q, a, s, pay)
  PROVE  IInv'
<1> DEFINE inv == SavedInvoice(k, q, a, s, TRUE)
<1>1. /\ inv \in Invoices /\ inv.st = "SAVED" /\ inv.at = k /\ inv.qty = q
      /\ inv.amount = a /\ inv.supplier = s /\ inv.stocked = TRUE
  BY DEF SavedInvoice, Invoices
<1>2. invoice' = [invoice EXCEPT ![p] = inv]
  BY DEF RecordPurchase
<1> HIDE DEF inv
<1>3. TypeOK'
  <2>1. /\ invoice' \in [Purchases -> Invoices] /\ paid' \in [Purchases -> Nat]
        /\ payments' \in [Purchases -> Nat]
    <3>1. invoice' \in [Purchases -> Invoices]
      BY <1>1, <1>2 DEF IInv, TypeOK
    <3>2. paid' \in [Purchases -> Nat]
      BY DEF RecordPurchase, IInv, TypeOK
    <3>3. payments' \in [Purchases -> Nat]
      BY DEF RecordPurchase, IInv, TypeOK
    <3> QED
      BY <3>1, <3>2, <3>3
  <2>2. /\ lotOf' \in [LotIds -> Purchases \cup {None}] /\ lotAt' \in [LotIds -> Places]
        /\ left' \in [LotIds -> Nat] /\ used' \in [LotIds -> Nat] /\ lastLot' \in Nat
    <3>1. NewLot \in LotIds /\ NewLot \in Nat
      BY RoomForLot DEF RecordPurchase, NewLot, IInv, TypeOK
    <3>2. lotOf' \in [LotIds -> Purchases \cup {None}] /\ lotAt' \in [LotIds -> Places]
      BY <3>1 DEF RecordPurchase, IInv, TypeOK
    <3> QED
      BY <3>1, <3>2 DEF RecordPurchase, IInv, TypeOK
  <2>3. /\ balance' \in [Places -> Int] /\ \A i \in Places \ SellingPlaces : balance'[i] >= 0
        /\ brought' \in [Purchases -> [Places -> Int]]
    BY DEF RecordPurchase, IInv, TypeOK
  <2>4. overdrawn' \subseteq Places /\ missing' \in [Purchases -> [Places -> Nat]] /\ breaks' \in Nat
    BY DEF RecordPurchase, IInv, TypeOK, broken
  <2> QED
    BY <2>1, <2>2, <2>3, <2>4 DEF TypeOK
<1>4. LotsInUse' /\ OldestFirst'
  <2>1. lotAt' \in [LotIds -> Places]
    BY <1>3 DEF TypeOK
  <2>2. /\ NewLot \in LotIds /\ lotOf' = [lotOf EXCEPT ![NewLot] = p]
        /\ lastLot' = NewLot /\ UNCHANGED used
    BY RoomForLot DEF RecordPurchase
  <2>3. \A l \in LotIds \ {NewLot} : lotAt'[l] = lotAt[l] /\ left'[l] = left[l]
    BY DEF RecordPurchase, IInv, TypeOK
  <2> QED
    BY <2>1, <2>2, <2>3, NewLotKeeps
<1>5. brought[p] = Nothing /\ missing[p] = Nothing /\ missing' = missing
  BY DEF RecordPurchase, IInv, InvoicesInUse, InUse, broken
<1>6. brought'[p] = [i \in Places |-> (IF i = k THEN q ELSE 0) - missing'[p][i]]
  <2>1. brought'[p] = [Nothing EXCEPT ![k] = @ + q]
    BY <1>5 DEF RecordPurchase, IInv, TypeOK
  <2> QED
    BY <1>5, <2>1 DEF Nothing
<1>7. \A r \in Purchases \ {p} : invoice'[r] = invoice[r] /\ brought'[r] = brought[r] /\ paid'[r] = paid[r]
                               /\ missing'[r] = missing[r]
  BY <1>2, <1>5 DEF RecordPurchase, IInv, TypeOK
<1>8. invoice'[p] = inv /\ paid'[p] = pay /\ pay <= a
  BY <1>2 DEF RecordPurchase, IInv, TypeOK
<1>9. InvoicesInUse' /\ ReceivedAsInvoiced' /\ PaidWithinTotal'
  BY <1>1, <1>6, <1>7, <1>8 DEF IInv, InvoicesInUse, InUse, ReceivedAsInvoiced, PaidWithinTotal, Saved, IsReference
<1> QED
  BY <1>3, <1>4, <1>9 DEF IInv

LEMMA RecordReferenceKeeps ==
  ASSUME IInv, NEW p \in Purchases, NEW k \in Places, NEW a \in Nat, RecordReference(p, k, a)
  PROVE  IInv'
<1> DEFINE inv == SavedInvoice(k, 1, a, COST_REFERENCE_SUPPLIER, FALSE)
<1>1. /\ inv \in Invoices /\ inv.st = "SAVED" /\ inv.supplier = COST_REFERENCE_SUPPLIER
      /\ inv.stocked = FALSE
  <2>1. COST_REFERENCE_SUPPLIER \in Suppliers
    BY DEF Suppliers
  <2> QED
    BY <2>1 DEF SavedInvoice, Invoices
<1>2. invoice' = [invoice EXCEPT ![p] = inv]
  BY DEF RecordReference
<1> HIDE DEF inv
<1>3. TypeOK'
  <2>1. invoice' \in [Purchases -> Invoices]
    BY <1>1, <1>2 DEF IInv, TypeOK
  <2>2. /\ lotOf' \in [LotIds -> Purchases \cup {None}] /\ lotAt' \in [LotIds -> Places]
        /\ lastLot' \in Nat
    <3>1. NewLot \in LotIds /\ NewLot \in Nat
      BY RoomForLot DEF RecordReference, NewLot, IInv, TypeOK
    <3> QED
      BY <3>1 DEF RecordReference, IInv, TypeOK
  <2> QED
    BY <2>1, <2>2 DEF RecordReference, IInv, TypeOK, money, broken
<1>4. LotsInUse' /\ OldestFirst'
  <2>1. lotAt' \in [LotIds -> Places]
    BY <1>3 DEF TypeOK
  <2>2. /\ NewLot \in LotIds /\ lotOf' = [lotOf EXCEPT ![NewLot] = p]
        /\ lastLot' = NewLot /\ UNCHANGED used
    BY RoomForLot DEF RecordReference
  <2>3. \A l \in LotIds \ {NewLot} : lotAt'[l] = lotAt[l] /\ left'[l] = left[l]
    BY DEF RecordReference, IInv, TypeOK
  <2> QED
    BY <2>1, <2>2, <2>3, NewLotKeeps
<1>5. \A r \in Purchases \ {p} : invoice'[r] = invoice[r]
  BY <1>2 DEF IInv, TypeOK
<1>6. invoice'[p] = inv /\ brought' = brought /\ paid' = paid /\ missing' = missing
  BY <1>2 DEF RecordReference, IInv, TypeOK, money, broken
<1>7. InvoicesInUse' /\ ReceivedAsInvoiced' /\ PaidWithinTotal'
  BY <1>1, <1>5, <1>6 DEF IInv, InvoicesInUse, InUse, ReceivedAsInvoiced, PaidWithinTotal, Saved, IsReference
<1> QED
  BY <1>3, <1>4, <1>7 DEF IInv

LEMMA EditReferenceKeeps ==
  ASSUME IInv, NEW p \in Purchases, NEW a \in Nat, EditReference(p, a)
  PROVE  IInv'
<1>1. invoice[p] \in Invoices /\ invoice' = [invoice EXCEPT ![p].amount = a]
  BY DEF EditReference, IInv, TypeOK
<1>2. /\ invoice'[p] \in Invoices
      /\ invoice'[p].st = invoice[p].st /\ invoice'[p].at = invoice[p].at /\ invoice'[p].qty = invoice[p].qty
      /\ invoice'[p].supplier = invoice[p].supplier /\ invoice'[p].stocked = invoice[p].stocked
  BY <1>1 DEF IInv, TypeOK, Invoices
<1>3. \A r \in Purchases \ {p} : invoice'[r] = invoice[r]
  BY <1>1 DEF IInv, TypeOK
<1>4. TypeOK'
  <2>1. invoice' \in [Purchases -> Invoices]
    BY <1>1, <1>2, <1>3 DEF IInv, TypeOK
  <2> QED
    BY <2>1 DEF EditReference, IInv, TypeOK, money, lots, broken
<1>5. LotsInUse' /\ OldestFirst'
  BY LotsStay DEF EditReference, IInv
<1>6. IsReference(p) /\ paid' = paid /\ brought' = brought /\ missing' = missing
  BY DEF EditReference, money, broken
<1>7. InvoicesInUse' /\ ReceivedAsInvoiced' /\ PaidWithinTotal'
  BY <1>2, <1>3, <1>6 DEF IInv, InvoicesInUse, InUse, ReceivedAsInvoiced, PaidWithinTotal, Saved, IsReference
<1> QED
  BY <1>4, <1>5, <1>7 DEF IInv

LEMMA RecordPaymentKeeps ==
  ASSUME IInv, NEW p \in Purchases, NEW a \in 1 .. Outstanding(p), RecordPayment(p, a)
  PROVE  IInv'
<1>1. invoice[p].amount \in Nat /\ paid[p] \in Nat /\ payments[p] \in Nat
  BY DEF IInv, TypeOK, Invoices
<1>2. ~IsReference(p) /\ a \in Nat /\ paid[p] + a <= invoice[p].amount
  BY <1>1 DEF Outstanding
<1>3. /\ paid' = [paid EXCEPT ![p] = @ + a] /\ payments' = [payments EXCEPT ![p] = @ + 1]
      /\ UNCHANGED <<invoice, lots, balance, brought, overdrawn, broken>>
  BY DEF RecordPayment
<1>4. TypeOK'
  BY <1>1, <1>2, <1>3 DEF IInv, TypeOK, lots, broken
<1>5. LotsInUse' /\ OldestFirst'
  BY <1>3, LotsStay DEF IInv
<1>6. InvoicesInUse' /\ ReceivedAsInvoiced'
  BY <1>3 DEF IInv, InvoicesInUse, InUse, ReceivedAsInvoiced, Saved, IsReference, broken
<1>7. PaidWithinTotal'
  BY <1>2, <1>3 DEF IInv, TypeOK, PaidWithinTotal, IsReference
<1> QED
  BY <1>4, <1>5, <1>6, <1>7 DEF IInv

-----------------------------------------------------------------------------
(* An invoice is edited: its goods are taken out where they were brought in, and  *)
(* brought in anew.                                                              *)
LEMMA MovedOf ==
  ASSUME IInv, NEW p \in Purchases, NEW k \in Places, NEW q \in Nat, CanReverse(p), Saved(p), ~IsReference(p)
  PROVE  /\ Moved(p, k, q) = [i \in Places |-> (IF i = k THEN q ELSE 0) - missing[p][i]]
         /\ \A i \in Places : balance[i] + Moved(p, k, q)[i] - brought[p][i] \in Int
         /\ \A i \in Places \ SellingPlaces : balance[i] + Moved(p, k, q)[i] - brought[p][i] >= 0
<1>1. /\ brought[p] = [i \in Places |-> (IF i = invoice[p].at THEN invoice[p].qty ELSE 0) - missing[p][i]]
      /\ invoice[p].qty \in Nat /\ invoice[p].at \in Places
      /\ \A i \in Places : missing[p][i] \in Nat /\ brought[p][i] \in Int
  BY DEF IInv, InvoicesInUse, InUse, ReceivedAsInvoiced, TypeOK, Invoices
<1>2. \A i \in Places : Moved(p, k, q)[i] = (IF i = k THEN q ELSE 0) - missing[p][i]
  BY <1>1 DEF Moved
<1>3. Moved(p, k, q) = [i \in Places |-> (IF i = k THEN q ELSE 0) - missing[p][i]]
  BY <1>2 DEF Moved
<1>4. \A i \in Places : balance[i] + Moved(p, k, q)[i] - brought[p][i]
                         = balance[i] + (IF i = k THEN q ELSE 0)
                             - (IF i = invoice[p].at THEN invoice[p].qty ELSE 0)
  BY <1>1, <1>2 DEF IInv, TypeOK
<1> QED
  BY <1>1, <1>3, <1>4 DEF CanReverse, IInv, TypeOK

LEMMA EditLineKeeps ==
  ASSUME IInv, NEW p \in Purchases, NEW k \in Places, NEW q \in Nat, NEW a \in Nat,
         NEW s \in Suppliers, EditLine(p, k, q, a, s), breaks' \in Nat,
         paid' \in [Purchases -> Nat], paid'[p] <= a,
         \A r \in Purchases \ {p} : paid'[r] = paid[r]
  PROVE  IInv'
<1> DEFINE inv == SavedInvoice(k, q, a, s, TRUE)
           old == invoice[p].at
<1>1. /\ inv \in Invoices /\ inv.st = "SAVED" /\ inv.at = k /\ inv.qty = q
      /\ inv.amount = a /\ inv.supplier = s /\ inv.stocked = TRUE
  BY DEF SavedInvoice, Invoices
<1>2. /\ invoice' = [invoice EXCEPT ![p] = inv]
      /\ invoice'[p] = inv /\ \A r \in Purchases \ {p} : invoice'[r] = invoice[r]
  BY DEF EditLine, IInv, TypeOK
<1>3. Saved(p) /\ ~IsReference(p) /\ CanReverse(p) /\ NewLot \in LotIds
  BY RoomForLot DEF EditLine
<1>4. old \in Places /\ invoice[p].qty \in Nat /\ invoice[p].amount \in Nat
  BY DEF IInv, TypeOK, Invoices
<1> HIDE DEF inv, old
<1>5. /\ lotOf' = [i \in LotIds |-> IF i = NewLot THEN p ELSE IF i \in Lots(p) THEN None ELSE lotOf[i]]
      /\ lotAt' = [lotAt EXCEPT ![NewLot] = k]
      /\ lastLot' = NewLot
  BY DEF EditLine
<1>6. PICK t \in Taken(Remaining(old, Lots(p)), invoice[p].qty) :
        /\ left' = [i \in LotIds |-> IF i = NewLot THEN q ELSE IF i \in Lots(p) THEN 0 ELSE left[i] - t[i]]
        /\ used' = [i \in LotIds |-> IF i \in Lots(p) THEN 0 ELSE used[i] + t[i]]
  BY DEF EditLine, old
<1>7. /\ \A l \in LotIds : left[l] - t[l] \in Nat /\ used[l] + t[l] \in Nat
      /\ \A l \in LotIds : (lotOf[l] = None \/ l \in Lots(p)) => t[l] = 0
      /\ \A i, j \in LotIds :
           (/\ i < j /\ lotOf[i] # None /\ lotOf[j] # None /\ i \notin Lots(p) /\ j \notin Lots(p)
            /\ lotAt[i] = lotAt[j] /\ used[j] + t[j] > 0) => left[i] - t[i] = 0
  BY <1>4, OutOfLots
<1>8. /\ NewLot = lastLot + 1 /\ lastLot \in Nat /\ lotOf[NewLot] = None /\ used[NewLot] = 0
      /\ NewLot \notin Lots(p) /\ \A l \in LotIds : l \in Int
  BY <1>3, PurchaseAssumption DEF NewLot, IInv, TypeOK, LotsInUse, LotIds, Lots
<1>9. /\ brought' = [brought EXCEPT ![p] = Moved(p, k, q)]
      /\ balance' = [i \in Places |-> balance[i] + Moved(p, k, q)[i] - brought[p][i]]
      /\ UNCHANGED <<payments, overdrawn, missing>>
  BY DEF EditLine
<1>10. /\ Moved(p, k, q) = [i \in Places |-> (IF i = k THEN q ELSE 0) - missing[p][i]]
       /\ \A i \in Places : balance[i] + Moved(p, k, q)[i] - brought[p][i] \in Int
       /\ \A i \in Places \ SellingPlaces : balance[i] + Moved(p, k, q)[i] - brought[p][i] >= 0
  BY <1>3, MovedOf
<1>12. TypeOK'
  <2>1. invoice' \in [Purchases -> Invoices]
    BY <1>1, <1>2 DEF IInv, TypeOK
  <2>2. /\ lotOf' \in [LotIds -> Purchases \cup {None}] /\ lotAt' \in [LotIds -> Places]
        /\ lastLot' \in Nat
    <3>1. \A l \in LotIds : lotOf[l] \in Purchases \cup {None}
      BY DEF IInv, TypeOK
    <3>2. lotOf' \in [LotIds -> Purchases \cup {None}]
      BY <1>5, <3>1
    <3>3. lotAt' \in [LotIds -> Places]
      BY <1>5 DEF IInv, TypeOK
    <3> QED
      BY <1>5, <1>8, <3>2, <3>3
  <2>3. left' \in [LotIds -> Nat] /\ used' \in [LotIds -> Nat]
    BY <1>6, <1>7
  <2>4. /\ balance' \in [Places -> Int] /\ \A i \in Places \ SellingPlaces : balance'[i] >= 0
        /\ brought' \in [Purchases -> [Places -> Int]]
    BY <1>9, <1>10 DEF IInv, TypeOK
  <2> QED
    BY <1>9, <2>1, <2>2, <2>3, <2>4 DEF IInv, TypeOK
<1>13. LotsInUse'
  <2> SUFFICES ASSUME NEW l \in LotIds
               PROVE  (lotOf'[l] # None => l <= lastLot') /\ (lotOf'[l] = None => used'[l] = 0)
    BY DEF LotsInUse
  <2>1. CASE l = NewLot
    BY <2>1, <1>5, <1>8, PurchaseAssumption
  <2>2. CASE l # NewLot /\ l \in Lots(p)
    BY <2>2, <1>5, <1>6
  <2>3. CASE l # NewLot /\ l \notin Lots(p)
    BY <2>3, <1>5, <1>6, <1>7, <1>8 DEF IInv, LotsInUse
  <2> QED
    BY <2>1, <2>2, <2>3
<1>14. OldestFirst'
  <2> SUFFICES ASSUME NEW i \in LotIds, NEW j \in LotIds, i < j, lotOf'[i] # None, lotOf'[j] # None,
                      lotAt'[i] = lotAt'[j], used'[j] > 0
               PROVE  left'[i] = 0
    BY DEF OldestFirst
  <2>1. j \notin Lots(p) /\ used[j] + t[j] > 0
    BY <1>6
  <2>2. j # NewLot
    BY <2>1, <1>7, <1>8
  <2>3. lotOf[j] # None /\ j <= lastLot
    BY <2>1, <2>2, <1>5 DEF IInv, LotsInUse
  <2>4. i # NewLot
    BY <2>3, <1>8
  <2>5. i \notin Lots(p) /\ lotOf[i] # None
    BY <2>4, <1>5
  <2>6. lotAt[i] = lotAt[j]
    BY <2>2, <2>4, <1>5 DEF IInv, TypeOK
  <2>7. left[i] - t[i] = 0
    BY <2>1, <2>3, <2>5, <2>6, <1>7
  <2> QED
    BY <2>4, <2>5, <2>7, <1>6
<1>15. InvoicesInUse' /\ ReceivedAsInvoiced' /\ PaidWithinTotal'
  <2>1. brought'[p] = [i \in Places |-> (IF i = k THEN q ELSE 0) - missing[p][i]]
    BY <1>9, <1>10 DEF IInv, TypeOK
  <2>2. \A r \in Purchases \ {p} : brought'[r] = brought[r]
    BY <1>9 DEF IInv, TypeOK
  <2>3. missing' = missing
    BY <1>9
  <2>4. InUse(p)' /\ Received(p)'
    BY <1>1, <1>2, <2>1, <2>3 DEF InUse, Received, LineOf, Saved, IsReference
  <2>5. InvoicesInUse' /\ ReceivedAsInvoiced'
    BY <1>2, <2>2, <2>3, <2>4, OthersStay
  <2>6. PaidWithinTotal'
    BY <1>1, <1>2 DEF IInv, PaidWithinTotal, IsReference
  <2> QED
    BY <2>5, <2>6
<1> QED
  BY <1>12, <1>13, <1>14, <1>15 DEF IInv

LEMMA EditPurchaseKeeps ==
  ASSUME IInv, NEW p \in Purchases, NEW k \in Places, NEW q \in Nat, NEW a \in Nat,
         NEW s \in Suppliers, NEW credit \in BOOLEAN, EditPurchase(p, k, q, a, s, credit)
  PROVE  IInv'
<1>1. EditLine(p, k, q, a, s) /\ SyncPayment(p, a, credit) /\ breaks' = breaks
  BY DEF EditPurchase
<1>2. /\ paid' \in [Purchases -> Nat] /\ paid'[p] <= a
      /\ \A r \in Purchases \ {p} : paid'[r] = paid[r]
  <2>1. paid[p] <= a /\ (paid' = paid \/ paid' = [paid EXCEPT ![p] = a])
    BY <1>1 DEF SyncPayment
  <2>2. paid \in [Purchases -> Nat]
    BY DEF IInv, TypeOK
  <2> QED
    BY <2>1, <2>2
<1>3. breaks' \in Nat
  BY <1>1 DEF IInv, TypeOK
<1> QED
  BY <1>1, <1>2, <1>3, EditLineKeeps

LEMMA BreakOffEditKeeps ==
  ASSUME IInv, NEW p \in Purchases, NEW k \in Places, NEW q \in Nat, NEW s \in Suppliers,
         BreakOffEdit(p, k, q, s)
  PROVE  IInv'
<1> DEFINE a == invoice[p].amount
<1>1. a \in Nat
  BY DEF IInv, TypeOK, Invoices
<1>2. EditLine(p, k, q, a, s) /\ paid' = paid /\ breaks' \in Nat
  BY DEF BreakOffEdit, IInv, TypeOK
<1>3. ~IsReference(p)
  BY <1>2 DEF EditLine
<1>4. paid' \in [Purchases -> Nat] /\ paid'[p] <= a
  BY <1>2, <1>3 DEF IInv, TypeOK, PaidWithinTotal
<1> HIDE DEF a
<1> QED
  BY <1>1, <1>2, <1>4, EditLineKeeps

-----------------------------------------------------------------------------
(* The goods of an invoice are taken out and no more is written: nothing of the   *)
(* lots or balances breaks.                                                      *)
LEMMA TakeBackKeeps ==
  ASSUME IInv, NEW p \in Purchases, TakeBack(p)
  PROVE  /\ LotsInUse' /\ OldestFirst'
         /\ left' \in [LotIds -> Nat] /\ used' \in [LotIds -> Nat]
         /\ balance' \in [Places -> Int] /\ \A i \in Places \ SellingPlaces : balance'[i] >= 0
         /\ breaks' \in Nat
<1> DEFINE old == invoice[p].at
<1>1. old \in Places /\ invoice[p].qty \in Nat
  BY DEF IInv, TypeOK, Invoices
<1>2. PICK t \in Taken(Remaining(old, Lots(p)), invoice[p].qty) :
        /\ left' = [i \in LotIds |-> IF i \in Lots(p) THEN 0 ELSE left[i] - t[i]]
        /\ used' = [i \in LotIds |-> used[i] + t[i]]
  BY DEF TakeBack
<1>3. /\ UNCHANGED <<lotOf, lotAt, lastLot>>
      /\ balance' = [balance EXCEPT ![old] = @ - invoice[p].qty]
      /\ balance[old] >= invoice[p].qty /\ breaks' = breaks + 1
  BY DEF TakeBack, CanReverse
<1> HIDE DEF old
<1>4. /\ \A l \in LotIds : left[l] - t[l] \in Nat /\ used[l] + t[l] \in Nat
      /\ \A l \in LotIds : (lotOf[l] = None \/ l \in Lots(p)) => t[l] = 0
      /\ \A i, j \in LotIds :
           (/\ i < j /\ lotOf[i] # None /\ lotOf[j] # None /\ i \notin Lots(p) /\ j \notin Lots(p)
            /\ lotAt[i] = lotAt[j] /\ used[j] + t[j] > 0) => left[i] - t[i] = 0
  BY <1>1, OutOfLots
<1>5. LotsInUse'
  BY <1>2, <1>3, <1>4 DEF IInv, TypeOK, LotsInUse
<1>6. OldestFirst'
  <2> SUFFICES ASSUME NEW i \in LotIds, NEW j \in LotIds, i < j, lotOf[i] # None, lotOf[j] # None,
                      lotAt[i] = lotAt[j], used'[j] > 0
               PROVE  left'[i] = 0
    BY <1>3 DEF OldestFirst
  <2>1. CASE i \in Lots(p)
    BY <2>1, <1>2
  <2>2. CASE i \notin Lots(p) /\ j \notin Lots(p)
    <3>1. used[j] + t[j] > 0
      BY <1>2
    <3> QED
      BY <2>2, <3>1, <1>2, <1>4
  <2>3. CASE i \notin Lots(p) /\ j \in Lots(p)
    <3>1. used[j] > 0
      BY <2>3, <1>2, <1>4 DEF IInv, TypeOK
    <3>2. left[i] = 0
      BY <3>1 DEF IInv, OldestFirst
    <3>3. left[i] - t[i] \in Nat /\ t[i] \in Nat
      BY <1>4, <1>1, TakenOf
    <3> QED
      BY <2>3, <3>2, <3>3, <1>2
  <2> QED
    BY <2>1, <2>2, <2>3
<1>7. left' \in [LotIds -> Nat] /\ used' \in [LotIds -> Nat]
  BY <1>2, <1>4
<1>8. /\ balance' \in [Places -> Int] /\ \A i \in Places \ SellingPlaces : balance'[i] >= 0
      /\ breaks' \in Nat
  BY <1>1, <1>3 DEF IInv, TypeOK
<1> QED
  BY <1>5, <1>6, <1>7, <1>8

LEMMA BreakOffReversalKeeps ==
  ASSUME IInv, NEW p \in Purchases, NEW k \in Places, NEW s \in Suppliers, BreakOffReversal(p, k, s)
  PROVE  IInv'
<1> DEFINE old == invoice[p].at
           n == invoice[p].qty
<1>1. /\ TakeBack(p)
      /\ brought' = [brought EXCEPT ![p][old] = @ - n]
      /\ missing' = [missing EXCEPT ![p][k] = @ + n]
      /\ invoice' = [invoice EXCEPT ![p].at = k, ![p].supplier = s]
  BY DEF BreakOffReversal
<1>2. old \in Places /\ n \in Nat
  BY DEF IInv, TypeOK, Invoices
<1>3. /\ Saved(p) /\ ~IsReference(p)
      /\ UNCHANGED <<paid, payments, lotOf, lotAt, lastLot, overdrawn>>
  BY <1>1 DEF TakeBack, money
<1>4. /\ invoice' \in [Purchases -> Invoices]
      /\ invoice'[p].st = "SAVED" /\ invoice'[p].at = k /\ invoice'[p].qty = n
      /\ invoice'[p].amount = invoice[p].amount /\ invoice'[p].stocked = invoice[p].stocked
      /\ \A r \in Purchases \ {p} : invoice'[r] = invoice[r]
  <2>1. invoice \in [Purchases -> Invoices] /\ invoice[p] \in Invoices
    BY DEF IInv, TypeOK
  <2>2. [invoice[p] EXCEPT !.at = k, !.supplier = s] \in Invoices
    BY <2>1 DEF Invoices
  <2>3. invoice' = [invoice EXCEPT ![p] = [invoice[p] EXCEPT !.at = k, !.supplier = s]]
    BY <1>1, <2>1 DEF Invoices
  <2>4. /\ invoice' \in [Purchases -> Invoices]
        /\ invoice'[p] = [invoice[p] EXCEPT !.at = k, !.supplier = s]
        /\ \A r \in Purchases \ {p} : invoice'[r] = invoice[r]
    BY <2>1, <2>2, <2>3
  <2>5. invoice[p].st = "SAVED"
    BY <1>3 DEF Saved
  <2> QED
    BY <2>1, <2>4, <2>5 DEF Invoices
<1> HIDE DEF old, n
<1>5. /\ brought' \in [Purchases -> [Places -> Int]] /\ missing' \in [Purchases -> [Places -> Nat]]
      /\ \A r \in Purchases \ {p} : brought'[r] = brought[r] /\ missing'[r] = missing[r]
      /\ brought'[p] = [brought[p] EXCEPT ![old] = @ - n]
      /\ missing'[p] = [missing[p] EXCEPT ![k] = @ + n]
  BY <1>1, <1>2 DEF IInv, TypeOK
<1>6. TypeOK'
  BY <1>1, <1>3, <1>4, <1>5, TakeBackKeeps DEF IInv, TypeOK
<1>7. LotsInUse' /\ OldestFirst'
  BY <1>1, TakeBackKeeps
<1>8. invoice[p].stocked
  BY <1>3 DEF IInv, InvoicesInUse, InUse, TypeOK, Invoices
<1>9. brought'[p] = [i \in Places |-> (IF i = k THEN n ELSE 0) - missing'[p][i]]
  <2>1. brought[p] = [i \in Places |-> (IF i = old THEN n ELSE 0) - missing[p][i]]
    BY <1>3, <1>8 DEF IInv, ReceivedAsInvoiced, old, n
  <2>2. brought[p] \in [Places -> Int] /\ missing[p] \in [Places -> Nat]
    BY DEF IInv, TypeOK
  <2>3. \A i \in Places : brought'[p][i] = (IF i = k THEN n ELSE 0) - missing'[p][i]
    BY <1>2, <1>5, <2>1, <2>2
  <2>4. brought'[p] \in [Places -> Int]
    BY <1>5
  <2> QED
    BY <2>3, <2>4
<1>10. InUse(p)' /\ Received(p)'
  BY <1>4, <1>8, <1>9 DEF InUse, Received, LineOf, Saved, IsReference
<1>11. InvoicesInUse' /\ ReceivedAsInvoiced'
  BY <1>4, <1>5, <1>10, OthersStay
<1>12. PaidWithinTotal'
  BY <1>3, <1>4 DEF IInv, PaidWithinTotal, IsReference
<1> QED
  BY <1>6, <1>7, <1>11, <1>12 DEF IInv

LEMMA BreakOffDeleteKeeps ==
  ASSUME IInv, NEW p \in Purchases, BreakOffDelete(p)
  PROVE  IInv'
<1>1. TakeBack(p) /\ UNCHANGED <<invoice, brought, missing>>
  BY DEF BreakOffDelete
<1>2. UNCHANGED <<paid, payments, lotOf, lotAt, lastLot, overdrawn>>
  BY <1>1 DEF TakeBack, money
<1>3. TypeOK'
  BY <1>1, <1>2, TakeBackKeeps DEF IInv, TypeOK
<1> QED
  BY <1>1, <1>2, <1>3, TakeBackKeeps, InvoicesStay DEF IInv

-----------------------------------------------------------------------------
LEMMA DeletePurchaseKeeps ==
  ASSUME IInv, NEW p \in Purchases, DeletePurchase(p)
  PROVE  IInv'
<1> DEFINE q == IF IsReference(p) THEN 0 ELSE invoice[p].qty
           k == invoice[p].at
           none == NoInvoice("DELETED")
<1>1. q \in Nat /\ k \in Places
  BY DEF IInv, TypeOK, Invoices
<1>2. k \notin SellingPlaces => balance[k] >= q
  <2>1. CASE IsReference(p)
    BY <1>1, <2>1 DEF IInv, TypeOK
  <2>2. CASE ~IsReference(p)
    BY <2>2 DEF DeletePurchase, CanReverse
  <2> QED
    BY <2>1, <2>2
<1>3. none \in Invoices /\ none.st = "DELETED" /\ none.amount = 0
  <2> DEFINE here == CHOOSE i \in Places : TRUE
  <2>1. here \in Places
    BY PurchaseAssumption
  <2>2. none = [st |-> "DELETED", at |-> here, qty |-> 0, amount |-> 0,
                supplier |-> "supplier", stocked |-> FALSE]
    BY DEF NoInvoice
  <2> HIDE DEF here
  <2>3. "supplier" \in Suppliers
    BY DEF Suppliers
  <2>4. [st |-> "DELETED", at |-> here, qty |-> 0, amount |-> 0, supplier |-> "supplier", stocked |-> FALSE]
          \in Invoices
    BY <2>1, <2>3 DEF Invoices
  <2> HIDE DEF none
  <2> QED
    BY <2>2, <2>4
<1>4. PICK t \in Taken(Remaining(k, Lots(p)), q) :
        /\ left' = [i \in LotIds |-> IF i \in Lots(p) THEN 0 ELSE left[i] - t[i]]
        /\ used' = [i \in LotIds |-> IF i \in Lots(p) THEN 0 ELSE used[i] + t[i]]
  BY DEF DeletePurchase
<1>5. /\ lotOf' = [i \in LotIds |-> IF i \in Lots(p) THEN None ELSE lotOf[i]]
      /\ UNCHANGED <<lotAt, lastLot, overdrawn, breaks>>
  BY DEF DeletePurchase
<1>6. /\ balance' = [balance EXCEPT ![k] = @ - q]
      /\ invoice' = [invoice EXCEPT ![p] = none]
      /\ paid' = [paid EXCEPT ![p] = 0] /\ payments' = [payments EXCEPT ![p] = 0]
      /\ brought' = [brought EXCEPT ![p] = Nothing]
      /\ missing' = [missing EXCEPT ![p] = Nothing]
  BY DEF DeletePurchase
<1> HIDE DEF q, k, none
<1>7. /\ \A l \in LotIds : left[l] - t[l] \in Nat /\ used[l] + t[l] \in Nat
      /\ \A l \in LotIds : (lotOf[l] = None \/ l \in Lots(p)) => t[l] = 0
      /\ \A i, j \in LotIds :
           (/\ i < j /\ lotOf[i] # None /\ lotOf[j] # None /\ i \notin Lots(p) /\ j \notin Lots(p)
            /\ lotAt[i] = lotAt[j] /\ used[j] + t[j] > 0) => left[i] - t[i] = 0
  BY <1>1, OutOfLots
<1>8. TypeOK'
  <2>1. /\ invoice' \in [Purchases -> Invoices] /\ paid' \in [Purchases -> Nat]
        /\ payments' \in [Purchases -> Nat]
    BY <1>3, <1>6 DEF IInv, TypeOK
  <2>2. left' \in [LotIds -> Nat] /\ used' \in [LotIds -> Nat]
    BY <1>4, <1>7
  <2>3. lotOf' \in [LotIds -> Purchases \cup {None}]
    BY <1>5 DEF IInv, TypeOK
  <2>4. /\ balance' \in [Places -> Int] /\ \A i \in Places \ SellingPlaces : balance'[i] >= 0
        /\ brought' \in [Purchases -> [Places -> Int]]
    BY <1>1, <1>2, <1>6 DEF IInv, TypeOK, Nothing
  <2>5. missing' \in [Purchases -> [Places -> Nat]]
    BY <1>6 DEF IInv, TypeOK, Nothing
  <2> QED
    BY <1>5, <2>1, <2>2, <2>3, <2>4, <2>5 DEF IInv, TypeOK
<1>9. LotsInUse' /\ OldestFirst'
  <2>1. LotsInUse'
    BY <1>4, <1>5, <1>7 DEF IInv, LotsInUse
  <2> SUFFICES ASSUME NEW i \in LotIds, NEW j \in LotIds, i < j, lotOf'[i] # None, lotOf'[j] # None,
                      lotAt'[i] = lotAt'[j], used'[j] > 0
               PROVE  left'[i] = 0
    BY <2>1 DEF OldestFirst
  <2>2. i \notin Lots(p) /\ j \notin Lots(p) /\ lotOf[i] # None /\ lotOf[j] # None /\ lotAt[i] = lotAt[j]
    BY <1>5
  <2>3. used[j] + t[j] > 0
    BY <2>2, <1>4
  <2>4. left[i] - t[i] = 0
    BY <2>2, <2>3, <1>7
  <2> QED
    BY <2>2, <2>4, <1>4
<1>10. InvoicesInUse' /\ ReceivedAsInvoiced' /\ PaidWithinTotal'
  <2>1. invoice'[p] = none /\ paid'[p] = 0
    BY <1>6 DEF IInv, TypeOK
  <2>2. \A r \in Purchases \ {p} : invoice'[r] = invoice[r] /\ paid'[r] = paid[r] /\ brought'[r] = brought[r]
                                 /\ missing'[r] = missing[r]
    BY <1>6 DEF IInv, TypeOK
  <2> QED
    BY <1>3, <2>1, <2>2 DEF IInv, InvoicesInUse, InUse, ReceivedAsInvoiced, PaidWithinTotal, Saved, IsReference
<1> QED
  BY <1>8, <1>9, <1>10 DEF IInv

-----------------------------------------------------------------------------
LEMMA Inductive == IInv /\ [Next]_vars => IInv'
<1> SUFFICES ASSUME IInv, [Next]_vars PROVE IInv'
  OBVIOUS
<1>1. ASSUME NEW k \in Places, NEW q \in Quantities, Issue(k, q) \/ Sell(k, q) \/ Receive(k, q)
      PROVE  IInv'
  <2>1. q \in Nat
    BY PurchaseAssumption
  <2>2. CASE Issue(k, q)
    <3>1. TakeOut(k, q) /\ balance[k] >= q /\ overdrawn' \subseteq Places
      BY <2>2 DEF Issue, IInv, TypeOK
    <3> QED
      BY <2>1, <3>1, TakeOutKeeps
  <2>3. CASE Sell(k, q)
    <3>1. TakeOut(k, q) /\ k \in SellingPlaces /\ overdrawn' \subseteq Places
      BY <2>3 DEF Sell, IInv, TypeOK
    <3> QED
      BY <2>1, <3>1, TakeOutKeeps
  <2>4. CASE Receive(k, q)
    BY <2>1, <2>4, ReceiveKeeps
  <2> QED
    BY <1>1, <2>2, <2>3, <2>4
<1>2. ASSUME NEW p \in Purchases, NEW k \in Places, NEW c \in Costs, RecordReference(p, k, c)
      PROVE  IInv'
  BY <1>2, PurchaseAssumption, RecordReferenceKeeps
<1>3. ASSUME NEW p \in Purchases, NEW k \in Places, NEW c \in Costs, NEW q \in Quantities,
             NEW s \in Suppliers, NEW pay \in 0 .. q * c, RecordPurchase(p, k, q, q * c, s, pay)
      PROVE  IInv'
  <2>1. q \in Nat /\ c \in Nat
    BY PurchaseAssumption
  <2>2. q * c \in Nat /\ pay \in Nat
    BY <2>1
  <2> QED
    BY <1>3, <2>1, <2>2, RecordPurchaseKeeps
<1>4. ASSUME NEW p \in Purchases, NEW k \in Places, NEW c \in Costs, NEW q \in Quantities,
             NEW s \in Suppliers, NEW credit \in BOOLEAN, EditPurchase(p, k, q, q * c, s, credit)
      PROVE  IInv'
  <2>1. q \in Nat /\ c \in Nat
    BY PurchaseAssumption
  <2>2. q * c \in Nat
    BY <2>1
  <2> QED
    BY <1>4, <2>1, <2>2, EditPurchaseKeeps
<1>5. ASSUME NEW p \in Purchases, DeletePurchase(p)
      PROVE  IInv'
  BY <1>5, DeletePurchaseKeeps
<1>6. ASSUME NEW p \in Purchases, NEW c \in Costs, EditReference(p, invoice[p].qty * c)
      PROVE  IInv'
  <2>1. invoice[p].qty \in Nat /\ c \in Nat
    BY PurchaseAssumption DEF IInv, TypeOK, Invoices
  <2>2. invoice[p].qty * c \in Nat
    BY <2>1
  <2> QED
    BY <1>6, <2>2, EditReferenceKeeps
<1>7. ASSUME NEW p \in Purchases, NEW a \in 1 .. Outstanding(p), RecordPayment(p, a)
      PROVE  IInv'
  BY <1>7, RecordPaymentKeeps
<1>8. ASSUME NEW p \in Purchases,
             \/ BreakOffDelete(p)
             \/ \E k \in Places, s \in Suppliers :
                  BreakOffReversal(p, k, s) \/ \E q \in Quantities : BreakOffEdit(p, k, q, s)
      PROVE  IInv'
  <2>1. \A q \in Quantities : q \in Nat
    BY PurchaseAssumption
  <2>2. CASE BreakOffDelete(p)
    BY <2>2, BreakOffDeleteKeeps
  <2>3. ASSUME NEW k \in Places, NEW s \in Suppliers, BreakOffReversal(p, k, s) PROVE IInv'
    BY <2>3, BreakOffReversalKeeps
  <2>4. ASSUME NEW k \in Places, NEW s \in Suppliers, NEW q \in Quantities, BreakOffEdit(p, k, q, s)
        PROVE  IInv'
    BY <2>1, <2>4, BreakOffEditKeeps
  <2> QED
    BY <1>8, <2>2, <2>3, <2>4
<1>9. CASE UNCHANGED vars
  <2>1. TypeOK'
    BY <1>9 DEF vars, money, lots, broken, IInv, TypeOK
  <2>2. LotsInUse' /\ OldestFirst'
    BY <1>9, LotsStay DEF vars, IInv
  <2>3. InvoicesInUse' /\ ReceivedAsInvoiced' /\ PaidWithinTotal'
    BY <1>9, InvoicesStay DEF vars, money, broken, IInv
  <2> QED
    BY <2>1, <2>2, <2>3 DEF IInv
<1> QED
  BY <1>1, <1>2, <1>3, <1>4, <1>5, <1>6, <1>7, <1>8, <1>9 DEF Next

THEOREM Invariance == Spec => []IInv
<1> QED
  BY Initially, Inductive, PTL DEF Spec

-----------------------------------------------------------------------------
(* What the lots claim is in stock.  A lot not in use is empty, so one that is    *)
(* taken into use without goods, for a cost reference, claims none.               *)
EmptyUntilUsed == \A l \in LotIds : lotOf[l] = None => left[l] = 0

SInv == EmptyUntilUsed /\ LotsWithinStock

(* The goods in the lots of a place, without those gone.                          *)
Claimed(k, gone) == SumFunctionOnSet(Remaining(k, gone), LotIds)

(* What is left in the lots of i when t was taken of the lots of k.               *)
LeftAfter(i, k, gone, t) ==
  [l \in LotIds |-> Remaining(i, gone)[l] - (IF i = k THEN t[l] ELSE 0)]

LEMMA LotIdsFinite == IsFiniteSet(LotIds)
  BY FS_Interval, PurchaseAssumption DEF LotIds

LEMMA InLotsIsClaimed ==
  /\ \A k : InLots(k) = Claimed(k, {})
  /\ \A k : InLots(k)' = SumFunctionOnSet(Remaining(k, {})', LotIds)
  BY DEF InLots, Claimed, SumFunction, Remaining

(* Without some lots, the others claim no more.                                   *)
LEMMA ClaimedOf ==
  ASSUME IInv, NEW k \in Places, NEW gone
  PROVE  Claimed(k, gone) \in Nat /\ Claimed(k, gone) <= InLots(k)
<1> DEFINE f == Remaining(k, gone)
           g == Remaining(k, {})
<1>1. \A l \in LotIds : left[l] \in Nat
  BY DEF IInv, TypeOK
<1>2. (\A l \in LotIds : f[l] \in Nat) /\ (\A l \in LotIds : g[l] \in Nat)
      /\ \A l \in LotIds : f[l] <= g[l]
  BY <1>1 DEF Remaining
<1> HIDE DEF f, g
<1>3. SumFunctionOnSet(f, LotIds) \in Nat
  BY <1>2, LotIdsFinite, SumNat
<1>4. SumFunctionOnSet(f, LotIds) <= SumFunctionOnSet(g, LotIds)
  BY <1>2, LotIdsFinite, SumAtMost
<1> QED
  BY <1>3, <1>4, InLotsIsClaimed DEF Claimed, f, g

(* A movement of q out of place k, which has as much, while the lots of gone are  *)
(* voided: of every place, what is left in the lots is within what is left.       *)
LEMMA LeftWithinStock ==
  ASSUME IInv, NEW k \in Places, NEW gone, NEW q \in Nat, NEW t \in Taken(Remaining(k, gone), q),
         NEW i \in Places, InLots(i) <= balance[i], i = k => balance[k] >= q
  PROVE  /\ LeftAfter(i, k, gone, t) \in [LotIds -> Int]
         /\ SumFunctionOnSet(LeftAfter(i, k, gone, t), LotIds)
              <= balance[i] - (IF i = k THEN q ELSE 0)
<1> DEFINE f == Remaining(i, gone)
           h == LeftAfter(i, k, gone, t)
<1>1. balance[i] \in Int /\ Claimed(i, gone) \in Nat /\ Claimed(i, gone) <= balance[i]
  <2>1. balance[i] \in Int /\ InLots(i) \in Nat
    BY ClaimedOf, InLotsIsClaimed DEF IInv, TypeOK
  <2> QED
    BY <2>1, ClaimedOf
<1>2. f \in [LotIds -> Int] /\ t \in [LotIds -> Nat]
  BY TakenOf DEF Remaining, IInv, TypeOK
<1>3. h \in [LotIds -> Int]
  BY <1>2 DEF LeftAfter
<1>4. CASE i # k
  <2>1. h = f
    BY <1>2, <1>4 DEF LeftAfter
  <2> QED
    BY <1>1, <1>3, <1>4, <2>1 DEF Claimed
<1>5. CASE i = k
  <2>1. \A l \in LotIds : f[l] = h[l] + t[l]
    BY <1>2, <1>5 DEF LeftAfter
  <2>2. (\A l \in LotIds : h[l] \in Int) /\ (\A l \in LotIds : t[l] \in Int)
    BY <1>2, <1>3
  <2>3. SumFunctionOnSet(t, LotIds) = Least(q, Claimed(k, gone))
    <3>1. SumFunction(t) = Least(q, SumFunction(Remaining(k, gone)))
      BY DEF Taken
    <3>2. DOMAIN t = LotIds /\ DOMAIN Remaining(k, gone) = LotIds
      BY <1>2 DEF Remaining
    <3> QED
      BY <3>1, <3>2 DEF SumFunction, Claimed
  <2> HIDE DEF f, h
  <2>4. SumFunctionOnSet(f, LotIds) = SumFunctionOnSet(h, LotIds) + SumFunctionOnSet(t, LotIds)
    BY <2>1, <2>2, LotIdsFinite, SumPlus
  <2>5. SumFunctionOnSet(h, LotIds) \in Int
    BY <2>2, LotIdsFinite, SumInt
  <2>6. SumFunctionOnSet(f, LotIds) = Claimed(k, gone)
    BY <1>5 DEF Claimed, f
  <2>7. SumFunctionOnSet(h, LotIds) <= balance[i] - q
    BY <1>1, <1>5, <2>3, <2>4, <2>5, <2>6 DEF Least
  <2> QED
    BY <1>3, <1>5, <2>7 DEF h
<1> QED
  BY <1>4, <1>5

(* A movement out by another module.                                              *)
LEMMA TakeOutWithin ==
  ASSUME IInv, SInv, NEW k \in Places, NEW q \in Nat, TakeOut(k, q),
         overdrawn \subseteq overdrawn', k \notin overdrawn' => balance[k] >= q
  PROVE  SInv'
<1>1. PICK t \in Taken(Remaining(k, {}), q) : left' = [l \in LotIds |-> left[l] - t[l]]
  BY DEF TakeOut
<1>2. balance' = [balance EXCEPT ![k] = @ - q] /\ UNCHANGED <<lotOf, lotAt>>
  BY DEF TakeOut
<1>3. t \in [LotIds -> Nat] /\ \A l \in LotIds : t[l] <= Remaining(k, {})[l]
  BY TakenOf
<1>4. \A l \in LotIds : left[l] \in Nat /\ (~(lotOf[l] # None /\ lotAt[l] = k) => t[l] = 0)
  BY <1>3 DEF Remaining, IInv, TypeOK
<1>5. EmptyUntilUsed'
  BY <1>1, <1>2, <1>4 DEF SInv, EmptyUntilUsed
<1>6. ASSUME NEW i \in Places \ overdrawn' PROVE InLots(i)' <= balance'[i]
  <2>1. InLots(i) <= balance[i] /\ (i = k => balance[k] >= q)
    BY DEF SInv, LotsWithinStock
  <2>2. Remaining(i, {})' = LeftAfter(i, k, {}, t)
    BY <1>1, <1>2, <1>3, <1>4 DEF Remaining, LeftAfter
  <2>3. SumFunctionOnSet(LeftAfter(i, k, {}, t), LotIds) <= balance[i] - (IF i = k THEN q ELSE 0)
    BY <2>1, LeftWithinStock
  <2>4. balance'[i] = balance[i] - (IF i = k THEN q ELSE 0)
    BY <1>2 DEF IInv, TypeOK
  <2> QED
    BY <2>2, <2>3, <2>4, InLotsIsClaimed
<1> QED
  BY <1>5, <1>6 DEF SInv, LotsWithinStock

(* Goods come in with a new lot.                                                  *)
LEMMA RecordPurchaseWithin ==
  ASSUME IInv, IInv', SInv, NEW p \in Purchases, NEW k \in Places, NEW q \in Nat, NEW a, NEW s, NEW pay,
         RecordPurchase(p, k, q, a, s, pay)
  PROVE  SInv'
<1>1. /\ NewLot \in LotIds
      /\ lotOf' = [lotOf EXCEPT ![NewLot] = p] /\ lotAt' = [lotAt EXCEPT ![NewLot] = k]
      /\ left' = [left EXCEPT ![NewLot] = q]
      /\ balance' = [balance EXCEPT ![k] = @ + q] /\ overdrawn' = overdrawn
  BY RoomForLot DEF RecordPurchase
<1>2. lotOf[NewLot] = None /\ p # None
  BY <1>1, PurchaseAssumption DEF IInv, TypeOK, LotsInUse, NewLot, LotIds
<1>3. EmptyUntilUsed'
  BY <1>1, <1>2 DEF IInv, TypeOK, SInv, EmptyUntilUsed
<1>4. ASSUME NEW i \in Places \ overdrawn' PROVE InLots(i)' <= balance'[i]
  <2> DEFINE f == Remaining(i, {})
             g == Remaining(i, {})'
  <2>1. f \in [LotIds -> Int] /\ g \in [LotIds -> Int]
    BY DEF Remaining, IInv, TypeOK
  <2>2. /\ f[NewLot] = 0 /\ g[NewLot] = IF i = k THEN q ELSE 0
        /\ \A l \in LotIds \ {NewLot} : g[l] = f[l]
    BY <1>1, <1>2 DEF Remaining, IInv, TypeOK
  <2> HIDE DEF f, g
  <2>3. SumFunctionOnSet(g, LotIds) = SumFunctionOnSet(f, LotIds) - f[NewLot] + g[NewLot]
    BY <1>1, <2>1, <2>2, LotIdsFinite, SumAt
  <2>4. InLots(i) <= balance[i] /\ balance[i] \in Int /\ InLots(i) \in Int
    BY <1>1, ClaimedOf, InLotsIsClaimed DEF SInv, LotsWithinStock, IInv, TypeOK
  <2>5. balance'[i] = balance[i] + (IF i = k THEN q ELSE 0)
    BY <1>1 DEF IInv, TypeOK
  <2>6. InLots(i)' = SumFunctionOnSet(g, LotIds) /\ InLots(i) = SumFunctionOnSet(f, LotIds)
    BY InLotsIsClaimed DEF Claimed, f, g
  <2> QED
    BY <2>2, <2>3, <2>4, <2>5, <2>6
<1> QED
  BY <1>3, <1>4 DEF SInv, LotsWithinStock

(* The lot of a cost reference claims nothing.                                    *)
LEMMA RecordReferenceWithin ==
  ASSUME IInv, SInv, NEW p \in Purchases, NEW k \in Places, NEW a, RecordReference(p, k, a)
  PROVE  SInv'
<1>1. /\ NewLot \in LotIds
      /\ lotOf' = [lotOf EXCEPT ![NewLot] = p] /\ lotAt' = [lotAt EXCEPT ![NewLot] = k]
      /\ UNCHANGED <<left, balance, overdrawn>>
  BY RoomForLot DEF RecordReference
<1>2. lotOf[NewLot] = None /\ left[NewLot] = 0
  BY <1>1, PurchaseAssumption DEF IInv, TypeOK, LotsInUse, NewLot, LotIds, SInv, EmptyUntilUsed
<1>3. EmptyUntilUsed'
  BY <1>1, <1>2 DEF IInv, TypeOK, SInv, EmptyUntilUsed
<1>4. \A i \in Places : Remaining(i, {})' = Remaining(i, {})
  BY <1>1, <1>2 DEF Remaining, IInv, TypeOK
<1> QED
  BY <1>1, <1>3, <1>4, InLotsIsClaimed DEF SInv, LotsWithinStock, Claimed

(* An edit takes the old line out, without the lots of the invoice, and brings    *)
(* the new one in with a lot of its own.                                          *)
LEMMA EditLineWithin ==
  ASSUME IInv, IInv', SInv, NEW p \in Purchases, NEW k \in Places, NEW q \in Nat, NEW a, NEW s,
         EditLine(p, k, q, a, s)
  PROVE  SInv'
<1> DEFINE old == invoice[p].at
           n == invoice[p].qty
<1>1. old \in Places /\ n \in Nat /\ balance[old] >= n /\ Saved(p) /\ ~IsReference(p) /\ CanReverse(p)
  BY DEF EditLine, CanReverse, IInv, TypeOK, Invoices
<1>2. brought[p] \in [Places -> Int]
  BY DEF IInv, TypeOK
<1>3. PICK t \in Taken(Remaining(old, Lots(p)), n) :
        left' = [i \in LotIds |-> IF i = NewLot THEN q ELSE IF i \in Lots(p) THEN 0 ELSE left[i] - t[i]]
  BY DEF EditLine
<1>4. /\ NewLot \in LotIds /\ overdrawn' = overdrawn
      /\ lotOf' = [i \in LotIds |-> IF i = NewLot THEN p ELSE IF i \in Lots(p) THEN None ELSE lotOf[i]]
      /\ lotAt' = [lotAt EXCEPT ![NewLot] = k]
      /\ balance' = [i \in Places |-> balance[i] + Moved(p, k, q)[i] - brought[p][i]]
  BY RoomForLot DEF EditLine
<1> HIDE DEF old, n
<1>5. /\ lotOf[NewLot] = None /\ p # None /\ NewLot \notin Lots(p)
      /\ \A l \in LotIds : left[l] \in Nat
  <2>1. lastLot \in Nat /\ NewLot = lastLot + 1 /\ ~(NewLot <= lastLot)
    BY DEF IInv, TypeOK, NewLot, LotIds
  <2>2. lotOf[NewLot] = None
    BY <1>4, <2>1 DEF IInv, LotsInUse
  <2>3. p # None
    BY PurchaseAssumption
  <2>4. \A l \in LotIds : left[l] \in Nat
    BY DEF IInv, TypeOK
  <2> QED
    BY <2>2, <2>3, <2>4 DEF Lots
<1>6. t \in [LotIds -> Nat] /\ \A l \in LotIds : t[l] <= Remaining(old, Lots(p))[l]
  BY <1>1, TakenOf
<1>7. \A l \in LotIds : ~(lotOf[l] # None /\ l \notin Lots(p) /\ lotAt[l] = old) => t[l] = 0
  BY <1>6 DEF Remaining
<1>8. EmptyUntilUsed'
  BY <1>3, <1>4, <1>5, <1>7 DEF SInv, EmptyUntilUsed
<1>9. ASSUME NEW i \in Places \ overdrawn' PROVE InLots(i)' <= balance'[i]
  <2> DEFINE f == LeftAfter(i, old, Lots(p), t)
             g == Remaining(i, {})'
             in == IF i = k THEN q ELSE 0
             out == IF i = old THEN n ELSE 0
  <2>1. InLots(i) <= balance[i] /\ balance[i] \in Int /\ in \in Nat /\ out \in Nat
    BY <1>1, <1>4 DEF SInv, LotsWithinStock, IInv, TypeOK
  <2>2. f \in [LotIds -> Int] /\ SumFunctionOnSet(f, LotIds) <= balance[i] - out
    BY <1>1, <2>1, LeftWithinStock
  <2>3. g \in [LotIds -> Int]
    BY DEF Remaining, IInv, TypeOK
  <2>4. f[NewLot] = 0
    BY <1>4, <1>5, <1>7 DEF LeftAfter, Remaining
  <2>5. g[NewLot] = in
    BY <1>3, <1>4, <1>5 DEF Remaining, IInv, TypeOK
  <2>6. ASSUME NEW l \in LotIds \ {NewLot} PROVE g[l] = f[l]
    <3>1. lotOf'[l] = (IF l \in Lots(p) THEN None ELSE lotOf[l]) /\ lotAt'[l] = lotAt[l]
          /\ left'[l] = IF l \in Lots(p) THEN 0 ELSE left[l] - t[l]
      BY <1>3, <1>4 DEF IInv, TypeOK
    <3>2. g[l] = IF lotOf'[l] # None /\ lotAt'[l] = i THEN left'[l] ELSE 0
      BY DEF Remaining
    <3>3. f[l] = (IF lotOf[l] # None /\ l \notin Lots(p) /\ lotAt[l] = i THEN left[l] ELSE 0)
                   - (IF i = old THEN t[l] ELSE 0)
      BY DEF LeftAfter, Remaining
    <3> HIDE DEF f, g
    <3> QED
      BY <1>5, <1>6, <1>7, <3>1, <3>2, <3>3
  <2>7. balance'[i] = balance[i] - out + in
    <3>1. Moved(p, k, q)[i] = brought[p][i] - out + in
      BY DEF Moved, n, old
    <3>2. brought[p][i] \in Int
      BY <1>2
    <3>3. balance'[i] = balance[i] + Moved(p, k, q)[i] - brought[p][i]
      BY <1>4
    <3> HIDE DEF in, out
    <3> QED
      BY <2>1, <3>1, <3>2, <3>3
  <2> HIDE DEF f, g, in, out
  <2>8. SumFunctionOnSet(g, LotIds) = SumFunctionOnSet(f, LotIds) - f[NewLot] + g[NewLot]
    BY <1>4, <2>2, <2>3, <2>6, LotIdsFinite, SumAt
  <2>9. SumFunctionOnSet(f, LotIds) \in Int
    <3>1. \A l \in LotIds : f[l] \in Int
      BY <2>2
    <3> QED
      BY <3>1, LotIdsFinite, SumInt
  <2>10. InLots(i)' = SumFunctionOnSet(g, LotIds)
    BY InLotsIsClaimed DEF g
  <2> QED
    BY <2>1, <2>2, <2>4, <2>5, <2>7, <2>8, <2>9, <2>10
<1> QED
  BY <1>8, <1>9 DEF SInv, LotsWithinStock

LEMMA DeletePurchaseWithin ==
  ASSUME IInv, SInv, NEW p \in Purchases, DeletePurchase(p)
  PROVE  SInv'
<1> DEFINE q == IF IsReference(p) THEN 0 ELSE invoice[p].qty
           k == invoice[p].at
<1>1. k \in Places /\ q \in Nat
  BY DEF IInv, TypeOK, Invoices
<1>2. q = 0 \/ balance[k] >= q
  BY DEF DeletePurchase, CanReverse
<1>3. PICK t \in Taken(Remaining(k, Lots(p)), q) :
        left' = [i \in LotIds |-> IF i \in Lots(p) THEN 0 ELSE left[i] - t[i]]
  BY DEF DeletePurchase
<1>4. /\ lotOf' = [i \in LotIds |-> IF i \in Lots(p) THEN None ELSE lotOf[i]]
      /\ UNCHANGED <<lotAt, overdrawn>> /\ balance' = [balance EXCEPT ![k] = @ - q]
  BY DEF DeletePurchase
<1> HIDE DEF q, k
<1>5. t \in [LotIds -> Nat] /\ \A l \in LotIds : t[l] <= Remaining(k, Lots(p))[l]
  BY <1>1, TakenOf
<1>6. \A l \in LotIds : /\ left[l] \in Nat
                        /\ ~(lotOf[l] # None /\ l \notin Lots(p) /\ lotAt[l] = k) => t[l] = 0
  BY <1>5 DEF Remaining, IInv, TypeOK
<1>7. EmptyUntilUsed'
  BY <1>3, <1>4, <1>6 DEF SInv, EmptyUntilUsed
<1>8. ASSUME NEW i \in Places \ overdrawn' PROVE InLots(i)' <= balance'[i]
  <2>1. InLots(i) <= balance[i] /\ InLots(i) \in Nat /\ balance[i] \in Int
    BY <1>4, ClaimedOf, InLotsIsClaimed DEF SInv, LotsWithinStock, IInv, TypeOK
  <2>2. i = k => balance[k] >= q
    BY <1>2, <2>1
  <2>3. SumFunctionOnSet(LeftAfter(i, k, Lots(p), t), LotIds) <= balance[i] - (IF i = k THEN q ELSE 0)
    BY <1>1, <2>1, <2>2, LeftWithinStock
  <2>4. Remaining(i, {})' = LeftAfter(i, k, Lots(p), t)
    BY <1>3, <1>4, <1>5, <1>6 DEF Remaining, LeftAfter
  <2>5. balance'[i] = balance[i] - (IF i = k THEN q ELSE 0)
    BY <1>1, <1>4 DEF IInv, TypeOK
  <2> QED
    BY <2>3, <2>4, <2>5, InLotsIsClaimed
<1> QED
  BY <1>7, <1>8 DEF SInv, LotsWithinStock

LEMMA TakeBackWithin ==
  ASSUME IInv, SInv, NEW p \in Purchases, TakeBack(p)
  PROVE  SInv'
<1> DEFINE q == invoice[p].qty
           k == invoice[p].at
<1>1. k \in Places /\ q \in Nat
  BY DEF IInv, TypeOK, Invoices
<1>2. /\ balance[k] >= q /\ UNCHANGED <<lotOf, lotAt, overdrawn>>
      /\ balance' = [balance EXCEPT ![k] = @ - q]
  BY DEF TakeBack, CanReverse
<1>3. PICK t \in Taken(Remaining(k, Lots(p)), q) :
        left' = [i \in LotIds |-> IF i \in Lots(p) THEN 0 ELSE left[i] - t[i]]
  BY DEF TakeBack
<1> HIDE DEF q, k
<1>4. t \in [LotIds -> Nat] /\ \A l \in LotIds : t[l] <= Remaining(k, Lots(p))[l]
  BY <1>1, TakenOf
<1>5. \A l \in LotIds : /\ left[l] \in Nat
                        /\ ~(lotOf[l] # None /\ l \notin Lots(p) /\ lotAt[l] = k) => t[l] = 0
  BY <1>4 DEF Remaining, IInv, TypeOK
<1>6. EmptyUntilUsed'
  BY <1>2, <1>3, <1>5 DEF SInv, EmptyUntilUsed
<1>7. ASSUME NEW i \in Places \ overdrawn' PROVE InLots(i)' <= balance'[i]
  <2>1. InLots(i) <= balance[i] /\ (i = k => balance[k] >= q)
    BY <1>2 DEF SInv, LotsWithinStock
  <2>2. SumFunctionOnSet(LeftAfter(i, k, Lots(p), t), LotIds) <= balance[i] - (IF i = k THEN q ELSE 0)
    BY <1>1, <2>1, LeftWithinStock
  <2>3. Remaining(i, {})' = LeftAfter(i, k, Lots(p), t)
    BY <1>2, <1>3, <1>4, <1>5 DEF Remaining, LeftAfter
  <2>4. balance'[i] = balance[i] - (IF i = k THEN q ELSE 0)
    BY <1>1, <1>2 DEF IInv, TypeOK
  <2> QED
    BY <2>2, <2>3, <2>4, InLotsIsClaimed
<1> QED
  BY <1>6, <1>7 DEF SInv, LotsWithinStock

(* Goods that come in without a lot, and steps that move none.                    *)
LEMMA ReceiveWithin ==
  ASSUME IInv, SInv, NEW k \in Places, NEW q \in Nat, Receive(k, q)
  PROVE  SInv'
<1>1. UNCHANGED <<lotOf, lotAt, left, overdrawn>> /\ balance' = [balance EXCEPT ![k] = @ + q]
  BY DEF Receive, lots
<1>2. \A i \in Places : Remaining(i, {})' = Remaining(i, {})
  BY <1>1 DEF Remaining
<1>3. ASSUME NEW i \in Places \ overdrawn' PROVE InLots(i)' <= balance'[i]
  <2>1. InLots(i) <= balance[i] /\ InLots(i) \in Nat /\ balance[i] \in Int
    BY <1>1, ClaimedOf, InLotsIsClaimed DEF SInv, LotsWithinStock, IInv, TypeOK
  <2>2. balance'[i] >= balance[i] /\ balance'[i] \in Int
    BY <1>1, <2>1 DEF IInv, TypeOK
  <2>3. InLots(i)' = InLots(i)
    BY <1>2, InLotsIsClaimed DEF Claimed
  <2> QED
    BY <2>1, <2>2, <2>3
<1> QED
  BY <1>1, <1>3 DEF SInv, LotsWithinStock, EmptyUntilUsed

LEMMA StockStays ==
  ASSUME SInv, UNCHANGED <<lotOf, lotAt, left, balance, overdrawn>>
  PROVE  SInv'
<1>1. \A i \in Places : Remaining(i, {})' = Remaining(i, {})
  BY DEF Remaining
<1> QED
  BY <1>1, InLotsIsClaimed DEF SInv, LotsWithinStock, EmptyUntilUsed, Claimed

LEMMA StockInitially == Init => SInv
<1> SUFFICES ASSUME Init PROVE SInv
  OBVIOUS
<1>1. \A i \in Places, l \in LotIds : Remaining(i, {})[l] = 0
  BY DEF Init, Remaining
<1>2. \A i \in Places : InLots(i) = 0
  BY <1>1, LotIdsFinite, SumZero, InLotsIsClaimed DEF Claimed
<1> QED
  BY <1>2 DEF Init, Nothing, SInv, LotsWithinStock, EmptyUntilUsed

LEMMA StockInductive == IInv /\ IInv' /\ SInv /\ [Next]_vars => SInv'
<1> SUFFICES ASSUME IInv, IInv', SInv, [Next]_vars PROVE SInv'
  OBVIOUS
<1>1. ASSUME NEW k \in Places, NEW q \in Quantities, Issue(k, q) \/ Sell(k, q) \/ Receive(k, q)
      PROVE  SInv'
  <2>1. q \in Nat
    BY PurchaseAssumption
  <2>2. CASE Issue(k, q)
    <3>1. TakeOut(k, q) /\ balance[k] >= q /\ overdrawn' = overdrawn
      BY <2>2 DEF Issue
    <3> QED
      BY <2>1, <3>1, TakeOutWithin
  <2>3. CASE Sell(k, q)
    <3>1. TakeOut(k, q) /\ overdrawn \subseteq overdrawn'
      BY <2>3 DEF Sell
    <3>2. k \notin overdrawn' => balance[k] >= q
      BY <2>1, <2>3 DEF Sell, IInv, TypeOK
    <3> QED
      BY <2>1, <3>1, <3>2, TakeOutWithin
  <2>4. CASE Receive(k, q)
    BY <2>1, <2>4, ReceiveWithin
  <2> QED
    BY <1>1, <2>2, <2>3, <2>4
<1>2. ASSUME NEW p \in Purchases, NEW k \in Places, NEW c \in Costs, RecordReference(p, k, c)
      PROVE  SInv'
  BY <1>2, RecordReferenceWithin
<1>3. ASSUME NEW p \in Purchases, NEW k \in Places, NEW c \in Costs, NEW q \in Quantities,
             NEW s \in Suppliers, NEW pay \in 0 .. q * c, RecordPurchase(p, k, q, q * c, s, pay)
      PROVE  SInv'
  BY <1>3, PurchaseAssumption, RecordPurchaseWithin
<1>4. ASSUME NEW p \in Purchases, NEW k \in Places, NEW c \in Costs, NEW q \in Quantities,
             NEW s \in Suppliers, NEW credit \in BOOLEAN, EditPurchase(p, k, q, q * c, s, credit)
      PROVE  SInv'
  BY <1>4, PurchaseAssumption, EditLineWithin DEF EditPurchase
<1>5. ASSUME NEW p \in Purchases, DeletePurchase(p)
      PROVE  SInv'
  BY <1>5, DeletePurchaseWithin
<1>6. ASSUME NEW p \in Purchases, NEW c \in Costs, EditReference(p, invoice[p].qty * c)
      PROVE  SInv'
  BY <1>6, StockStays DEF EditReference, lots, broken
<1>7. ASSUME NEW p \in Purchases, NEW a \in 1 .. Outstanding(p), RecordPayment(p, a)
      PROVE  SInv'
  BY <1>7, StockStays DEF RecordPayment, lots, broken
<1>8. ASSUME NEW p \in Purchases,
             \/ BreakOffDelete(p)
             \/ \E k \in Places, s \in Suppliers :
                  BreakOffReversal(p, k, s) \/ \E q \in Quantities : BreakOffEdit(p, k, q, s)
      PROVE  SInv'
  <2>1. CASE TakeBack(p)
    BY <2>1, TakeBackWithin
  <2>2. ASSUME NEW k \in Places, NEW s \in Suppliers, NEW q \in Quantities, BreakOffEdit(p, k, q, s)
        PROVE  SInv'
    BY <2>2, PurchaseAssumption, EditLineWithin DEF BreakOffEdit
  <2> QED
    BY <1>8, <2>1, <2>2 DEF BreakOffDelete, BreakOffReversal
<1>9. CASE UNCHANGED vars
  BY <1>9, StockStays DEF vars, lots
<1> QED
  BY <1>1, <1>2, <1>3, <1>4, <1>5, <1>6, <1>7, <1>8, <1>9 DEF Next

-----------------------------------------------------------------------------
(* Invoices, lots and balances keep their types, and only where sales are        *)
(* deducted is a balance ever below zero.                                        *)
THEOREM PurchasesTyped == Spec => []TypeOK
<1>1. IInv => TypeOK
  BY DEF IInv
<1> QED
  BY Invariance, <1>1, PTL

(* Lots are used up oldest first (lots.py), through sales, edits and deletions.   *)
THEOREM PurchasesOldestFirst == Spec => []OldestFirst
<1>1. IInv => OldestFirst
  BY DEF IInv
<1> QED
  BY Invariance, <1>1, PTL

(* The movements of an invoice add up to its line, where it says, but for what     *)
(* edits broken off between two commits took out (purchase_edit).                 *)
THEOREM PurchasesReceived == Spec => []ReceivedAsInvoiced
<1>1. IInv => ReceivedAsInvoiced
  BY DEF IInv
<1> QED
  BY Invariance, <1>1, PTL

(* No invoice is paid beyond its total (record_purchase_payment and the edit).    *)
THEOREM PurchasesPaid == Spec => []PaidWithinTotal
<1>1. IInv => PaidWithinTotal
  BY DEF IInv
<1> QED
  BY Invariance, <1>1, PTL

(* Where sales never took more than there was, the lots claim no more than there  *)
(* is: what the next sale is charged for is in stock (allocate_lots_fifo).        *)
THEOREM PurchasesWithinStock == Spec => []LotsWithinStock
<1>1. SInv => LotsWithinStock
  BY DEF SInv
<1> QED
  BY Invariance, StockInitially, StockInductive, <1>1, PTL DEF Spec
=================================================================================
