----------------------------- MODULE SaleFlow_proofs -----------------------------
(* Theorems about SaleFlow, for any sets of cashiers, shifts, orders and        *)
(* products, and either order policy.                                           *)
EXTENDS SaleFlow, Sums

(* What handlers read, when requests are served one after another, is the rows. *)
LEMMA RowsAre ==
  /\ Rows.status = status /\ Rows.sent = sent /\ Rows.total = total
  /\ Rows.qty = qty /\ Rows.cooked = cooked
  /\ Rows.paid = paid /\ Rows.byBank = byBank /\ Rows.charged = charged
  /\ Rows.returned = returned /\ Rows.refunded = refunded /\ Rows.refundedCash = refundedCash
  /\ Rows.current = current /\ Rows.by = by /\ Rows.at = at /\ Rows.shift = shift
  BY DEF Rows

(* The columns the theorems are about have their types. *)
Typed ==
  /\ status \in [Sales -> SaleStatus \cup {"NONE"}]
  /\ sent \in [Sales -> BOOLEAN]
  /\ qty \in [Sales -> [Products -> 0..MaxQty]]
  /\ cooked \in [Sales -> [Products -> 0..MaxQty]]
  /\ deducted \in [Sales -> [Products -> Nat]]
  /\ returned \in [Sales -> [Products -> Nat]]
  /\ byBank \in [Sales -> BOOLEAN]

(* Only an order that was sent has anything in the kitchen, an open one all of  *)
(* its lines; an order that is cancelled, or not made yet, was not sent.        *)
KitchenKnows == \A s \in Sales :
  /\ ~sent[s] => cooked[s] = Zero
  /\ status[s] = "DRAFT" /\ sent[s] => cooked[s] = qty[s]
  /\ status[s] \in {"NONE", "CANCELLED"} => ~sent[s]
  /\ status[s] = "NONE" => qty[s] = Zero

(* Goods come back only from completed orders, and no more than were sold.      *)
ReturnedWithinSold == \A s \in Sales :
  /\ status[s] # "COMPLETED" => returned[s] = Zero
  /\ \A p \in Products : returned[s][p] <= qty[s][p]

StockInv == Typed /\ KitchenKnows /\ StockFollowsOrder /\ ReturnedWithinSold

LEMMA ZeroTyped == Zero \in [Products -> 0..MaxQty] /\ Zero \in [Products -> Nat]
                   /\ \A p \in Products : Zero[p] = 0
  BY SaleAssumption DEF Zero

(* A step that opens new drafts and cancels unsent ones, and does nothing else  *)
(* to any order but move it to another shift.                                   *)
OnlyDrafts ==
  /\ UNCHANGED <<sent, total, qty, cooked, deducted, paid, byBank, charged, returned, refunded, refundedCash>>
  /\ status' \in [Sales -> SaleStatus \cup {"NONE"}]
  /\ \A s \in Sales : \/ status'[s] = status[s]
                      \/ status[s] = "NONE" /\ status'[s] = "DRAFT"
                      \/ status[s] = "DRAFT" /\ ~sent[s] /\ status'[s] = "CANCELLED"

LEMMA DraftsOnly ==
  ASSUME Typed, NEW u, NEW k, NEW new, NEW gone, NEW moved, Drafts(u, k, new, gone, moved),
         \A s \in gone : Unsent(Rows, s),
         UNCHANGED <<sent, lines, deducted, money, returns>>
  PROVE  OnlyDrafts
<1>1. status' = [s \in Sales |-> IF s = new THEN "DRAFT"
                                ELSE IF s \in gone THEN "CANCELLED" ELSE status[s]]
  BY DEF Drafts
<1>2. ASSUME NEW s \in Sales
      PROVE  \/ status'[s] = status[s]
             \/ status[s] = "NONE" /\ status'[s] = "DRAFT"
             \/ status[s] = "DRAFT" /\ ~sent[s] /\ status'[s] = "CANCELLED"
  <2>1. CASE s = new
    BY <1>1, <2>1, SaleAssumption DEF Drafts
  <2>2. CASE s # new /\ s \in gone
    BY <1>1, <2>2, RowsAre DEF Unsent, IsDraft
  <2>3. CASE s # new /\ s \notin gone
    BY <1>1, <2>3
  <2> QED
    BY <2>1, <2>2, <2>3
<1>3. status' \in [Sales -> SaleStatus \cup {"NONE"}]
  BY <1>1 DEF Typed, SaleStatus
<1> QED
  BY <1>2, <1>3 DEF OnlyDrafts, lines, money, returns

LEMMA OnlyDraftsKeepStock == StockInv /\ OnlyDrafts => StockInv'
<1> SUFFICES ASSUME StockInv, OnlyDrafts PROVE StockInv'
  OBVIOUS
<1>1. Typed'
  BY DEF StockInv, Typed, OnlyDrafts
<1>2. KitchenKnows'
  BY ZeroTyped DEF StockInv, KitchenKnows, OnlyDrafts
<1>3. StockFollowsOrder'
  BY DEF StockInv, KitchenKnows, StockFollowsOrder, OnlyDrafts
<1>4. ReturnedWithinSold'
  BY DEF StockInv, ReturnedWithinSold, OnlyDrafts
<1> QED
  BY <1>1, <1>2, <1>3, <1>4 DEF StockInv

(* The requests that only open, cancel and move drafts, and those on shifts.    *)
LEMMA DraftRequests ==
  ASSUME Typed,
         \/ \E u \in Users, k \in Shifts : OpenShift(Rows, u, k) \/ CloseShift(Rows, u, k)
         \/ \E u \in Users : Visit(Rows, u)
         \/ \E u \in Users, s \in Sales : NewOrder(Rows, u, s) \/ OpenOrder(Rows, u, s)
         \/ \E u \in Users, s \in Sales, others \in SUBSET Sales, new \in Sales \cup {None} :
              CancelOrder(Rows, u, s, others, new)
         \/ \E k \in Shifts : AdminClose(Rows, k)
  PROVE  OnlyDrafts
<1>1. ASSUME UNCHANGED sale PROVE OnlyDrafts
  BY <1>1 DEF OnlyDrafts, Typed, sale, lines, money, returns
<1>2. CASE \E u \in Users, k \in Shifts : OpenShift(Rows, u, k) \/ CloseShift(Rows, u, k)
  BY <1>1, <1>2 DEF OpenShift, CloseShift
<1>3. ASSUME NEW u \in Users, Visit(Rows, u) PROVE OnlyDrafts
  <2> DEFINE k == SessionShift(Rows, u)
             gone == StaleDrafts(Rows, u, k, Rows.current[u])
  <2>1. PICK moved : Drafts(u, k, None, gone, moved)
    BY <1>3 DEF Visit
  <2>2. \A s \in gone : Unsent(Rows, s)
    BY DEF StaleDrafts
  <2> QED
    BY <1>3, <2>1, <2>2, DraftsOnly DEF Visit
<1>4. ASSUME NEW u \in Users, NEW n \in Sales, NewOrder(Rows, u, n) PROVE OnlyDrafts
  <2>1. PICK y, keep, moved :
          /\ Drafts(u, SessionShift(Rows, u), n,
                    StaleDrafts(y, u, SessionShift(Rows, u), keep), moved)
          /\ y.status = Rows.status /\ y.sent = Rows.sent
    BY <1>4, RowsAre DEF NewOrder, Rows
  <2>2. \A s \in StaleDrafts(y, u, SessionShift(Rows, u), keep) : Unsent(Rows, s)
    BY <2>1 DEF StaleDrafts, Unsent, IsDraft
  <2> QED
    BY <1>4, <2>1, <2>2, DraftsOnly DEF NewOrder
<1>5. CASE \E u \in Users, s \in Sales : OpenOrder(Rows, u, s)
  BY <1>1, <1>5 DEF OpenOrder
<1>6. ASSUME NEW u \in Users, NEW s \in Sales, NEW others \in SUBSET Sales,
             NEW new \in Sales \cup {None}, CancelOrder(Rows, u, s, others, new)
      PROVE  OnlyDrafts
  <2>1. Drafts(u, SessionShift(Rows, u), new, others \cup {s}, {})
    BY <1>6 DEF CancelOrder
  <2>2. \A d \in others \cup {s} : Unsent(Rows, d)
    BY <1>6 DEF CancelOrder
  <2> QED
    BY <1>6, <2>1, <2>2, DraftsOnly DEF CancelOrder
<1>7. ASSUME NEW k \in Shifts, AdminClose(Rows, k) PROVE OnlyDrafts
  <2> DEFINE u == Rows.shift[k].user
  <2>1. PICK safe \in {{}, {s \in OpenDrafts(Rows, u, k) : ~Rows.sent[s]}} :
          Drafts(u, k, None, safe, {})
    BY <1>7 DEF AdminClose
  <2>2. \A s \in safe : Unsent(Rows, s)
    BY DEF OpenDrafts, Unsent
  <2> QED
    BY <1>7, <2>1, <2>2, DraftsOnly DEF AdminClose
<1> QED
  BY <1>2, <1>3, <1>4, <1>5, <1>6, <1>7

-----------------------------------------------------------------------------
(* What the requests that change an order write. *)

(* A draft, new or not, gets the lines q; when it was sent, so is what is new. *)
LinesAdded(s, p, q) ==
  /\ status[s] \in {"NONE", "DRAFT"} /\ status' = [status EXCEPT ![s] = "DRAFT"]
  /\ q \in [Products -> 0..MaxQty] /\ q[p] > 0
  /\ \A r \in Products : q[r] >= qty[s][r]
  /\ qty' = [qty EXCEPT ![s] = q]
  /\ total' = [total EXCEPT ![s] = Total(q)]
  /\ cooked' = [cooked EXCEPT ![s] = IF sent[s] THEN q ELSE cooked[s]]
  /\ deducted' = [deducted EXCEPT ![s] =
       IF sent[s] THEN [r \in Products |-> deducted[s][r] + NewForKitchen(q[r], cooked[s][r])]
       ELSE deducted[s]]
  /\ UNCHANGED <<sent, paid, byBank, charged, returned, refunded, refundedCash>>

LEMMA AddLineWrites ==
  ASSUME Typed, NEW u \in Users, NEW s \in Sales, NEW p \in Products, NEW n \in 1..MaxQty,
         AddLine(Rows, u, s, p, n)
  PROVE  \E q : LinesAdded(s, p, q)
<1> DEFINE q == [qty[s] EXCEPT ![p] = qty[s][p] + n]
<1>1. qty[s] \in [Products -> 0..MaxQty] /\ cooked[s] \in [Products -> 0..MaxQty]
  BY DEF Typed
<1>2. qty[s][p] + n <= MaxQty /\ qty[s][p] \in 0..MaxQty /\ qty[s][p] + n \in 0..MaxQty
  BY <1>1, RowsAre, SaleAssumption DEF AddLine
<1>3. q \in [Products -> 0..MaxQty] /\ q[p] = qty[s][p] + n /\ q[p] > 0
  BY <1>1, <1>2
<1>4. \A r \in Products : q[r] >= qty[s][r]
  BY <1>1, <1>2
<1>5. status[s] \in {"NONE", "DRAFT"} /\ status' = [status EXCEPT ![s] = "DRAFT"]
  <2>1. IF IsDraft(Rows, Rows.current[u]) THEN s = Rows.current[u] ELSE status[s] = "NONE"
    BY RowsAre DEF AddLine
  <2>2. status[s] = "DRAFT" <=> IsDraft(Rows, s)
    BY RowsAre DEF IsDraft
  <2>3. status[s] \in {"NONE", "DRAFT"}
    BY <2>1, <2>2
  <2>4. PICK moved : Drafts(u, SessionShift(Rows, u), IF IsDraft(Rows, s) THEN None ELSE s, {}, moved)
    BY DEF AddLine
  <2>5. \A d \in Sales : status'[d] = IF d = s THEN "DRAFT" ELSE status[d]
    BY <2>2, <2>3, <2>4, SaleAssumption DEF Drafts
  <2>6. status' = [status EXCEPT ![s] = "DRAFT"]
    BY <2>4, <2>5 DEF Drafts, Typed
  <2> QED
    BY <2>3, <2>6
<1>6. qty' = [qty EXCEPT ![s] = q]
  <2>1. qty' = [qty EXCEPT ![s][p] = IF qty[s][p] = 0 THEN qty[s][p] + n ELSE q[p]]
    BY RowsAre DEF AddLine
  <2> QED
    BY <1>3, <2>1 DEF Typed
<1>7. total' = [total EXCEPT ![s] = Total(q)]
  BY RowsAre DEF AddLine, RecalcSaleTotal, Written
<1>8. Supplement(Rows, s, q)
  BY RowsAre DEF AddLine
<1> HIDE DEF q
<1>9. cooked' = [cooked EXCEPT ![s] = IF sent[s] THEN q ELSE cooked[s]]
  <2>1. CASE sent[s]
    <3>1. cooked' = [cooked EXCEPT ![s] =
                       [r \in Products |-> Written(cooked[s][r], cooked[s][r], q[r])]]
      BY <1>8, <2>1, RowsAre DEF Supplement
    <3>2. [r \in Products |-> Written(cooked[s][r], cooked[s][r], q[r])] = q
      BY <1>3 DEF Written
    <3> QED
      BY <2>1, <3>1, <3>2
  <2>2. CASE ~sent[s]
    BY <1>8, <2>2, RowsAre DEF Supplement, Typed
  <2> QED
    BY <2>1, <2>2
<1>10. deducted' = [deducted EXCEPT ![s] =
         IF sent[s] THEN [r \in Products |-> deducted[s][r] + NewForKitchen(q[r], cooked[s][r])]
         ELSE deducted[s]]
  <2>1. CASE sent[s]
    BY <1>8, <2>1, RowsAre DEF Supplement
  <2>2. CASE ~sent[s]
    BY <1>8, <2>2, RowsAre DEF Supplement, Typed
  <2> QED
    BY <2>1, <2>2
<1>11. UNCHANGED <<sent, paid, byBank, charged, returned, refunded, refundedCash>>
  BY DEF AddLine, money, returns
<1> QED
  BY <1>3, <1>4, <1>5, <1>6, <1>7, <1>9, <1>10, <1>11 DEF LinesAdded

(* A draft's lines become q; what the kitchen has it keeps. *)
LinesReduced(s, p, q) ==
  /\ status[s] = "DRAFT" /\ UNCHANGED status
  /\ q \in [Products -> 0..MaxQty]
  /\ q[p] < qty[s][p] /\ q[p] >= cooked[s][p]
  /\ qty' = [qty EXCEPT ![s] = q]
  /\ total' = [total EXCEPT ![s] = Total(q)]
  /\ UNCHANGED <<sent, cooked, deducted, paid, byBank, charged, returned, refunded, refundedCash>>

LEMMA ReduceLineWrites ==
  ASSUME Typed, NEW u \in Users, NEW p \in Products, NEW n \in 1..MaxQty,
         ReduceLine(Rows, u, p, n)
  PROVE  \E s \in Sales, q \in [Products -> 0..MaxQty] : LinesReduced(s, p, q)
<1> DEFINE s == current[u]
           q == [qty[s] EXCEPT ![p] = Left(qty[s][p], n)]
<1>1. /\ IsDraft(Rows, s) /\ qty[s][p] > 0 /\ Left(qty[s][p], n) >= cooked[s][p]
      /\ \E moved : Drafts(u, SessionShift(Rows, u), None, {}, moved)
      /\ qty' = [qty EXCEPT ![s][p] = q[p]]
      /\ total' = [total EXCEPT ![s] = RecalcSaleTotal(Rows, s, q)]
      /\ UNCHANGED <<sent, cooked, deducted, money, returns>>
  BY RowsAre DEF ReduceLine
<1>2. s \in Sales /\ status[s] = "DRAFT"
  BY <1>1, RowsAre DEF IsDraft
<1>3. qty[s] \in [Products -> 0..MaxQty]
  BY <1>2 DEF Typed
<1>4. Left(qty[s][p], n) \in 0..MaxQty /\ Left(qty[s][p], n) < qty[s][p]
  <2>1. qty[s][p] \in 0..MaxQty
    BY <1>3
  <2> QED
    BY <1>1, <2>1, SaleAssumption DEF Left
<1>5. q \in [Products -> 0..MaxQty] /\ q[p] = Left(qty[s][p], n)
  BY <1>3, <1>4
<1>6. UNCHANGED status
  BY <1>1, SaleAssumption DEF Drafts, Typed
<1>7. qty' = [qty EXCEPT ![s] = q]
  BY <1>1, <1>2, <1>3, <1>5 DEF Typed
<1>8. total' = [total EXCEPT ![s] = Total(q)]
  BY <1>1, RowsAre DEF RecalcSaleTotal, Written
<1>9. UNCHANGED <<sent, cooked, deducted, paid, byBank, charged, returned, refunded, refundedCash>>
  BY <1>1 DEF money, returns
<1>10. q[p] < qty[s][p] /\ q[p] >= cooked[s][p]
  BY <1>1, <1>4, <1>5
<1> HIDE DEF q, s
<1>11. LinesReduced(s, p, q)
  BY <1>2, <1>5, <1>6, <1>7, <1>8, <1>9, <1>10 DEF LinesReduced
<1> QED
  BY <1>2, <1>5, <1>11

(* All of an unsent draft goes to the kitchen and out of stock. *)
AllSent(s) ==
  /\ status[s] = "DRAFT" /\ ~sent[s] /\ UNCHANGED status
  /\ sent' = [sent EXCEPT ![s] = TRUE]
  /\ cooked' = [cooked EXCEPT ![s] = qty[s]]
  /\ deducted' = [deducted EXCEPT ![s] = [p \in Products |-> deducted[s][p] + qty[s][p]]]
  /\ UNCHANGED <<total, qty, paid, byBank, charged, returned, refunded, refundedCash>>

LEMMA SendWrites ==
  ASSUME Typed, NEW u \in Users, NEW s \in Sales, SendToKitchen(Rows, u, s)
  PROVE  AllSent(s)
<1>1. status[s] = "DRAFT" /\ ~sent[s]
  BY RowsAre DEF SendToKitchen, Unsent, IsDraft
<1>2. UNCHANGED status
  BY SaleAssumption DEF SendToKitchen, Drafts, Typed
<1>3. cooked' = [cooked EXCEPT ![s] = qty[s]]
  <2>1. cooked' = [cooked EXCEPT ![s] =
                     [p \in Products |-> Written(cooked[s][p], cooked[s][p], qty[s][p])]]
    BY RowsAre DEF SendToKitchen
  <2>2. [p \in Products |-> Written(cooked[s][p], cooked[s][p], qty[s][p])] = qty[s]
    BY DEF Written, Typed
  <2> QED
    BY <2>1, <2>2
<1> QED
  BY <1>1, <1>2, <1>3, RowsAre DEF SendToKitchen, AllSent, money, returns

(* A draft with lines is settled, at the till or on a room account, and what was *)
(* not sent goes out of stock; a new draft may be made.                         *)
Settled(s) ==
  /\ status[s] = "DRAFT" /\ HasLines(Rows, s)
  /\ status'[s] = "COMPLETED" /\ status' \in [Sales -> SaleStatus \cup {"NONE"}]
  /\ \A d \in Sales \ {s} : \/ status'[d] = status[d]
                            \/ status[d] = "NONE" /\ status'[d] = "DRAFT"
  /\ deducted' = [deducted EXCEPT ![s] =
       IF sent[s] THEN deducted[s] ELSE [p \in Products |-> deducted[s][p] + qty[s][p]]]
  /\ \/ paid' = [paid EXCEPT ![s] = paid[s] + total[s]] /\ UNCHANGED charged
     \/ charged' = [charged EXCEPT ![s] = charged[s] + total[s]] /\ UNCHANGED paid
  /\ byBank' \in [Sales -> BOOLEAN] /\ \A d \in Sales \ {s} : byBank'[d] = byBank[d]
  /\ UNCHANGED <<sent, total, qty, cooked, returned, refunded, refundedCash>>

LEMMA PayWrites ==
  ASSUME Typed, NEW u \in Users, NEW new \in Sales \cup {None},
         Checkout(Rows, u, new) \/ ChargeRoom(Rows, u, new)
  PROVE  \E s \in Sales : Settled(s)
<1> DEFINE s == current[u]
<1>1. /\ MayPay(Rows, s) /\ Complete(Rows, u, SessionShift(Rows, u), s, new)
      /\ \/ paid' = [paid EXCEPT ![s] = paid[s] + total[s]] /\ UNCHANGED charged
         \/ charged' = [charged EXCEPT ![s] = charged[s] + total[s]] /\ UNCHANGED paid
      /\ UNCHANGED byBank \/ \E bank \in MayBeBank(s) : byBank' = [byBank EXCEPT ![s] = bank]
      /\ UNCHANGED <<sent, lines, returns>>
  BY RowsAre DEF Checkout, ChargeRoom
<1>2. s \in Sales /\ status[s] = "DRAFT" /\ HasLines(Rows, s)
  BY <1>1, RowsAre DEF MayPay, IsDraft
<1>3. /\ status' = [d \in Sales |-> IF d = s THEN "COMPLETED"
                                   ELSE IF d = new THEN "DRAFT" ELSE status[d]]
      /\ new # None => status[new] = "NONE"
  BY <1>1 DEF Complete
<1>4. status'[s] = "COMPLETED" /\ status' \in [Sales -> SaleStatus \cup {"NONE"}]
  BY <1>2, <1>3 DEF Typed, SaleStatus
<1>5. \A d \in Sales \ {s} : \/ status'[d] = status[d]
                             \/ status[d] = "NONE" /\ status'[d] = "DRAFT"
  BY <1>3, SaleAssumption
<1>6. deducted' = [deducted EXCEPT ![s] =
        IF sent[s] THEN deducted[s] ELSE [p \in Products |-> deducted[s][p] + qty[s][p]]]
  BY <1>1, RowsAre DEF Complete
<1>7. byBank' \in [Sales -> BOOLEAN] /\ \A d \in Sales \ {s} : byBank'[d] = byBank[d]
  <2>1. byBank \in [Sales -> BOOLEAN] /\ MayBeBank(s) \subseteq BOOLEAN
    BY DEF Typed, MayBeBank
  <2> HIDE DEF s
  <2> QED
    BY <1>1, <2>1
<1> HIDE DEF s
<1> QED
  BY <1>1, <1>2, <1>4, <1>5, <1>6, <1>7 DEF Settled, lines, returns

(* Goods of a completed order come back, and what was paid for them at the till. *)
Back(s, p, n) ==
  /\ status[s] = "COMPLETED"
  /\ returned[s][p] + n <= qty[s][p]
  /\ returned' = [returned EXCEPT ![s][p] = returned[s][p] + n]
  /\ paid[s] > 0 => refunded[s] + n <= paid[s]
  /\ refunded' = [refunded EXCEPT ![s] = IF paid[s] > 0 THEN refunded[s] + n ELSE refunded[s]]
  /\ \E bank \in BOOLEAN : refundedCash' =
       [refundedCash EXCEPT ![s] = IF paid[s] > 0 /\ ~bank THEN refundedCash[s] + n ELSE refundedCash[s]]
  /\ UNCHANGED <<status, sent, total, qty, cooked, deducted, paid, byBank, charged>>

LEMMA RefundWrites ==
  ASSUME NEW u \in Users, NEW s \in Sales, NEW p \in Products, NEW n \in 1..MaxQty,
         Refund(Rows, u, s, p, n)
  PROVE  Back(s, p, n)
<1>1. \E bank \in MayBeBank(s) : refundedCash' =
        [refundedCash EXCEPT ![s] = IF paid[s] > 0 /\ ~bank THEN refundedCash[s] + n ELSE refundedCash[s]]
  BY RowsAre DEF Refund
<1>2. MayBeBank(s) \subseteq BOOLEAN
  BY DEF MayBeBank
<1>3. /\ status[s] = "COMPLETED" /\ returned[s][p] + n <= qty[s][p]
      /\ paid[s] > 0 => refunded[s] + n <= paid[s]
      /\ returned' = [returned EXCEPT ![s][p] = returned[s][p] + n]
      /\ refunded' = [refunded EXCEPT ![s] = IF paid[s] > 0 THEN refunded[s] + n ELSE refunded[s]]
  BY RowsAre DEF Refund, MayReturn
<1>4. UNCHANGED <<status, sent, total, qty, cooked, deducted, paid, byBank, charged>>
  BY DEF Refund, lines, money
<1> QED
  BY <1>1, <1>2, <1>3, <1>4 DEF Back

(* The payment of a completed order was by another method.                      *)
Corrected(s) ==
  /\ status[s] = "COMPLETED"
  /\ byBank' = [byBank EXCEPT ![s] = ~byBank[s]]
  /\ UNCHANGED <<status, sent, total, qty, cooked, deducted, paid, charged, returned, refunded,
                 refundedCash>>

LEMMA CorrectWrites == ASSUME NEW s \in Sales, CorrectPayment(Rows, s) PROVE Corrected(s)
  BY RowsAre DEF CorrectPayment, Corrected, lines, returns

-----------------------------------------------------------------------------
(* Stock and goods *)

LEMMA AddedKeepsStock ==
  ASSUME StockInv, NEW s \in Sales, NEW p \in Products, NEW q, LinesAdded(s, p, q)
  PROVE  StockInv'
<1> USE DEF StockInv
<1>1. /\ qty[s] \in [Products -> 0..MaxQty] /\ cooked[s] \in [Products -> 0..MaxQty]
      /\ q \in [Products -> 0..MaxQty] /\ deducted[s] \in [Products -> Nat]
  BY DEF Typed, LinesAdded
<1>2. sent[s] => cooked[s] = qty[s] /\ deducted[s] = qty[s] /\ status[s] = "DRAFT"
  BY DEF KitchenKnows, StockFollowsOrder, LinesAdded
<1>3. ~sent[s] => cooked[s] = Zero /\ deducted[s] = Zero
  BY DEF KitchenKnows, StockFollowsOrder, LinesAdded
<1>4. ASSUME sent[s]
      PROVE  [r \in Products |-> deducted[s][r] + NewForKitchen(q[r], cooked[s][r])] = q
  <2>1. ASSUME NEW r \in Products
        PROVE  deducted[s][r] + NewForKitchen(q[r], cooked[s][r]) = q[r]
    <3>1. q[r] \in Nat /\ qty[s][r] \in Nat /\ q[r] >= qty[s][r]
      BY <1>1, SaleAssumption DEF LinesAdded
    <3> QED
      BY <1>2, <1>4, <3>1 DEF NewForKitchen
  <2> QED
    BY <1>1, <2>1
<1>5. /\ qty' = [qty EXCEPT ![s] = q] /\ status' = [status EXCEPT ![s] = "DRAFT"]
      /\ cooked' = [cooked EXCEPT ![s] = IF sent[s] THEN q ELSE Zero]
      /\ deducted' = [deducted EXCEPT ![s] = IF sent[s] THEN q ELSE Zero]
      /\ UNCHANGED <<sent, returned, byBank>>
  BY <1>3, <1>4 DEF LinesAdded
<1>6. Typed'
  BY <1>1, <1>5, ZeroTyped, SaleAssumption DEF Typed, SaleStatus
<1>7. KitchenKnows'
  BY <1>5 DEF KitchenKnows, Typed
<1>8. StockFollowsOrder'
  BY <1>5 DEF StockFollowsOrder, Typed
<1>9. ReturnedWithinSold'
  <2>1. status[s] # "COMPLETED"
    BY DEF LinesAdded
  <2>2. returned[s] = Zero
    BY <2>1 DEF ReturnedWithinSold
  <2>3. \A r \in Products : 0 <= q[r]
    BY <1>1
  <2> QED
    BY <1>5, <2>2, <2>3, ZeroTyped DEF ReturnedWithinSold, Typed
<1> QED
  BY <1>6, <1>7, <1>8, <1>9

LEMMA ReducedKeepsStock ==
  ASSUME StockInv, NEW s \in Sales, NEW p \in Products, NEW q, LinesReduced(s, p, q)
  PROVE  StockInv'
<1> USE DEF StockInv
<1>1. ~sent[s]
  <2>1. qty[s][p] \in 0..MaxQty /\ q[p] \in 0..MaxQty
    BY DEF Typed, LinesReduced
  <2> QED
    BY <2>1, SaleAssumption DEF KitchenKnows, LinesReduced
<1>2. Typed'
  BY DEF Typed, LinesReduced
<1>3. KitchenKnows'
  BY <1>1 DEF KitchenKnows, LinesReduced, Typed
<1>4. StockFollowsOrder'
  BY <1>1 DEF StockFollowsOrder, LinesReduced, Typed
<1>5. ReturnedWithinSold'
  <2>1. returned[s] = Zero /\ \A r \in Products : 0 <= q[r]
    BY DEF ReturnedWithinSold, LinesReduced
  <2> QED
    BY <2>1, ZeroTyped DEF ReturnedWithinSold, LinesReduced, Typed
<1> QED
  BY <1>2, <1>3, <1>4, <1>5

LEMMA SentKeepsStock == ASSUME StockInv, NEW s \in Sales, AllSent(s) PROVE StockInv'
<1> USE DEF StockInv
<1>1. qty[s] \in [Products -> 0..MaxQty] /\ deducted[s] = Zero
  BY DEF Typed, AllSent, StockFollowsOrder
<1>2. [p \in Products |-> deducted[s][p] + qty[s][p]] = qty[s]
  BY <1>1, ZeroTyped
<1>3. Typed'
  BY <1>1, <1>2, SaleAssumption DEF Typed, AllSent
<1>4. KitchenKnows'
  BY DEF KitchenKnows, AllSent, Typed
<1>5. StockFollowsOrder'
  BY <1>2 DEF StockFollowsOrder, AllSent, Typed
<1>6. ReturnedWithinSold'
  BY DEF ReturnedWithinSold, AllSent
<1> QED
  BY <1>3, <1>4, <1>5, <1>6

LEMMA SettledKeepsStock == ASSUME StockInv, NEW s \in Sales, Settled(s) PROVE StockInv'
<1> USE DEF StockInv
<1>1. qty[s] \in [Products -> 0..MaxQty]
  BY DEF Typed
<1>2. sent[s] => deducted[s] = qty[s]
  BY DEF StockFollowsOrder, Settled
<1>3. ~sent[s] => [p \in Products |-> deducted[s][p] + qty[s][p]] = qty[s]
  BY <1>1, ZeroTyped DEF StockFollowsOrder, Settled
<1>4. deducted' = [deducted EXCEPT ![s] = qty[s]]
  BY <1>2, <1>3 DEF Settled
<1>5. qty[s] \in [Products -> Nat]
  BY <1>1, SaleAssumption
<1>6. Typed'
  BY <1>4, <1>5 DEF Typed, Settled
<1>7. KitchenKnows'
  BY ZeroTyped DEF KitchenKnows, Settled
<1>8. StockFollowsOrder'
  BY <1>4 DEF StockFollowsOrder, KitchenKnows, Settled, Typed
<1>9. ReturnedWithinSold'
  BY DEF ReturnedWithinSold, Settled
<1> QED
  BY <1>6, <1>7, <1>8, <1>9

LEMMA BackKeepsStock ==
  ASSUME StockInv, NEW s \in Sales, NEW p \in Products, NEW n \in 1..MaxQty, Back(s, p, n)
  PROVE  StockInv'
<1> USE DEF StockInv
<1>1. returned[s] \in [Products -> Nat] /\ n \in Nat
  BY SaleAssumption DEF Typed
<1>2. returned[s][p] + n \in Nat
  BY <1>1
<1>3. Typed'
  BY <1>1, <1>2 DEF Typed, Back
<1>4. KitchenKnows' /\ StockFollowsOrder'
  BY DEF KitchenKnows, StockFollowsOrder, Back
<1>5. ReturnedWithinSold'
  BY <1>1, <1>2 DEF ReturnedWithinSold, Back, Typed
<1> QED
  BY <1>3, <1>4, <1>5

LEMMA CorrectedKeepsStock == ASSUME StockInv, NEW s \in Sales, Corrected(s) PROVE StockInv'
<1>1. Typed'
  BY DEF StockInv, Typed, Corrected
<1>2. KitchenKnows' /\ StockFollowsOrder' /\ ReturnedWithinSold'
  BY DEF StockInv, KitchenKnows, StockFollowsOrder, ReturnedWithinSold, Corrected
<1> QED
  BY <1>1, <1>2 DEF StockInv

LEMMA InitStockInv == Init => StockInv
<1> SUFFICES ASSUME Init PROVE StockInv
  OBVIOUS
<1>1. Typed
  BY ZeroTyped DEF Init, Typed
<1>2. KitchenKnows /\ StockFollowsOrder
  BY DEF Init, KitchenKnows, StockFollowsOrder
<1>3. ReturnedWithinSold
  BY ZeroTyped DEF Init, ReturnedWithinSold
<1> QED
  BY <1>1, <1>2, <1>3 DEF StockInv

(* Every step changes drafts only, or is one of the six changes of an order.    *)
LEMMA StepIs ==
  ASSUME Typed, Next
  PROVE  \/ OnlyDrafts
         \/ \E s \in Sales, p \in Products, q \in [Products -> 0..MaxQty] :
              LinesAdded(s, p, q) \/ LinesReduced(s, p, q)
         \/ \E s \in Sales : AllSent(s) \/ Settled(s) \/ Corrected(s)
         \/ \E s \in Sales, p \in Products, n \in 1..MaxQty : Back(s, p, n)
<1>1. ASSUME NEW u \in Users, NEW s \in Sales, NEW p \in Products, NEW n \in 1..MaxQty,
             AddLine(Rows, u, s, p, n)
      PROVE  \E d \in Sales, r \in Products, q \in [Products -> 0..MaxQty] : LinesAdded(d, r, q)
  <2>1. PICK q : LinesAdded(s, p, q)
    BY <1>1, AddLineWrites
  <2>2. q \in [Products -> 0..MaxQty]
    BY <2>1 DEF LinesAdded
  <2> QED
    BY <2>1, <2>2
<1>2. ASSUME NEW u \in Users, NEW p \in Products, NEW n \in 1..MaxQty, ReduceLine(Rows, u, p, n)
      PROVE  \E d \in Sales, r \in Products, q \in [Products -> 0..MaxQty] : LinesReduced(d, r, q)
  BY <1>2, ReduceLineWrites
<1>3. ASSUME NEW u \in Users, NEW s \in Sales, SendToKitchen(Rows, u, s) PROVE AllSent(s)
  BY <1>3, SendWrites
<1>4. ASSUME NEW u \in Users, NEW new \in Sales \cup {None},
             Checkout(Rows, u, new) \/ ChargeRoom(Rows, u, new)
      PROVE  \E s \in Sales : Settled(s)
  BY <1>4, PayWrites
<1>5. ASSUME NEW u \in Users, NEW s \in Sales, NEW p \in Products, NEW n \in 1..MaxQty,
             Refund(Rows, u, s, p, n)
      PROVE  Back(s, p, n)
  BY <1>5, RefundWrites
<1>6. ASSUME NEW s \in Sales, CorrectPayment(Rows, s) PROVE Corrected(s)
  BY <1>6, CorrectWrites
<1> QED
  BY <1>1, <1>2, <1>3, <1>4, <1>5, <1>6, DraftRequests DEF Next

LEMMA StepStockInv == StockInv /\ [Next]_vars => StockInv'
<1> SUFFICES ASSUME StockInv, [Next]_vars PROVE StockInv'
  OBVIOUS
<1>1. CASE Next
  <2>1. Typed
    BY DEF StockInv
  <2> QED
    BY <1>1, <2>1, StepIs, OnlyDraftsKeepStock, AddedKeepsStock, ReducedKeepsStock,
       SentKeepsStock, SettledKeepsStock, BackKeepsStock, CorrectedKeepsStock
<1>2. CASE UNCHANGED vars
  BY <1>2 DEF vars, sale, lines, money, returns, StockInv, Typed, KitchenKnows,
             StockFollowsOrder, ReturnedWithinSold
<1> QED
  BY <1>1, <1>2

(* The stock an order took is what it sells, once it was sent to the kitchen or *)
(* paid, and nothing before that or when it was cancelled.                      *)
THEOREM SaleStock == Spec => []StockFollowsOrder
<1>1. StockInv => StockFollowsOrder
  BY DEF StockInv
<1> QED
  BY <1>1, InitStockInv, StepStockInv, PTL DEF Spec

(* No more goods come back than were sold, and only from completed orders.      *)
THEOREM SaleGoodsBack == Spec => []ReturnedWithinSold
<1>1. StockInv => ReturnedWithinSold
  BY DEF StockInv
<1> QED
  BY <1>1, InitStockInv, StepStockInv, PTL DEF Spec

-----------------------------------------------------------------------------
(* Money *)

(* The total of an order's lines is a natural number. *)
LEMMA TotalsAreCounts == \A q \in [Products -> 0..MaxQty] : Total(q) \in Nat
<1> TAKE q \in [Products -> 0..MaxQty]
<1>1. \A p \in Products : q[p] \in Nat
  BY SaleAssumption
<1>2. IsFiniteSet(Products)
  BY SaleAssumption
<1> QED
  BY <1>1, <1>2, SumNat DEF Total

(* An order with lines carries their total; money goes back for completed       *)
(* orders only, and no more of it than was paid.                                *)
TotalKnown == \A s \in Sales : (\E p \in Products : qty[s][p] > 0) => total[s] = Total(qty[s])

CashBack == \A s \in Sales :
  /\ refundedCash[s] <= refunded[s] /\ refunded[s] <= paid[s]
  /\ status[s] # "COMPLETED" => refunded[s] = 0

MoneyTyped ==
  /\ total \in [Sales -> Nat]
  /\ paid \in [Sales -> Nat] /\ charged \in [Sales -> Nat] /\ refunded \in [Sales -> Nat]
  /\ refundedCash \in [Sales -> Nat]

MoneyInv == StockInv /\ MoneyTyped /\ TotalKnown /\ SettledOnce /\ CashBack

LEMMA OnlyDraftsKeepMoney == MoneyInv /\ OnlyDrafts => MoneyInv'
<1> SUFFICES ASSUME MoneyInv, OnlyDrafts PROVE MoneyInv'
  OBVIOUS
<1>1. StockInv'
  BY OnlyDraftsKeepStock DEF MoneyInv
<1>2. MoneyTyped' /\ TotalKnown'
  BY DEF MoneyInv, MoneyTyped, TotalKnown, OnlyDrafts
<1>3. SettledOnce'
  BY DEF MoneyInv, SettledOnce, OnlyDrafts
<1>4. CashBack'
  BY DEF MoneyInv, CashBack, OnlyDrafts
<1> QED
  BY <1>1, <1>2, <1>3, <1>4 DEF MoneyInv

LEMMA LinesKeepMoney ==
  ASSUME MoneyInv, NEW s \in Sales, NEW p \in Products, NEW q,
         LinesAdded(s, p, q) \/ LinesReduced(s, p, q)
  PROVE  MoneyInv'
<1>1. StockInv'
  BY AddedKeepsStock, ReducedKeepsStock DEF MoneyInv
<1>2. /\ q \in [Products -> 0..MaxQty]
      /\ qty' = [qty EXCEPT ![s] = q] /\ total' = [total EXCEPT ![s] = Total(q)]
      /\ UNCHANGED <<paid, charged, refunded, refundedCash>>
      /\ status[s] # "COMPLETED" /\ status'[s] # "COMPLETED"
      /\ \A d \in Sales \ {s} : status'[d] = status[d]
  BY DEF LinesAdded, LinesReduced, MoneyInv, StockInv, Typed
<1>3. qty \in [Sales -> [Products -> 0..MaxQty]]
  BY DEF MoneyInv, StockInv, Typed
<1>4. MoneyTyped'
  BY <1>2, TotalsAreCounts DEF MoneyInv, MoneyTyped
<1>5. TotalKnown'
  BY <1>2, <1>3 DEF MoneyInv, MoneyTyped, TotalKnown
<1>6. SettledOnce'
  BY <1>2, <1>3 DEF MoneyInv, SettledOnce
<1>7. CashBack'
  BY <1>2 DEF MoneyInv, CashBack
<1> QED
  BY <1>1, <1>4, <1>5, <1>6, <1>7 DEF MoneyInv

LEMMA SentKeepsMoney == ASSUME MoneyInv, NEW s \in Sales, AllSent(s) PROVE MoneyInv'
<1>1. StockInv'
  BY SentKeepsStock DEF MoneyInv
<1>2. UNCHANGED <<status, total, qty, paid, charged, refunded, refundedCash>>
  BY DEF AllSent
<1> QED
  BY <1>1, <1>2 DEF MoneyInv, MoneyTyped, TotalKnown, SettledOnce, CashBack

LEMMA SettledKeepsMoney ==
  ASSUME MoneyInv, NEW s \in Sales, Settled(s)
  PROVE  MoneyInv'
<1>1. StockInv'
  BY SettledKeepsStock DEF MoneyInv
<1>2. total[s] = Total(qty[s]) /\ total[s] \in Nat
  BY RowsAre DEF MoneyInv, MoneyTyped, TotalKnown, Settled, HasLines
<1>3. paid[s] = 0 /\ charged[s] = 0 /\ refunded[s] = 0
  BY DEF MoneyInv, SettledOnce, CashBack, Settled
<1>4. \/ paid' = [paid EXCEPT ![s] = total[s]] /\ UNCHANGED charged
      \/ charged' = [charged EXCEPT ![s] = total[s]] /\ UNCHANGED paid
  BY <1>2, <1>3 DEF Settled
<1>5. MoneyTyped'
  BY <1>2, <1>4 DEF MoneyInv, MoneyTyped, Settled
<1>6. TotalKnown'
  BY DEF MoneyInv, TotalKnown, Settled
<1>7. SettledOnce'
  <2> SUFFICES ASSUME NEW d \in Sales
               PROVE  IF status'[d] = "COMPLETED"
                      THEN paid'[d] + charged'[d] = Total(qty'[d]) /\ 0 \in {paid'[d], charged'[d]}
                      ELSE paid'[d] = 0 /\ charged'[d] = 0
    BY DEF SettledOnce
  <2>1. CASE d = s
    BY <1>2, <1>3, <1>4, <2>1 DEF MoneyInv, MoneyTyped, Settled
  <2>2. CASE d # s
    BY <1>4, <2>2 DEF MoneyInv, MoneyTyped, SettledOnce, Settled
  <2> QED
    BY <2>1, <2>2
<1>8. CashBack'
  BY <1>2, <1>3, <1>4 DEF MoneyInv, MoneyTyped, CashBack, Settled
<1> QED
  BY <1>1, <1>5, <1>6, <1>7, <1>8 DEF MoneyInv

LEMMA BackKeepsMoney ==
  ASSUME MoneyInv, NEW s \in Sales, NEW p \in Products, NEW n \in 1..MaxQty, Back(s, p, n)
  PROVE  MoneyInv'
<1>1. StockInv'
  BY BackKeepsStock DEF MoneyInv
<1>2. n \in Nat /\ refunded[s] \in Nat /\ refundedCash[s] \in Nat
  BY SaleAssumption DEF MoneyInv, MoneyTyped
<1>3. MoneyTyped'
  <2>1. PICK c \in {refundedCash[s], refundedCash[s] + n} : refundedCash' = [refundedCash EXCEPT ![s] = c]
    BY DEF Back
  <2>2. refundedCash' \in [Sales -> Nat]
    BY <1>2, <2>1 DEF MoneyInv, MoneyTyped
  <2> QED
    BY <1>2, <2>2 DEF MoneyInv, MoneyTyped, Back
<1>4. TotalKnown' /\ SettledOnce'
  BY DEF MoneyInv, TotalKnown, SettledOnce, Back
<1>5. CashBack'
  BY DEF MoneyInv, MoneyTyped, CashBack, Back
<1> QED
  BY <1>1, <1>3, <1>4, <1>5 DEF MoneyInv

LEMMA CorrectedKeepsMoney == ASSUME MoneyInv, NEW s \in Sales, Corrected(s) PROVE MoneyInv'
<1>1. StockInv'
  BY CorrectedKeepsStock DEF MoneyInv
<1> QED
  BY <1>1 DEF MoneyInv, MoneyTyped, TotalKnown, SettledOnce, CashBack, Corrected

LEMMA InitMoneyInv == Init => MoneyInv
<1> SUFFICES ASSUME Init PROVE MoneyInv
  OBVIOUS
<1>1. StockInv
  BY InitStockInv
<1>2. MoneyTyped /\ CashBack /\ SettledOnce
  BY DEF Init, MoneyTyped, CashBack, SettledOnce
<1>3. TotalKnown
  BY ZeroTyped DEF Init, TotalKnown
<1> QED
  BY <1>1, <1>2, <1>3 DEF MoneyInv

LEMMA StepMoneyInv == MoneyInv /\ [Next]_vars => MoneyInv'
<1> SUFFICES ASSUME MoneyInv, [Next]_vars PROVE MoneyInv'
  OBVIOUS
<1>1. CASE Next
  <2>1. Typed
    BY DEF MoneyInv, StockInv
  <2> QED
    BY <1>1, <2>1, StepIs, OnlyDraftsKeepMoney, LinesKeepMoney, SentKeepsMoney,
       SettledKeepsMoney, BackKeepsMoney, CorrectedKeepsMoney
<1>2. CASE UNCHANGED vars
  <2>1. StockInv'
    BY <1>2, StepStockInv DEF MoneyInv
  <2> QED
    BY <1>2, <2>1 DEF vars, sale, lines, money, returns, MoneyInv, MoneyTyped, TotalKnown,
                      SettledOnce, CashBack
<1> QED
  BY <1>1, <1>2

(* A completed order is settled once and in full, at the till or on a room.     *)
THEOREM SaleSettled == Spec => []SettledOnce
<1>1. MoneyInv => SettledOnce
  BY DEF MoneyInv
<1> QED
  BY <1>1, InitMoneyInv, StepMoneyInv, PTL DEF Spec

(* Neither goods nor money go back beyond what was sold and paid.               *)
THEOREM SaleRefunds == Spec => []RefundedWithinPaid
<1>1. MoneyInv => RefundedWithinPaid
  BY DEF MoneyInv, StockInv, ReturnedWithinSold, CashBack, RefundedWithinPaid
<1> QED
  BY <1>1, InitMoneyInv, StepMoneyInv, PTL DEF Spec

-----------------------------------------------------------------------------
(* Shifts *)

ShiftTyped ==
  /\ by \in [Sales -> Users \cup {NoOne}]
  /\ at \in [Sales -> Shifts \cup {None}]
  /\ shift \in [Shifts -> [st : {"NONE", "OPEN", "CLOSED"}, user : Users \cup {NoOne},
                           expected : Int, ignored : BOOLEAN, moved : Int]]
  /\ current \in [Users -> Sales \cup {None}]

(* A cashier has one open shift at most: open_shift refuses a second one.       *)
OneOpenShift == \A j, k \in Shifts :
  shift[j].st = "OPEN" /\ shift[k].st = "OPEN" /\ shift[j].user = shift[k].user => j = k

(* The shift of an order was opened.                                            *)
OnAShift == \A s \in Sales : at[s] # None => shift[at[s]].st \in {"OPEN", "CLOSED"}

(* Nothing is corrected after the close of a shift that is not closed.          *)
NoneMoved == \A k \in Shifts : shift[k].st # "CLOSED" => shift[k].moved = 0

ShiftInv == ShiftTyped /\ OneOpenShift /\ OnAShift /\ NoneMoved
DrawerInv == MoneyInv /\ ShiftInv /\ ReportStaysTrue /\ NothingStranded

(* The shift a request works on is open, and its user's.                        *)
LEMMA OnOpenShift ==
  ASSUME OneOpenShift, NEW u, OnShift(Rows, u)
  PROVE  LET k == SessionShift(Rows, u)
         IN  k \in Shifts /\ k # None /\ shift[k].st = "OPEN" /\ shift[k].user = u
<1>1. OpenShifts(Rows, u) = {k \in Shifts : shift[k].st = "OPEN" /\ shift[k].user = u}
  BY RowsAre DEF OpenShifts
<1>2. PICK k \in OpenShifts(Rows, u) : TRUE
  BY DEF OnShift
<1>3. \A j \in OpenShifts(Rows, u) : j <= k
  <2>1. \A j \in OpenShifts(Rows, u) : j = k
    BY <1>1, <1>2 DEF OneOpenShift
  <2>2. k \in Nat
    BY <1>1, <1>2, SaleAssumption
  <2> QED
    BY <2>1, <2>2
<1>4. SessionShift(Rows, u) \in OpenShifts(Rows, u)
  BY <1>2, <1>3 DEF SessionShift
<1> QED
  BY <1>1, <1>4, SaleAssumption

(* An open order with something in it.                                          *)
InUse(s) == status[s] = "DRAFT" /\ (sent[s] \/ \E p \in Products : qty[s][p] > 0)

(* A step that takes s to an open shift: it was a draft, or not made yet.       *)
ToOpen(s) ==
  /\ at'[s] \in Shifts /\ shift[at'[s]].st = "OPEN"
  /\ status[s] \in {"NONE", "DRAFT"}

(* A step that leaves s on its shift, and what the shift's report says of it.   *)
Stays(s) ==
  /\ at'[s] = at[s] /\ by'[s] = by[s]
  /\ paid'[s] = paid[s] /\ byBank'[s] = byBank[s] /\ refundedCash'[s] >= refundedCash[s]
  /\ InUse(s)' => InUse(s)

(* A step that opens and closes no shift.                                       *)
Placed ==
  /\ by' \in [Sales -> Users \cup {NoOne}]
  /\ at' \in [Sales -> Shifts \cup {None}]
  /\ \A s \in Sales : ToOpen(s) \/ Stays(s)
  /\ UNCHANGED shift

(* Drafts that are moved go to the open shift; the others stay.                 *)
LEMMA DraftsPlaced ==
  ASSUME ShiftTyped, NEW u \in Users, NEW k \in Shifts, shift[k].st = "OPEN",
         NEW new, NEW gone, NEW moved, Drafts(u, k, new, gone, moved),
         \A s \in moved : status[s] = "DRAFT"
  PROVE  /\ by' \in [Sales -> Users \cup {NoOne}]
         /\ at' \in [Sales -> Shifts \cup {None}]
         /\ \A s \in Sales : \/ ToOpen(s)
                             \/ /\ at'[s] = at[s] /\ by'[s] = by[s]
                                /\ status'[s] = "DRAFT" => status[s] = "DRAFT"
<1>1. /\ new # None => status[new] = "NONE"
      /\ status' = [s \in Sales |-> IF s = new THEN "DRAFT"
                                    ELSE IF s \in gone THEN "CANCELLED" ELSE status[s]]
      /\ by' = [s \in Sales |-> IF s = new THEN u ELSE by[s]]
      /\ at' = [s \in Sales |-> IF s = new \/ s \in moved THEN k ELSE at[s]]
  BY DEF Drafts
<1>2. by' \in [Sales -> Users \cup {NoOne}] /\ at' \in [Sales -> Shifts \cup {None}]
  BY <1>1 DEF ShiftTyped
<1>3. ASSUME NEW s \in Sales
      PROVE  \/ ToOpen(s)
             \/ /\ at'[s] = at[s] /\ by'[s] = by[s]
                /\ status'[s] = "DRAFT" => status[s] = "DRAFT"
  <2>1. s # None
    BY SaleAssumption
  <2>2. CASE s = new \/ s \in moved
    BY <1>1, <2>1, <2>2 DEF ToOpen
  <2>3. CASE ~(s = new \/ s \in moved)
    BY <1>1, <2>3
  <2> QED
    BY <2>2, <2>3
<1> QED
  BY <1>2, <1>3

(* A draft that a request touches is left on an open shift.                     *)
LEMMA DraftTaken ==
  ASSUME ShiftInv, NEW u \in Users, NEW k \in Shifts, k # None, shift[k].st = "OPEN",
         NEW s \in Sales, status[s] = "DRAFT",
         Drafts(u, k, None, {}, {d \in {s} : ShiftAfter(Rows, d, k) # at[d]})
  PROVE  ToOpen(s)
<1>1. at'[s] = IF ShiftAfter(Rows, s, k) # at[s] THEN k ELSE at[s]
  BY SaleAssumption DEF Drafts
<1>2. ShiftAfter(Rows, s, k) = IF at[s] = None THEN k
                               ELSE IF shift[at[s]].st = "CLOSED" THEN k ELSE at[s]
  BY RowsAre DEF ShiftAfter
<1>3. at[s] \in Shifts \cup {None} /\ (at[s] # None => shift[at[s]].st \in {"OPEN", "CLOSED"})
  BY DEF ShiftInv, ShiftTyped, OnAShift
<1> QED
  BY <1>1, <1>2, <1>3 DEF ToOpen

(* Requests that only open, cancel and move drafts keep the others in place.    *)
LEMMA DraftRequestsPlaced ==
  ASSUME Typed, MoneyTyped, ShiftInv, OnlyDrafts, UNCHANGED shift,
         NEW u \in Users, OnShift(Rows, u), NEW new, NEW gone, NEW moved,
         Drafts(u, SessionShift(Rows, u), new, gone, moved),
         \A s \in moved : status[s] = "DRAFT"
  PROVE  Placed
<1> DEFINE k == SessionShift(Rows, u)
<1>1. k \in Shifts /\ shift[k].st = "OPEN"
  BY OnOpenShift DEF ShiftInv
<1>2. Drafts(u, k, new, gone, moved)
  OBVIOUS
<1> HIDE DEF k
<1>3. /\ by' \in [Sales -> Users \cup {NoOne}]
      /\ at' \in [Sales -> Shifts \cup {None}]
      /\ \A s \in Sales : \/ ToOpen(s)
                          \/ /\ at'[s] = at[s] /\ by'[s] = by[s]
                             /\ status'[s] = "DRAFT" => status[s] = "DRAFT"
  BY <1>1, <1>2, DraftsPlaced DEF ShiftInv
<1>4. UNCHANGED <<sent, qty, paid, byBank, refundedCash>>
  BY DEF OnlyDrafts
<1>5. \A s \in Sales : refundedCash[s] >= refundedCash[s]
  BY DEF MoneyTyped
<1> QED
  BY <1>3, <1>4, <1>5 DEF Placed, Stays, InUse

(* Requests that leave every order as it is. *)
LEMMA NothingPlaced ==
  ASSUME MoneyTyped, ShiftTyped, UNCHANGED <<status, by, at, sent, qty, paid, byBank, refundedCash, shift>>
  PROVE  Placed
<1>1. \A s \in Sales : refundedCash[s] >= refundedCash[s]
  BY DEF MoneyTyped
<1> QED
  BY <1>1 DEF Placed, Stays, InUse, ShiftTyped

LEMMA DraftsAndShifts ==
  ASSUME Typed, MoneyTyped, ShiftInv,
         \/ \E u \in Users : Visit(Rows, u)
         \/ \E u \in Users, s \in Sales : NewOrder(Rows, u, s) \/ OpenOrder(Rows, u, s)
         \/ \E u \in Users, s \in Sales, others \in SUBSET Sales, new \in Sales \cup {None} :
              CancelOrder(Rows, u, s, others, new)
  PROVE  Placed
<1>1. OnlyDrafts
  BY DraftRequests
<1>2. ASSUME NEW u \in Users, Visit(Rows, u) PROVE Placed
  <2> DEFINE k == SessionShift(Rows, u)
             gone == StaleDrafts(Rows, u, k, Rows.current[u])
             moved == {s \in Sales \ gone : /\ IsDraft(Rows, s) /\ Rows.by[s] = u
                                            /\ Rows.at[s] # None
                                            /\ ShiftAfter(Rows, s, k) # Rows.at[s]}
  <2>1. OnShift(Rows, u) /\ Drafts(u, k, None, gone, moved) /\ UNCHANGED shift
    BY <1>2 DEF Visit
  <2>2. \A s \in moved : status[s] = "DRAFT"
    BY RowsAre DEF IsDraft
  <2> QED
    BY <1>1, <2>1, <2>2, DraftRequestsPlaced
<1>3. ASSUME NEW u \in Users, NEW n \in Sales, NewOrder(Rows, u, n) PROVE Placed
  <2> DEFINE k == SessionShift(Rows, u)
             cur == Rows.current[u]
             moved == {s \in {cur} : IsDraft(Rows, s) /\ ShiftAfter(Rows, s, k) # Rows.at[s]}
  <2>1. PICK gone : Drafts(u, k, n, gone, moved)
    BY <1>3 DEF NewOrder
  <2>2. OnShift(Rows, u) /\ UNCHANGED shift
    BY <1>3 DEF NewOrder
  <2>3. \A s \in moved : status[s] = "DRAFT"
    BY RowsAre DEF IsDraft
  <2> QED
    BY <1>1, <2>1, <2>2, <2>3, DraftRequestsPlaced
<1>4. ASSUME NEW u \in Users, NEW s \in Sales, OpenOrder(Rows, u, s) PROVE Placed
  BY <1>4, NothingPlaced DEF OpenOrder, sale, lines, money, returns, ShiftInv
<1>5. ASSUME NEW u \in Users, NEW s \in Sales, NEW others \in SUBSET Sales,
             NEW new \in Sales \cup {None}, CancelOrder(Rows, u, s, others, new)
      PROVE  Placed
  <2>1. /\ OnShift(Rows, u) /\ UNCHANGED shift
        /\ Drafts(u, SessionShift(Rows, u), new, others \cup {s}, {})
    BY <1>5 DEF CancelOrder
  <2> QED
    BY <1>1, <2>1, DraftRequestsPlaced
<1> QED
  BY <1>2, <1>3, <1>4, <1>5

(* A request that changes the lines of one draft, or sends it, leaves it on an  *)
(* open shift.                                                                  *)
LEMMA OneDraftPlaced ==
  ASSUME MoneyTyped, ShiftTyped, NEW u \in Users, NEW k \in Shifts, shift[k].st = "OPEN",
         NEW new, NEW moved, Drafts(u, k, new, {}, moved), \A d \in moved : status[d] = "DRAFT",
         NEW s \in Sales, ToOpen(s), UNCHANGED <<paid, byBank, refundedCash, shift>>,
         \A d \in Sales \ {s} : sent'[d] = sent[d] /\ qty'[d] = qty[d]
  PROVE  Placed
<1>1. /\ by' \in [Sales -> Users \cup {NoOne}]
      /\ at' \in [Sales -> Shifts \cup {None}]
      /\ \A d \in Sales : \/ ToOpen(d)
                          \/ /\ at'[d] = at[d] /\ by'[d] = by[d]
                             /\ status'[d] = "DRAFT" => status[d] = "DRAFT"
  BY DraftsPlaced
<1>2. \A d \in Sales : refundedCash[d] >= refundedCash[d]
  BY DEF MoneyTyped
<1>3. ASSUME NEW d \in Sales PROVE ToOpen(d) \/ Stays(d)
  <2>1. CASE d = s
    BY <2>1
  <2>2. CASE d # s
    BY <1>1, <1>2, <2>2 DEF Stays, InUse
  <2> QED
    BY <2>1, <2>2
<1> QED
  BY <1>1, <1>3 DEF Placed

LEMMA AddLinePlaced ==
  ASSUME Typed, MoneyTyped, ShiftInv, NEW u \in Users, NEW s \in Sales, NEW p \in Products,
         NEW n \in 1..MaxQty, AddLine(Rows, u, s, p, n)
  PROVE  Placed
<1> DEFINE k == SessionShift(Rows, u)
           new == IF IsDraft(Rows, s) THEN None ELSE s
           moved == {d \in {s} : IsDraft(Rows, d) /\ ShiftAfter(Rows, d, k) # Rows.at[d]}
<1>1. k \in Shifts /\ k # None /\ shift[k].st = "OPEN"
  BY OnOpenShift DEF ShiftInv, AddLine
<1>2. Drafts(u, k, new, {}, moved) /\ UNCHANGED <<paid, byBank, refundedCash, shift>>
  BY DEF AddLine, money, returns
<1>3. \A d \in moved : status[d] = "DRAFT"
  BY RowsAre DEF IsDraft
<1>4. IsDraft(Rows, s) <=> status[s] = "DRAFT"
  BY RowsAre DEF IsDraft
<1>5. ToOpen(s)
  <2>1. CASE status[s] = "DRAFT"
    <3>1. new = None /\ moved = {d \in {s} : ShiftAfter(Rows, d, k) # at[d]}
      BY <1>4, <2>1, RowsAre
    <3> HIDE DEF k, new, moved
    <3>2. Drafts(u, k, None, {}, {d \in {s} : ShiftAfter(Rows, d, k) # at[d]})
      BY <1>2, <3>1
    <3> QED
      BY <1>1, <2>1, <3>2, DraftTaken
  <2>2. CASE status[s] # "DRAFT"
    <3>1. new = s /\ s # None
      BY <1>4, <2>2, SaleAssumption
    <3> HIDE DEF k, new, moved
    <3> QED
      BY <1>1, <1>2, <3>1 DEF Drafts, ToOpen
  <2> QED
    BY <2>1, <2>2
<1>6. PICK q : LinesAdded(s, p, q)
  BY AddLineWrites
<1>7. \A d \in Sales \ {s} : sent'[d] = sent[d] /\ qty'[d] = qty[d]
  BY <1>6 DEF LinesAdded, Typed
<1> HIDE DEF k, new, moved
<1> QED
  BY <1>1, <1>2, <1>3, <1>5, <1>7, OneDraftPlaced DEF ShiftInv

LEMMA ReduceLinePlaced ==
  ASSUME Typed, MoneyTyped, ShiftInv, NEW u \in Users, NEW p \in Products,
         NEW n \in 1..MaxQty, ReduceLine(Rows, u, p, n)
  PROVE  Placed
<1> DEFINE s == current[u]
           k == SessionShift(Rows, u)
           moved == {d \in {s} : ShiftAfter(Rows, d, k) # at[d]}
<1>1. k \in Shifts /\ k # None /\ shift[k].st = "OPEN"
  BY OnOpenShift DEF ShiftInv, ReduceLine
<1>2. s \in Sales /\ status[s] = "DRAFT"
  BY RowsAre DEF ReduceLine, IsDraft
<1>3. Drafts(u, k, None, {}, moved) /\ UNCHANGED <<paid, byBank, refundedCash, shift, sent>>
  BY RowsAre DEF ReduceLine, money, returns
<1>4. \A d \in Sales \ {s} : sent'[d] = sent[d] /\ qty'[d] = qty[d]
  <2>1. qty' = [qty EXCEPT ![s][p] = qty'[s][p]]
    BY <1>2, RowsAre DEF ReduceLine, Typed
  <2> QED
    BY <1>3, <2>1 DEF Typed
<1> HIDE DEF s, k
<1>5. ToOpen(s)
  BY <1>1, <1>2, <1>3, DraftTaken
<1>6. \A d \in moved : status[d] = "DRAFT"
  BY <1>2
<1> HIDE DEF moved
<1> QED
  BY <1>1, <1>2, <1>3, <1>4, <1>5, <1>6, OneDraftPlaced DEF ShiftInv

LEMMA SendPlaced ==
  ASSUME Typed, MoneyTyped, ShiftInv, NEW u \in Users, NEW s \in Sales,
         SendToKitchen(Rows, u, s)
  PROVE  Placed
<1> DEFINE k == SessionShift(Rows, u)
           moved == {d \in {s} : ShiftAfter(Rows, d, k) # at[d]}
<1>1. k \in Shifts /\ k # None /\ shift[k].st = "OPEN"
  BY OnOpenShift DEF ShiftInv, SendToKitchen
<1>2. status[s] = "DRAFT"
  BY RowsAre DEF SendToKitchen, Unsent, IsDraft
<1>3. Drafts(u, k, None, {}, moved) /\ UNCHANGED <<paid, byBank, refundedCash, shift, qty>>
  BY RowsAre DEF SendToKitchen, money, returns
<1>4. \A d \in Sales \ {s} : sent'[d] = sent[d] /\ qty'[d] = qty[d]
  BY <1>3 DEF SendToKitchen, Typed
<1> HIDE DEF k
<1>5. ToOpen(s)
  BY <1>1, <1>2, <1>3, DraftTaken
<1>6. \A d \in moved : status[d] = "DRAFT"
  BY <1>2
<1> HIDE DEF moved
<1> QED
  BY <1>1, <1>3, <1>4, <1>5, <1>6, OneDraftPlaced DEF ShiftInv

(* An order is paid on the open shift of whoever pays it, and so is the draft   *)
(* that follows it.                                                             *)
LEMMA PayPlaced ==
  ASSUME Typed, MoneyTyped, ShiftInv, NEW u \in Users, NEW new \in Sales \cup {None},
         Checkout(Rows, u, new) \/ ChargeRoom(Rows, u, new)
  PROVE  Placed
<1> DEFINE s == current[u]
           k == SessionShift(Rows, u)
<1>1. k \in Shifts /\ shift[k].st = "OPEN"
  BY OnOpenShift DEF ShiftInv, Checkout, ChargeRoom
<1>2. /\ MayPay(Rows, s) /\ Complete(Rows, u, k, s, new)
      /\ paid' = [paid EXCEPT ![s] = paid[s] + total[s]] \/ UNCHANGED paid
      /\ UNCHANGED byBank \/ \E bank \in MayBeBank(s) : byBank' = [byBank EXCEPT ![s] = bank]
      /\ UNCHANGED <<sent, qty, refundedCash, shift>>
  BY RowsAre DEF Checkout, ChargeRoom, lines, returns
<1> HIDE DEF k
<1>3. s \in Sales /\ status[s] = "DRAFT"
  BY <1>2, RowsAre DEF MayPay, IsDraft
<1> HIDE DEF s
<1>4. /\ new # None => status[new] = "NONE"
      /\ status' = [d \in Sales |-> IF d = s THEN "COMPLETED"
                                    ELSE IF d = new THEN "DRAFT" ELSE status[d]]
      /\ by' = [d \in Sales |-> IF d = new THEN u ELSE by[d]]
      /\ at' = [d \in Sales |-> IF d = s \/ d = new THEN k ELSE at[d]]
  BY <1>2, RowsAre DEF Complete, Written
<1>5. by' \in [Sales -> Users \cup {NoOne}] /\ at' \in [Sales -> Shifts \cup {None}]
  BY <1>1, <1>4 DEF ShiftInv, ShiftTyped
<1>6. ASSUME NEW d \in Sales PROVE ToOpen(d) \/ Stays(d)
  <2>1. d # None /\ refundedCash[d] >= refundedCash[d]
    BY SaleAssumption DEF MoneyTyped
  <2>2. CASE d = s \/ d = new
    BY <1>1, <1>3, <1>4, <2>1, <2>2 DEF ToOpen
  <2>3. CASE ~(d = s \/ d = new)
    <3>1. paid'[d] = paid[d]
      BY <1>2, <2>3 DEF MoneyTyped
    <3>2. byBank'[d] = byBank[d]
      BY <1>2, <2>3 DEF Typed
    <3> QED
      BY <1>2, <1>4, <2>1, <2>3, <3>1, <3>2 DEF Stays, InUse
  <2> QED
    BY <2>2, <2>3
<1> QED
  BY <1>2, <1>5, <1>6 DEF Placed

LEMMA RefundPlaced ==
  ASSUME MoneyTyped, ShiftTyped, NEW u \in Users, NEW s \in Sales, NEW p \in Products,
         NEW n \in 1..MaxQty, Refund(Rows, u, s, p, n)
  PROVE  Placed
<1>1. UNCHANGED <<status, by, at, sent, qty, paid, byBank, shift>>
  BY DEF Refund, lines, money
<1>2. PICK c \in {refundedCash[s], refundedCash[s] + n} : refundedCash' = [refundedCash EXCEPT ![s] = c]
  BY RowsAre DEF Refund
<1>3. \A d \in Sales : refundedCash[d] \in Nat /\ n \in Nat
  BY SaleAssumption DEF MoneyTyped
<1>4. \A d \in Sales : refundedCash'[d] >= refundedCash[d]
  BY <1>2, <1>3 DEF MoneyTyped
<1> QED
  BY <1>1, <1>4 DEF Placed, Stays, InUse, ShiftTyped

-----------------------------------------------------------------------------
(* The reports of closed shifts *)

(* A column of the sales of shift k, over all sales.                            *)
OnShiftOnly(a, m, k) == [s \in Sales |-> IF a[s] = k THEN m[s] ELSE 0]

LEMMA CashOfShift ==
  ASSUME NEW a, NEW m \in [Sales -> Nat], NEW k
  PROVE  /\ SumFunctionOnSet(m, {s \in Sales : a[s] = k})
              = SumFunctionOnSet(OnShiftOnly(a, m, k), Sales)
         /\ SumFunctionOnSet(OnShiftOnly(a, m, k), Sales) \in Nat
<1> DEFINE S == {s \in Sales : a[s] = k}
<1>1. IsFiniteSet(Sales)
  BY SaleAssumption
<1>2. [s \in Sales |-> IF s \in S THEN m[s] ELSE 0] = OnShiftOnly(a, m, k)
  BY DEF OnShiftOnly
<1>3. S \in SUBSET Sales /\ \A s \in S : m[s] \in Int
  OBVIOUS
<1>4. \A s \in Sales : OnShiftOnly(a, m, k)[s] \in Nat
  BY DEF OnShiftOnly
<1> HIDE DEF S
<1>5. SumFunctionOnSet(m, S) = SumFunctionOnSet([s \in Sales |-> IF s \in S THEN m[s] ELSE 0], Sales)
  BY <1>1, <1>3, SumOfPart
<1>6. SumFunctionOnSet(OnShiftOnly(a, m, k), Sales) \in Nat
  BY <1>1, <1>4, SumNat
<1> QED
  BY <1>2, <1>5, <1>6 DEF S

(* What an order has brought into the drawer.                                   *)
Cash == [s \in Sales |-> IF byBank[s] THEN 0 ELSE paid[s]]

LEMMA CashTyped == ASSUME MoneyTyped PROVE Cash \in [Sales -> Nat]
  BY DEF MoneyTyped, Cash

(* What compute_expected_cash adds up, before a step and after it.              *)
LEMMA CashIs ==
  ASSUME MoneyTyped, MoneyTyped', NEW k
  PROVE  /\ Takings(Rows, k) = SumFunctionOnSet(OnShiftOnly(at, Cash, k), Sales)
         /\ Refunds(Rows, k) = SumFunctionOnSet(OnShiftOnly(at, refundedCash, k), Sales)
         /\ Takings(Rows, k)' = SumFunctionOnSet(OnShiftOnly(at', Cash', k), Sales)
         /\ Refunds(Rows, k)' = SumFunctionOnSet(OnShiftOnly(at', refundedCash', k), Sales)
         /\ Takings(Rows, k) \in Nat /\ Refunds(Rows, k) \in Nat
         /\ Takings(Rows, k)' \in Nat /\ Refunds(Rows, k)' \in Nat
<1>1. /\ Takings(Rows, k) = SumFunctionOnSet(Cash, {s \in Sales : at[s] = k})
      /\ Refunds(Rows, k) = SumFunctionOnSet(refundedCash, {s \in Sales : at[s] = k})
  BY RowsAre DEF Takings, Refunds, CashPaid, Cash
<1>2. /\ Takings(Rows, k)' = SumFunctionOnSet(Cash', {s \in Sales : at'[s] = k})
      /\ Refunds(Rows, k)' = SumFunctionOnSet(refundedCash', {s \in Sales : at'[s] = k})
  BY DEF Takings, Refunds, CashPaid, Cash, Rows
<1>3. /\ Cash \in [Sales -> Nat] /\ refundedCash \in [Sales -> Nat]
      /\ Cash' \in [Sales -> Nat] /\ refundedCash' \in [Sales -> Nat]
  BY DEF MoneyTyped, Cash
<1> DEFINE Same(a, m) == /\ SumFunctionOnSet(m, {s \in Sales : a[s] = k})
                               = SumFunctionOnSet(OnShiftOnly(a, m, k), Sales)
                         /\ SumFunctionOnSet(OnShiftOnly(a, m, k), Sales) \in Nat
<1>4. \A a : \A m \in [Sales -> Nat] : Same(a, m)
  BY CashOfShift
<1>5. Same(at, Cash) /\ Same(at, refundedCash)
  BY <1>3, <1>4
<1>6. Same(at', Cash') /\ Same(at', refundedCash')
  BY <1>3, <1>4
<1> QED
  BY <1>1, <1>2, <1>5, <1>6

(* An order that is not completed has no money in the drawer's report.          *)
LEMMA OpenOrdersOweNothing ==
  ASSUME MoneyInv, NEW s \in Sales, status[s] \in {"NONE", "DRAFT"}
  PROVE  Cash[s] = 0 /\ refundedCash[s] = 0
<1>1. paid[s] = 0 /\ refunded[s] = 0 /\ refundedCash[s] <= refunded[s]
  BY DEF MoneyInv, SettledOnce, CashBack
<1>2. refundedCash[s] \in Nat
  BY DEF MoneyInv, MoneyTyped
<1> QED
  BY <1>1, <1>2 DEF Cash

(* A step that opens and closes no shift leaves the cash closed shifts took as  *)
(* it was, and takes none of their refunds back.                                *)
LEMMA PlacedKeepsReports ==
  ASSUME MoneyInv, MoneyInv', ShiftInv, ReportStaysTrue, Placed
  PROVE  ReportStaysTrue'
<1> SUFFICES ASSUME NEW k \in Shifts, shift[k].st = "CLOSED"
             PROVE  shift[k].expected - shift[k].moved \in ExpectedCash(Rows, k)' .. Takings(Rows, k)'
  BY DEF ReportStaysTrue, Placed
<1>0. MoneyTyped /\ MoneyTyped' /\ IsFiniteSet(Sales)
  BY SaleAssumption DEF MoneyInv
<1>1. shift[k].expected - shift[k].moved \in ExpectedCash(Rows, k) .. Takings(Rows, k)
  BY DEF ReportStaysTrue
<1>2. ASSUME NEW s \in Sales
      PROVE  /\ OnShiftOnly(at', Cash', k)[s] = OnShiftOnly(at, Cash, k)[s]
             /\ OnShiftOnly(at, refundedCash, k)[s] \in Int
             /\ OnShiftOnly(at', refundedCash', k)[s] \in Int
             /\ OnShiftOnly(at, refundedCash, k)[s] <= OnShiftOnly(at', refundedCash', k)[s]
  <2>1. refundedCash[s] \in Nat /\ refundedCash'[s] \in Nat
    BY <1>0 DEF MoneyTyped
  <2>2. CASE ToOpen(s)
    BY <2>1, <2>2, OpenOrdersOweNothing DEF ToOpen, OnShiftOnly
  <2>3. CASE Stays(s)
    <3>1. Cash'[s] = Cash[s]
      BY <2>3 DEF Stays, Cash
    <3> QED
      BY <2>1, <2>3, <3>1 DEF Stays, OnShiftOnly
  <2> QED
    BY <2>2, <2>3 DEF Placed
<1>3. Takings(Rows, k)' = Takings(Rows, k)
  BY <1>0, <1>2, SumSame, CashIs
<1>4. Refunds(Rows, k) <= Refunds(Rows, k)'
  <2>1. SumFunctionOnSet(OnShiftOnly(at, refundedCash, k), Sales)
          <= SumFunctionOnSet(OnShiftOnly(at', refundedCash', k), Sales)
    BY <1>0, <1>2, SumAtMost
  <2> QED
    BY <1>0, <2>1, CashIs
<1>5. /\ Takings(Rows, k) \in Nat /\ Refunds(Rows, k) \in Nat
      /\ Takings(Rows, k)' \in Nat /\ Refunds(Rows, k)' \in Nat
  BY <1>0, CashIs
<1>6. shift[k].expected \in Int /\ shift[k].moved \in Int
  BY DEF ShiftInv, ShiftTyped
<1>7. /\ ExpectedCash(Rows, k) = Takings(Rows, k) - Refunds(Rows, k)
      /\ ExpectedCash(Rows, k)' = Takings(Rows, k)' - Refunds(Rows, k)'
  BY DEF ExpectedCash
<1> QED
  BY <1>1, <1>3, <1>4, <1>5, <1>6, <1>7

LEMMA PlacedKeepsDrawer ==
  ASSUME DrawerInv, MoneyInv', Placed, current' \in [Users -> Sales \cup {None}]
  PROVE  DrawerInv'
<1>0. MoneyInv /\ ShiftInv /\ ReportStaysTrue
  BY DEF DrawerInv
<1>1. ReportStaysTrue'
  BY <1>0, PlacedKeepsReports
<1>2. ShiftTyped' /\ OneOpenShift' /\ NoneMoved'
  BY <1>0 DEF Placed, ShiftInv, ShiftTyped, OneOpenShift, NoneMoved
<1>3. OnAShift'
  BY <1>0 DEF Placed, ShiftInv, OnAShift, ToOpen, Stays
<1>4. NothingStranded'
  <2> SUFFICES ASSUME NEW s \in Sales, InUse(s)', at'[s] # None, by'[s] = shift[at'[s]].user
               PROVE  shift[at'[s]].st = "OPEN" \/ shift[at'[s]].ignored
    BY DEF NothingStranded, InUse, HasLines, Rows, Placed
  <2>1. CASE ToOpen(s)
    BY <2>1 DEF ToOpen
  <2>2. CASE Stays(s)
    <3>1. InUse(s) /\ at[s] # None /\ by[s] = shift[at[s]].user
      BY <2>2 DEF Stays
    <3>2. HasLines(Rows, s) <=> \E p \in Products : qty[s][p] > 0
      BY RowsAre DEF HasLines
    <3>3. shift[at[s]].st = "OPEN" \/ shift[at[s]].ignored
      BY <3>1, <3>2 DEF DrawerInv, NothingStranded, InUse
    <3> QED
      BY <2>2, <3>3 DEF Stays
  <2> QED
    BY <2>1, <2>2 DEF Placed
<1> QED
  BY <1>1, <1>2, <1>3, <1>4 DEF DrawerInv, ShiftInv

LEMMA OpenKeepsDrawer ==
  ASSUME DrawerInv, MoneyInv', NEW u \in Users, NEW k \in Shifts, OpenShift(Rows, u, k)
  PROVE  DrawerInv'
<1>0. MoneyInv /\ ShiftInv
  BY DEF DrawerInv
<1>1. /\ shift[k] = NoShift /\ UNCHANGED <<sale, current>>
      /\ shift' = [shift EXCEPT ![k] = [st |-> "OPEN", user |-> u, expected |-> 0, ignored |-> FALSE,
                                        moved |-> 0]]
  BY DEF OpenShift
<1>2. UNCHANGED <<status, by, at, sent, qty, paid, byBank, refundedCash>>
  BY <1>1 DEF sale, lines, money, returns
<1>3. ~ \E j \in Shifts : shift[j].st = "OPEN" /\ shift[j].user = u
  BY RowsAre DEF OpenShift, OnShift, OpenShifts
<1>4. ShiftTyped' /\ OneOpenShift' /\ OnAShift' /\ NoneMoved'
  <2>1. ShiftTyped'
    BY <1>0, <1>1, <1>2 DEF ShiftInv, ShiftTyped
  <2>2. OneOpenShift'
    BY <1>0, <1>1, <1>3 DEF ShiftInv, ShiftTyped, OneOpenShift
  <2>3. OnAShift'
    BY <1>0, <1>1, <1>2 DEF ShiftInv, ShiftTyped, OnAShift
  <2>4. NoneMoved'
    BY <1>0, <1>1 DEF ShiftInv, ShiftTyped, NoneMoved
  <2> QED
    BY <2>1, <2>2, <2>3, <2>4
<1>5. ReportStaysTrue'
  <2> SUFFICES ASSUME NEW j \in Shifts, shift'[j].st = "CLOSED"
               PROVE  shift'[j].expected - shift'[j].moved
                        \in ExpectedCash(Rows, j)' .. Takings(Rows, j)'
    BY DEF ReportStaysTrue
  <2>1. j # k /\ shift'[j] = shift[j]
    BY <1>0, <1>1 DEF ShiftInv, ShiftTyped
  <2>2. Takings(Rows, j)' = Takings(Rows, j) /\ ExpectedCash(Rows, j)' = ExpectedCash(Rows, j)
    BY <1>2, RowsAre DEF Takings, Refunds, ExpectedCash, CashPaid, Rows
  <2> QED
    BY <2>1, <2>2 DEF DrawerInv, ReportStaysTrue
<1>6. NothingStranded'
  <2> SUFFICES ASSUME NEW s \in Sales, InUse(s), at[s] # None, by[s] = shift'[at[s]].user
               PROVE  shift'[at[s]].st = "OPEN" \/ shift'[at[s]].ignored
    BY <1>2 DEF NothingStranded, InUse, HasLines, Rows
  <2>1. CASE at[s] = k
    BY <1>0, <1>1, <2>1 DEF ShiftInv, ShiftTyped
  <2>2. CASE at[s] # k
    <3>1. shift'[at[s]] = shift[at[s]]
      BY <1>0, <1>1, <2>2 DEF ShiftInv, ShiftTyped
    <3>2. HasLines(Rows, s) <=> \E p \in Products : qty[s][p] > 0
      BY RowsAre DEF HasLines
    <3> QED
      BY <3>1, <3>2 DEF DrawerInv, NothingStranded, InUse
  <2> QED
    BY <2>1, <2>2
<1> QED
  BY <1>4, <1>5, <1>6 DEF DrawerInv, ShiftInv

(* A shift is closed with the cash its sales explain; what an administrator     *)
(* leaves open on it he chose to ignore.                                        *)
LEMMA FinalizeKeepsDrawer ==
  ASSUME DrawerInv, MoneyInv', NEW k \in Shifts, shift[k].st = "OPEN", NEW ignored \in BOOLEAN,
         Finalize(Rows, k, ignored), UNCHANGED <<by, at, sent, qty, paid, byBank, refundedCash, current>>,
         \A s \in Sales : InUse(s)' => InUse(s),
         \A s \in Sales : InUse(s)' /\ at[s] = k /\ by[s] = shift[k].user => ignored
  PROVE  DrawerInv'
<1>0. MoneyInv /\ ShiftInv /\ MoneyTyped /\ MoneyTyped'
  BY DEF DrawerInv, MoneyInv
<1>1. \A j \in Shifts : /\ Takings(Rows, j)' = Takings(Rows, j)
                        /\ ExpectedCash(Rows, j)' = ExpectedCash(Rows, j)
  BY RowsAre DEF Takings, Refunds, ExpectedCash, CashPaid, Rows
<1>2. /\ Takings(Rows, k) \in Nat /\ Refunds(Rows, k) \in Nat
      /\ ExpectedCash(Rows, k) = Takings(Rows, k) - Refunds(Rows, k)
  BY <1>0, CashIs DEF ExpectedCash
<1>3. /\ \A j \in Shifts \ {k} : shift'[j] = shift[j]
      /\ shift'[k].st = "CLOSED" /\ shift'[k].user = shift[k].user
      /\ shift'[k].expected = ExpectedCash(Rows, k) /\ shift'[k].ignored = ignored
      /\ shift'[k].moved = 0
      /\ shift' \in [Shifts -> [st : {"NONE", "OPEN", "CLOSED"}, user : Users \cup {NoOne},
                                expected : Int, ignored : BOOLEAN, moved : Int]]
  <2>1. shift \in [Shifts -> [st : {"NONE", "OPEN", "CLOSED"}, user : Users \cup {NoOne},
                              expected : Int, ignored : BOOLEAN, moved : Int]]
    BY <1>0 DEF ShiftInv, ShiftTyped
  <2>2. ExpectedCash(Rows, k) \in Int /\ shift[k].moved = 0
    BY <1>0, <1>2 DEF ShiftInv, NoneMoved
  <2>3. shift' = [shift EXCEPT ![k] = [shift[k] EXCEPT !.st = "CLOSED", !.expected = ExpectedCash(Rows, k),
                                                       !.ignored = ignored]]
    BY DEF Finalize
  <2> QED
    BY <2>1, <2>2, <2>3
<1>4. ShiftTyped' /\ OneOpenShift' /\ OnAShift' /\ NoneMoved'
  <2>1. ShiftTyped'
    BY <1>0, <1>3 DEF ShiftInv, ShiftTyped
  <2>2. OneOpenShift'
    BY <1>0, <1>3 DEF ShiftInv, OneOpenShift
  <2>3. OnAShift'
    BY <1>0, <1>3 DEF ShiftInv, ShiftTyped, OnAShift
  <2>4. NoneMoved'
    BY <1>0, <1>3 DEF ShiftInv, NoneMoved
  <2> QED
    BY <2>1, <2>2, <2>3, <2>4
<1>5. ReportStaysTrue'
  <2> SUFFICES ASSUME NEW j \in Shifts, shift'[j].st = "CLOSED"
               PROVE  shift'[j].expected - shift'[j].moved
                        \in ExpectedCash(Rows, j) .. Takings(Rows, j)
    BY <1>1 DEF ReportStaysTrue
  <2>1. CASE j = k
    BY <1>2, <1>3, <2>1
  <2>2. CASE j # k
    BY <1>3, <2>2 DEF DrawerInv, ReportStaysTrue
  <2> QED
    BY <2>1, <2>2
<1>6. NothingStranded'
  <2> SUFFICES ASSUME NEW s \in Sales, InUse(s)', at[s] # None, by[s] = shift'[at[s]].user
               PROVE  shift'[at[s]].st = "OPEN" \/ shift'[at[s]].ignored
    BY DEF NothingStranded, InUse, HasLines, Rows
  <2>1. CASE at[s] = k
    BY <1>3, <2>1
  <2>2. CASE at[s] # k
    <3>1. shift'[at[s]] = shift[at[s]]
      BY <1>0, <1>3, <2>2 DEF ShiftInv, ShiftTyped
    <3>2. HasLines(Rows, s) <=> \E p \in Products : qty[s][p] > 0
      BY RowsAre DEF HasLines
    <3> QED
      BY <3>1, <3>2 DEF DrawerInv, NothingStranded, InUse
  <2> QED
    BY <2>1, <2>2
<1> QED
  BY <1>4, <1>5, <1>6 DEF DrawerInv, ShiftInv

LEMMA CloseKeepsDrawer ==
  ASSUME DrawerInv, MoneyInv', NEW u \in Users, NEW k \in Shifts, CloseShift(Rows, u, k)
  PROVE  DrawerInv'
<1>1. /\ Finalize(Rows, k, FALSE) /\ shift[k].st = "OPEN" /\ shift[k].user = u
      /\ OpenDrafts(Rows, u, k) = {} /\ UNCHANGED <<status, by, at, sent, qty, paid, byBank, refundedCash, current>>
  BY RowsAre DEF CloseShift, OpenShifts, sale, lines, money, returns
<1>2. \A s \in Sales : InUse(s)' => InUse(s)
  BY <1>1 DEF InUse
<1>3. \A s \in Sales : ~(InUse(s) /\ at[s] = k /\ by[s] = u)
  BY <1>1, RowsAre DEF OpenDrafts, InUse, HasLines, IsDraft
<1> QED
  BY <1>1, <1>2, <1>3, FinalizeKeepsDrawer

LEMMA AdminKeepsDrawer ==
  ASSUME DrawerInv, MoneyInv', NEW k \in Shifts, AdminClose(Rows, k)
  PROVE  DrawerInv'
<1> DEFINE u == Rows.shift[k].user
           open == OpenDrafts(Rows, u, k)
<1>1. PICK safe \in {{}, {s \in open : ~Rows.sent[s]}} :
        Drafts(u, k, None, safe, {}) /\ Finalize(Rows, k, open \ safe # {})
  BY DEF AdminClose
<1>2. shift[k].st = "OPEN" /\ u = shift[k].user /\ UNCHANGED <<sent, qty, paid, byBank, refundedCash, current>>
  BY RowsAre DEF AdminClose, lines, money, returns
<1>3. /\ UNCHANGED <<by, at>>
      /\ status' = [s \in Sales |-> IF s \in safe THEN "CANCELLED" ELSE status[s]]
  <2>1. \A s \in Sales : s # None
    BY SaleAssumption
  <2> QED
    BY <1>1, <2>1 DEF Drafts, DrawerInv, ShiftInv, ShiftTyped
<1>4. open = {s \in Sales : InUse(s) /\ by[s] = u /\ at[s] \in {k, None}}
  BY RowsAre DEF OpenDrafts, InUse, HasLines, IsDraft
<1> HIDE DEF u, open
<1>5. \A s \in Sales : InUse(s)' => InUse(s) /\ s \notin safe
  BY <1>2, <1>3 DEF InUse
<1>6. \A s \in Sales : InUse(s)' /\ at[s] = k /\ by[s] = shift[k].user => open \ safe # {}
  BY <1>2, <1>4, <1>5
<1> QED
  BY <1>1, <1>2, <1>3, <1>5, <1>6, FinalizeKeepsDrawer

(* What a shift took when one order of it brought d more than before.           *)
LEMMA CorrectedTakings ==
  ASSUME MoneyTyped, MoneyTyped', NEW s \in Sales, NEW d \in Int, UNCHANGED at,
         Cash'[s] = Cash[s] + d, \A r \in Sales \ {s} : Cash'[r] = Cash[r], NEW k
  PROVE  Takings(Rows, k)' = Takings(Rows, k) + IF k = at[s] THEN d ELSE 0
<1> DEFINE f == OnShiftOnly(at, Cash, k)
           g == OnShiftOnly(at', Cash', k)
<1>1. Cash \in [Sales -> Nat] /\ Cash' \in [Sales -> Nat] /\ IsFiniteSet(Sales)
  BY SaleAssumption DEF MoneyTyped, Cash
<1>2. f \in [Sales -> Int] /\ g \in [Sales -> Int] /\ \A r \in Sales \ {s} : g[r] = f[r]
  BY <1>1 DEF OnShiftOnly
<1>3. g[s] = f[s] + IF k = at[s] THEN d ELSE 0
  BY <1>1 DEF OnShiftOnly
<1>4. Takings(Rows, k) = SumFunctionOnSet(f, Sales) /\ Takings(Rows, k)' = SumFunctionOnSet(g, Sales)
      /\ Takings(Rows, k) \in Nat
  BY CashIs
<1> HIDE DEF f, g
<1>5. SumFunctionOnSet(g, Sales) = SumFunctionOnSet(f, Sales) - f[s] + g[s]
  BY <1>1, <1>2, SumAt
<1>6. f[s] \in Int
  BY <1>2
<1> QED
  BY <1>3, <1>4, <1>5, <1>6

(* A correction moves what the order took, all of it, between cash and bank, and *)
(* counts it with the closed shift of the order.                                *)
LEMMA CorrectKeepsDrawer ==
  ASSUME DrawerInv, MoneyInv', NEW s \in Sales, CorrectPayment(Rows, s)
  PROVE  DrawerInv'
<1>0. MoneyInv /\ ShiftInv /\ MoneyTyped /\ MoneyTyped' /\ ShiftTyped /\ Typed
  BY DEF DrawerInv, MoneyInv, ShiftInv, StockInv
<1> DEFINE d == Cash'[s] - Cash[s]
<1>1. /\ byBank' = [byBank EXCEPT ![s] = ~byBank[s]]
      /\ shift' = [k \in Shifts |->
           IF k = at[s] /\ shift[k].st = "CLOSED"
           THEN [shift[k] EXCEPT !.moved = shift[k].moved + IF byBank[s] THEN -paid[s] ELSE paid[s]]
           ELSE shift[k]]
      /\ UNCHANGED <<status, by, at, sent, qty, paid, refundedCash, current>>
  BY RowsAre DEF CorrectPayment, lines, returns
<1>2. paid[s] \in Nat
  BY <1>0 DEF MoneyTyped
<1>3. /\ d \in Int /\ Cash[s] \in Int /\ Cash'[s] = Cash[s] + d
      /\ (IF byBank[s] THEN -paid[s] ELSE paid[s]) = -d
  <2>1. byBank[s] \in BOOLEAN /\ byBank'[s] = ~byBank[s] /\ paid'[s] = paid[s]
    BY <1>0, <1>1 DEF Typed
  <2>2. Cash[s] = (IF byBank[s] THEN 0 ELSE paid[s]) /\ Cash'[s] = (IF byBank'[s] THEN 0 ELSE paid'[s])
    BY DEF Cash
  <2>3. CASE byBank[s]
    <3>1. Cash[s] = 0 /\ Cash'[s] = paid[s]
      BY <2>1, <2>2, <2>3, Zenon
    <3> QED
      BY <1>2, <2>3, <3>1
  <2>4. CASE ~byBank[s]
    <3>1. Cash[s] = paid[s] /\ Cash'[s] = 0
      BY <2>1, <2>2, <2>4, Zenon
    <3> QED
      BY <1>2, <2>4, <3>1
  <2> QED
    BY <2>3, <2>4
<1>4. \A r \in Sales \ {s} : Cash'[r] = Cash[r]
  BY <1>0, <1>1 DEF Cash, Typed
<1> HIDE DEF d
<1>5. ASSUME NEW k \in Shifts
      PROVE  /\ shift'[k].st = shift[k].st /\ shift'[k].user = shift[k].user
             /\ shift'[k].expected = shift[k].expected /\ shift'[k].ignored = shift[k].ignored
             /\ shift'[k].moved = IF k = at[s] /\ shift[k].st = "CLOSED" THEN shift[k].moved - d
                                  ELSE shift[k].moved
             /\ shift[k].moved \in Int /\ shift[k].expected \in Int
  <2>1. shift[k] \in [st : {"NONE", "OPEN", "CLOSED"}, user : Users \cup {NoOne},
                      expected : Int, ignored : BOOLEAN, moved : Int]
    BY <1>0 DEF ShiftTyped
  <2>2. shift'[k] = IF k = at[s] /\ shift[k].st = "CLOSED"
                    THEN [shift[k] EXCEPT !.moved = shift[k].moved + (-d)] ELSE shift[k]
    BY <1>1, <1>3
  <2>3. shift[k].moved + (-d) = shift[k].moved - d
    BY <1>3, <2>1
  <2> QED
    BY <2>1, <2>2, <2>3
<1>6. ShiftInv'
  <2>1. shift' \in [Shifts -> [st : {"NONE", "OPEN", "CLOSED"}, user : Users \cup {NoOne},
                               expected : Int, ignored : BOOLEAN, moved : Int]]
    <3>1. ASSUME NEW k \in Shifts
          PROVE  shift'[k] \in [st : {"NONE", "OPEN", "CLOSED"}, user : Users \cup {NoOne},
                                expected : Int, ignored : BOOLEAN, moved : Int]
      <4>1. shift[k] \in [st : {"NONE", "OPEN", "CLOSED"}, user : Users \cup {NoOne},
                          expected : Int, ignored : BOOLEAN, moved : Int]
        BY <1>0 DEF ShiftTyped
      <4>2. shift'[k] = shift[k] \/ \E m \in Int : shift'[k] = [shift[k] EXCEPT !.moved = m]
        <5>1. shift[k].moved + (-d) \in Int
          BY <1>3, <4>1
        <5> QED
          BY <1>1, <1>3, <5>1
      <4> QED
        BY <4>1, <4>2
    <3> QED
      BY <1>1, <3>1
  <2>2. ShiftTyped'
    BY <1>0, <1>1, <2>1 DEF ShiftTyped
  <2>3. OneOpenShift'
    BY <1>0, <1>5 DEF ShiftInv, OneOpenShift
  <2>4. OnAShift'
    BY <1>0, <1>1, <1>5 DEF ShiftInv, ShiftTyped, OnAShift
  <2>5. NoneMoved'
    BY <1>0, <1>5 DEF ShiftInv, NoneMoved
  <2> QED
    BY <2>2, <2>3, <2>4, <2>5 DEF ShiftInv
<1>7. ReportStaysTrue'
  <2> SUFFICES ASSUME NEW k \in Shifts, shift'[k].st = "CLOSED"
               PROVE  shift'[k].expected - shift'[k].moved
                        \in ExpectedCash(Rows, k)' .. Takings(Rows, k)'
    BY DEF ReportStaysTrue
  <2>1. shift[k].expected - shift[k].moved \in ExpectedCash(Rows, k) .. Takings(Rows, k)
    BY <1>5 DEF DrawerInv, ReportStaysTrue
  <2>2. Refunds(Rows, k)' = Refunds(Rows, k)
    BY <1>1, RowsAre DEF Refunds, Rows
  <2>3. Takings(Rows, k)' = Takings(Rows, k) + IF k = at[s] THEN d ELSE 0
    BY <1>0, <1>1, <1>3, <1>4, CorrectedTakings
  <2>4. /\ Takings(Rows, k) \in Nat /\ Refunds(Rows, k) \in Nat
        /\ ExpectedCash(Rows, k) = Takings(Rows, k) - Refunds(Rows, k)
        /\ ExpectedCash(Rows, k)' = Takings(Rows, k)' - Refunds(Rows, k)'
    BY <1>0, CashIs DEF ExpectedCash
  <2>5. shift'[k].expected - shift'[k].moved
          = (shift[k].expected - shift[k].moved) + IF k = at[s] THEN d ELSE 0
    BY <1>3, <1>5
  <2>6. CASE k = at[s]
    BY <1>3, <1>5, <2>1, <2>2, <2>3, <2>4, <2>5, <2>6
  <2>7. CASE k # at[s]
    BY <1>5, <2>1, <2>2, <2>3, <2>4, <2>5, <2>7
  <2> QED
    BY <2>6, <2>7
<1>8. NothingStranded'
  <2> SUFFICES ASSUME NEW r \in Sales, InUse(r), at[r] # None, by[r] = shift'[at[r]].user
               PROVE  shift'[at[r]].st = "OPEN" \/ shift'[at[r]].ignored
    BY <1>1 DEF NothingStranded, InUse, HasLines, Rows
  <2>1. at[r] \in Shifts
    BY <1>0 DEF ShiftTyped
  <2>2. HasLines(Rows, r) <=> \E p \in Products : qty[r][p] > 0
    BY RowsAre DEF HasLines
  <2> QED
    BY <1>5, <2>1, <2>2 DEF DrawerInv, NothingStranded, InUse
<1> QED
  BY <1>6, <1>7, <1>8 DEF DrawerInv

(* The order of a session is one of the orders. *)
LEMMA CurrentStays ==
  ASSUME ShiftTyped, Next
  PROVE  current' \in [Users -> Sales \cup {None}]
<1>0. current \in [Users -> Sales \cup {None}]
  BY DEF ShiftTyped
<1>1. ASSUME NEW u \in Users, NEW s \in Sales \cup {None}, current' = [current EXCEPT ![u] = s]
      PROVE  current' \in [Users -> Sales \cup {None}]
  BY <1>0, <1>1
<1>2. CASE \/ \E u \in Users, k \in Shifts : OpenShift(Rows, u, k) \/ CloseShift(Rows, u, k)
           \/ \E u \in Users : Visit(Rows, u)
           \/ \E u \in Users, s \in Sales : SendToKitchen(Rows, u, s)
           \/ \E u \in Users, s \in Sales, p \in Products, n \in 1..MaxQty : Refund(Rows, u, s, p, n)
           \/ \E u \in Users, p \in Products, n \in 1..MaxQty : ReduceLine(Rows, u, p, n)
           \/ \E k \in Shifts : AdminClose(Rows, k)
           \/ \E s \in Sales : CorrectPayment(Rows, s)
  BY <1>0, <1>2 DEF OpenShift, CloseShift, Visit, SendToKitchen, Refund, ReduceLine, AdminClose,
                    CorrectPayment
<1>3. ASSUME NEW u \in Users, NEW s \in Sales,
             \/ NewOrder(Rows, u, s) \/ OpenOrder(Rows, u, s)
             \/ \E p \in Products, n \in 1..MaxQty : AddLine(Rows, u, s, p, n)
      PROVE  current' \in [Users -> Sales \cup {None}]
  <2>1. current' = [current EXCEPT ![u] = s]
    BY <1>3 DEF NewOrder, OpenOrder, AddLine
  <2> QED
    BY <1>1, <2>1
<1>4. ASSUME NEW u \in Users, NEW new \in Sales \cup {None},
             Checkout(Rows, u, new) \/ ChargeRoom(Rows, u, new)
      PROVE  current' \in [Users -> Sales \cup {None}]
  <2>1. current' = current \/ current' = [current EXCEPT ![u] = new]
    BY <1>4 DEF Checkout, ChargeRoom, Complete
  <2> QED
    BY <1>0, <1>1, <2>1
<1>5. ASSUME NEW u \in Users, NEW s \in Sales, NEW others \in SUBSET Sales,
             NEW new \in Sales \cup {None}, CancelOrder(Rows, u, s, others, new)
      PROVE  current' \in [Users -> Sales \cup {None}]
  <2>1. current' = [current EXCEPT ![u] = IF current[u] = s THEN new ELSE current[u]]
    BY <1>5 DEF CancelOrder
  <2> QED
    BY <1>0, <1>1, <2>1
<1> QED
  BY <1>2, <1>3, <1>4, <1>5 DEF Next

LEMMA InitDrawerInv == Init => DrawerInv
<1> SUFFICES ASSUME Init PROVE DrawerInv
  OBVIOUS
<1>1. MoneyInv
  BY InitMoneyInv
<1>2. \A k \in Shifts : shift[k] = NoShift
  BY DEF Init
<1>3. ShiftInv
  BY <1>2 DEF Init, ShiftInv, ShiftTyped, OneOpenShift, OnAShift, NoneMoved, NoShift
<1>4. ReportStaysTrue /\ NothingStranded
  BY <1>2 DEF Init, ReportStaysTrue, NothingStranded, NoShift
<1> QED
  BY <1>1, <1>3, <1>4 DEF DrawerInv

LEMMA StepDrawerInv == DrawerInv /\ [Next]_vars => DrawerInv'
<1> SUFFICES ASSUME DrawerInv, [Next]_vars PROVE DrawerInv'
  OBVIOUS
<1>0. MoneyInv' /\ Typed /\ MoneyTyped /\ ShiftInv /\ ShiftTyped
  BY StepMoneyInv DEF DrawerInv, MoneyInv, StockInv, ShiftInv
<1>1. ASSUME Next, Placed PROVE DrawerInv'
  BY <1>0, <1>1, CurrentStays, PlacedKeepsDrawer
<1>2. CASE Next
  <2>1. CASE \E u \in Users, k \in Shifts : OpenShift(Rows, u, k) \/ CloseShift(Rows, u, k)
    BY <1>0, <2>1, OpenKeepsDrawer, CloseKeepsDrawer
  <2>2. CASE \E k \in Shifts : AdminClose(Rows, k)
    BY <1>0, <2>2, AdminKeepsDrawer
  <2>3. CASE \E u \in Users, s \in Sales : SendToKitchen(Rows, u, s)
    BY <1>0, <1>1, <1>2, <2>3, SendPlaced
  <2>4. CASE \E u \in Users, s \in Sales, p \in Products, n \in 1..MaxQty :
               AddLine(Rows, u, s, p, n) \/ Refund(Rows, u, s, p, n)
    BY <1>0, <1>1, <1>2, <2>4, AddLinePlaced, RefundPlaced
  <2>5. CASE \E u \in Users, p \in Products, n \in 1..MaxQty : ReduceLine(Rows, u, p, n)
    BY <1>0, <1>1, <1>2, <2>5, ReduceLinePlaced
  <2>6. CASE \E u \in Users, new \in Sales \cup {None} :
               Checkout(Rows, u, new) \/ ChargeRoom(Rows, u, new)
    BY <1>0, <1>1, <1>2, <2>6, PayPlaced
  <2>7. CASE \/ \E u \in Users : Visit(Rows, u)
             \/ \E u \in Users, s \in Sales : NewOrder(Rows, u, s) \/ OpenOrder(Rows, u, s)
             \/ \E u \in Users, s \in Sales, others \in SUBSET Sales, new \in Sales \cup {None} :
                  CancelOrder(Rows, u, s, others, new)
    BY <1>0, <1>1, <1>2, <2>7, DraftsAndShifts
  <2>8. CASE \E s \in Sales : CorrectPayment(Rows, s)
    BY <1>0, <2>8, CorrectKeepsDrawer
  <2> QED
    BY <1>2, <2>1, <2>2, <2>3, <2>4, <2>5, <2>6, <2>7, <2>8 DEF Next
<1>3. CASE UNCHANGED vars
  <2>1. UNCHANGED <<status, by, at, sent, qty, paid, byBank, refundedCash, shift, current>>
    BY <1>3 DEF vars, sale, lines, money, returns
  <2>2. Placed
    BY <1>0, <2>1, NothingPlaced
  <2> QED
    BY <1>0, <2>1, <2>2, PlacedKeepsDrawer DEF ShiftTyped
<1> QED
  BY <1>2, <1>3

(* Types: quantities stay within the bounds the handlers check, whatever the    *)
(* requests and their order.                                                    *)
THEOREM SaleTypes == Spec => []TypeOK
<1>1. DrawerInv => TypeOK
  <2> SUFFICES ASSUME DrawerInv PROVE TypeOK
    OBVIOUS
  <2>1. Typed /\ MoneyTyped /\ ShiftTyped
    BY DEF DrawerInv, MoneyInv, StockInv, ShiftInv
  <2>2. /\ total \in [Sales -> Int] /\ paid \in [Sales -> Int] /\ charged \in [Sales -> Int]
        /\ refunded \in [Sales -> Int] /\ refundedCash \in [Sales -> Int]
    BY <2>1 DEF MoneyTyped
  <2>3. deducted \in [Sales -> [Products -> Int]] /\ returned \in [Sales -> [Products -> Int]]
    BY <2>1 DEF Typed
  <2> QED
    BY <2>1, <2>2, <2>3 DEF TypeOK, Typed, ShiftTyped
<1> QED
  BY <1>1, InitDrawerInv, StepDrawerInv, PTL DEF Spec

(* The cash a closed shift expected is what its sales took, but for refunds     *)
(* made later: no order is paid onto a closed shift, and none that was paid     *)
(* leaves it.                                                                   *)
THEOREM SaleReports == Spec => []ReportStaysTrue
<1>1. DrawerInv => ReportStaysTrue
  BY DEF DrawerInv
<1> QED
  BY <1>1, InitDrawerInv, StepDrawerInv, PTL DEF Spec

(* No open order of its cashier is left behind on a shift closed without the    *)
(* administrator's consent.                                                     *)
THEOREM SaleNothingStranded == Spec => []NothingStranded
<1>1. DrawerInv => NothingStranded
  BY DEF DrawerInv
<1> QED
  BY <1>1, InitDrawerInv, StepDrawerInv, PTL DEF Spec

(* A cashier never has two open shifts, when requests run one at a time.        *)
THEOREM SaleOneShift == Spec => []OneOpenShift
<1>1. DrawerInv => OneOpenShift
  BY DEF DrawerInv, ShiftInv
<1> QED
  BY <1>1, InitDrawerInv, StepDrawerInv, PTL DEF Spec

-----------------------------------------------------------------------------
(* An order that was completed or cancelled stays as it is, on its shift: only  *)
(* its returns and refunds grow, and the method of its payment is corrected.    *)
ClosedOrdersStay == [][\A s \in Sales : status[s] \in {"COMPLETED", "CANCELLED"} =>
  /\ status'[s] = status[s] /\ at'[s] = at[s]
  /\ qty'[s] = qty[s] /\ total'[s] = total[s] /\ deducted'[s] = deducted[s]
  /\ paid'[s] = paid[s] /\ charged'[s] = charged[s]]_vars

LEMMA ShiftOrPlaced ==
  ASSUME DrawerInv, Next
  PROVE  Placed \/ UNCHANGED at
<1>1. Typed /\ MoneyTyped /\ ShiftInv /\ ShiftTyped
  BY DEF DrawerInv, MoneyInv, StockInv, ShiftInv
<1>2. ASSUME NEW u \in Users, NEW k \in Shifts, OpenShift(Rows, u, k) \/ CloseShift(Rows, u, k)
      PROVE  UNCHANGED at
  BY <1>2 DEF OpenShift, CloseShift, sale
<1>3. ASSUME NEW k \in Shifts, AdminClose(Rows, k) PROVE UNCHANGED at
  <2>1. \A s \in Sales : s # None
    BY SaleAssumption
  <2> QED
    BY <1>1, <1>3, <2>1 DEF AdminClose, Drafts, ShiftTyped
<1>4. ASSUME NEW s \in Sales, CorrectPayment(Rows, s) PROVE UNCHANGED at
  BY <1>4 DEF CorrectPayment
<1> QED
  BY <1>1, <1>2, <1>3, <1>4, DraftsAndShifts, SendPlaced, AddLinePlaced, RefundPlaced, ReduceLinePlaced,
     PayPlaced DEF Next

LEMMA ClosedStep ==
  ASSUME DrawerInv, Next, NEW s \in Sales, status[s] \in {"COMPLETED", "CANCELLED"}
  PROVE  /\ status'[s] = status[s] /\ at'[s] = at[s]
         /\ qty'[s] = qty[s] /\ total'[s] = total[s] /\ deducted'[s] = deducted[s]
         /\ paid'[s] = paid[s] /\ charged'[s] = charged[s]
<1>1. Typed /\ MoneyTyped
  BY DEF DrawerInv, MoneyInv, StockInv
<1>2. at'[s] = at[s]
  BY ShiftOrPlaced DEF Placed, ToOpen, Stays
<1> DEFINE Same == /\ status'[s] = status[s] /\ qty'[s] = qty[s] /\ total'[s] = total[s]
                   /\ deducted'[s] = deducted[s] /\ paid'[s] = paid[s] /\ charged'[s] = charged[s]
<1>3. ASSUME OnlyDrafts PROVE Same
  BY <1>3 DEF OnlyDrafts
<1>4. ASSUME NEW d \in Sales, NEW p \in Products, NEW q,
             LinesAdded(d, p, q) \/ LinesReduced(d, p, q)
      PROVE  Same
  BY <1>1, <1>4 DEF LinesAdded, LinesReduced, Typed, MoneyTyped
<1>5. ASSUME NEW d \in Sales, AllSent(d) \/ Settled(d) PROVE Same
  BY <1>1, <1>5 DEF AllSent, Settled, Typed, MoneyTyped
<1>6. ASSUME NEW d \in Sales, NEW p \in Products, NEW n \in 1..MaxQty, Back(d, p, n) PROVE Same
  BY <1>6 DEF Back
<1>7. ASSUME NEW d \in Sales, Corrected(d) PROVE Same
  BY <1>7 DEF Corrected
<1>8. Same
  BY <1>1, <1>3, <1>4, <1>5, <1>6, <1>7, StepIs
<1> QED
  BY <1>2, <1>8

(* No request reopens, changes, pays or moves an order that was completed or    *)
(* cancelled.                                                                   *)
THEOREM SaleClosedStay == Spec => ClosedOrdersStay
<1>1. DrawerInv /\ [Next]_vars =>
        [\A s \in Sales : status[s] \in {"COMPLETED", "CANCELLED"} =>
           /\ status'[s] = status[s] /\ at'[s] = at[s]
           /\ qty'[s] = qty[s] /\ total'[s] = total[s] /\ deducted'[s] = deducted[s]
           /\ paid'[s] = paid[s] /\ charged'[s] = charged[s]]_vars
  BY ClosedStep
<1> QED
  BY <1>1, InitDrawerInv, StepDrawerInv, PTL DEF Spec, ClosedOrdersStay

-----------------------------------------------------------------------------
(* Orders as OrderService promises them *)

LEMMA PhaseIs ==
  /\ Phase("NONE") = "none" /\ Phase("DRAFT") = "open"
  /\ Phase("COMPLETED") = "settled" /\ Phase("CANCELLED") = "dropped"
  BY DEF Phase

LEMMA InitOrder == Init => Order!Init
  BY PhaseIs DEF Init, Zero, Order!Init, Order!Nothing

(* What n more units of a product add to the price of what came back. *)
LEMMA ReturnPrice ==
  ASSUME Typed, NEW s \in Sales, NEW p \in Products, NEW n \in 1..MaxQty, Back(s, p, n)
  PROVE  Total(returned'[s]) - Total(returned[s]) = n
<1> DEFINE f == returned[s]
           g == returned'[s]
<1>1. f \in [Products -> Nat] /\ n \in Nat
  BY SaleAssumption DEF Typed
<1>2. g = [f EXCEPT ![p] = f[p] + n]
  BY DEF Typed, Back
<1>3. g \in [Products -> Nat] /\ g[p] = f[p] + n /\ \A r \in Products \ {p} : g[r] = f[r]
  BY <1>1, <1>2
<1>4. f \in [Products -> Int] /\ g \in [Products -> Int]
  BY <1>1, <1>3
<1>5. IsFiniteSet(Products)
  BY SaleAssumption
<1>6. SumFunctionOnSet(f, Products) \in Nat
  BY <1>1, <1>5, SumNat
<1> HIDE DEF f, g
<1>7. SumFunctionOnSet(g, Products) = SumFunctionOnSet(f, Products) - f[p] + g[p]
  BY <1>3, <1>4, <1>5, SumAt
<1>8. f[p] \in Nat
  BY <1>1
<1>9. SumFunctionOnSet(g, Products) - SumFunctionOnSet(f, Products) = n
  BY <1>1, <1>3, <1>6, <1>7, <1>8
<1> QED
  BY <1>9 DEF Total, f, g

(* An order whose row of the columns below stays as it is idles. *)
LEMMA Idles ==
  ASSUME NEW s \in Sales, status'[s] = status[s], deducted'[s] = deducted[s],
         paid'[s] = paid[s], charged'[s] = charged[s],
         returned'[s] = returned[s], refunded'[s] = refunded[s]
  PROVE  Order!OnTheWay(s)
  BY DEF Order!OnTheWay, Order!Idle, Order!SameGoods, Order!SameMoney, Order!NoReturn

LEMMA DraftsOnTheWay ==
  ASSUME MoneyInv, OnlyDrafts, NEW s \in Sales
  PROVE  Order!OnTheWay(s)
<1>1. CASE status'[s] = status[s]
  BY <1>1, Idles DEF OnlyDrafts
<1>2. CASE status[s] = "NONE" /\ status'[s] = "DRAFT"
  <2>1. Order!Begin(s)
    BY <1>2, PhaseIs DEF OnlyDrafts, Order!Begin, Order!SameGoods, Order!SameMoney, Order!NoReturn
  <2> QED
    BY <2>1 DEF Order!OnTheWay
<1>3. CASE status[s] = "DRAFT" /\ ~sent[s] /\ status'[s] = "CANCELLED"
  <2>1. deducted[s] = Zero
    BY <1>3 DEF MoneyInv, StockInv, StockFollowsOrder
  <2>2. Order!Drop(s)
    BY <1>3, <2>1, PhaseIs
       DEF OnlyDrafts, Zero, Order!Drop, Order!Nothing, Order!SameGoods, Order!SameMoney, Order!NoReturn
  <2> QED
    BY <2>2 DEF Order!OnTheWay
<1> QED
  BY <1>1, <1>2, <1>3 DEF OnlyDrafts

LEMMA LinesOrder ==
  ASSUME MoneyInv, MoneyInv', NEW s \in Sales, NEW p \in Products, NEW q \in [Products -> 0..MaxQty],
         LinesAdded(s, p, q) \/ LinesReduced(s, p, q)
  PROVE  Order!Next
<1>1. Typed /\ MoneyTyped /\ StockFollowsOrder /\ StockFollowsOrder'
  BY DEF MoneyInv, StockInv
<1>2. /\ \A d \in Sales : paid'[d] = paid[d] /\ charged'[d] = charged[d]
      /\ \A d \in Sales : returned'[d] = returned[d] /\ refunded'[d] = refunded[d]
      /\ \A d \in Sales \ {s} : status'[d] = status[d] /\ deducted'[d] = deducted[d]
  BY <1>1 DEF LinesAdded, LinesReduced, Typed
<1>3. \A d \in Sales \ {s} : Order!OnTheWay(d)
  BY <1>2, Idles
<1>4. CASE status[s] = "NONE"
  <2>1. status'[s] = "DRAFT" /\ deducted'[s] = deducted[s]
    BY <1>1, <1>4 DEF LinesAdded, LinesReduced, Typed, MoneyInv, StockInv, KitchenKnows
  <2>2. Order!Begin(s)
    BY <1>2, <1>4, <2>1, PhaseIs DEF Order!Begin, Order!SameGoods, Order!SameMoney, Order!NoReturn
  <2> QED
    BY <1>3, <2>2 DEF Order!Next, Order!OnTheWay
<1>5. CASE status[s] = "DRAFT"
  <2>1. status'[s] = "DRAFT"
    BY <1>1, <1>5 DEF LinesAdded, LinesReduced, Typed
  <2>2. \A r \in Products : deducted'[s][r] >= deducted[s][r]
    <3>1. CASE LinesReduced(s, p, q)
      BY <1>1, <3>1 DEF LinesReduced, Typed
    <3>2. CASE LinesAdded(s, p, q)
      <4>1. sent'[s] = sent[s] /\ qty'[s] = q /\ q \in [Products -> Nat]
            /\ \A r \in Products : q[r] >= qty[s][r]
        BY <1>1, <3>2, SaleAssumption DEF LinesAdded, Typed
      <4>2. CASE sent[s]
        BY <1>1, <1>5, <2>1, <4>1, <4>2 DEF StockFollowsOrder
      <4>3. CASE ~sent[s]
        BY <1>1, <1>5, <2>1, <4>1, <4>3, ZeroTyped DEF StockFollowsOrder
      <4> QED
        BY <4>2, <4>3
    <3> QED
      BY <3>1, <3>2
  <2>3. Order!Serve(s)
    BY <1>2, <1>5, <2>1, <2>2, PhaseIs DEF Order!Serve, Order!SameMoney, Order!NoReturn
  <2> QED
    BY <1>3, <2>3 DEF Order!Next
<1> QED
  BY <1>4, <1>5 DEF LinesAdded, LinesReduced

LEMMA SentOrder ==
  ASSUME MoneyInv, NEW s \in Sales, AllSent(s)
  PROVE  Order!Next
<1>1. Typed /\ MoneyTyped
  BY DEF MoneyInv, StockInv
<1>2. \A d \in Sales \ {s} : Order!OnTheWay(d)
  BY <1>1, Idles DEF AllSent, Typed
<1>3. \A r \in Products : deducted'[s][r] >= deducted[s][r]
  <2>1. \A r \in Products : deducted[s][r] \in Nat /\ qty[s][r] \in Nat
    BY <1>1, SaleAssumption DEF Typed
  <2> QED
    BY <1>1, <2>1 DEF AllSent, Typed
<1>4. Order!Serve(s)
  BY <1>1, <1>3, PhaseIs DEF AllSent, Order!Serve, Order!SameMoney, Order!NoReturn
<1> QED
  BY <1>2, <1>4 DEF Order!Next

LEMMA SettledOrder ==
  ASSUME MoneyInv, MoneyInv', NEW s \in Sales, Settled(s)
  PROVE  Order!Next
<1>1. /\ Typed /\ MoneyTyped /\ MoneyTyped'
      /\ StockFollowsOrder' /\ SettledOnce /\ SettledOnce'
  BY DEF MoneyInv, StockInv
<1>2. ASSUME NEW d \in Sales \ {s}
      PROVE  /\ deducted'[d] = deducted[d] /\ paid'[d] = paid[d] /\ charged'[d] = charged[d]
             /\ returned'[d] = returned[d] /\ refunded'[d] = refunded[d]
  BY <1>1 DEF Settled, Typed, MoneyTyped
<1>3. ASSUME NEW d \in Sales \ {s} PROVE Order!OnTheWay(d)
  <2>1. CASE status'[d] = status[d]
    BY <1>2, <2>1, Idles
  <2>2. CASE status[d] = "NONE" /\ status'[d] = "DRAFT"
    <3>1. Order!Begin(d)
      BY <1>2, <2>2, PhaseIs DEF Order!Begin, Order!SameGoods, Order!SameMoney, Order!NoReturn
    <3> QED
      BY <3>1 DEF Order!OnTheWay
  <2> QED
    BY <2>1, <2>2 DEF Settled
<1>4. status[s] = "DRAFT" /\ status'[s] = "COMPLETED"
  BY DEF Settled
<1>5. \A r \in Products : deducted'[s][r] >= deducted[s][r]
  <2>1. \A r \in Products : deducted[s][r] \in Nat /\ qty[s][r] \in Nat
    BY <1>1, SaleAssumption DEF Typed
  <2> QED
    BY <1>1, <2>1 DEF Settled, Typed
<1>6. deducted'[s] = qty'[s] /\ paid'[s] + charged'[s] = Total(qty'[s])
      /\ (paid'[s] = 0 \/ charged'[s] = 0)
  BY <1>1, <1>4 DEF StockFollowsOrder, SettledOnce
<1>7. paid'[s] \in Nat /\ charged'[s] \in Nat
  BY <1>1 DEF MoneyTyped
<1>8. \/ paid'[s] = Total(deducted'[s]) /\ charged'[s] = 0
      \/ charged'[s] = Total(deducted'[s]) /\ paid'[s] = 0
  BY <1>6, <1>7
<1>9. returned'[s] = returned[s] /\ refunded'[s] = refunded[s]
  BY DEF Settled
<1>10. Order!Settle(s)
  BY <1>4, <1>5, <1>8, <1>9, PhaseIs DEF Order!Settle, Order!NoReturn
<1> QED
  BY <1>3, <1>10 DEF Order!Next

LEMMA BackOrder ==
  ASSUME MoneyInv, MoneyInv', NEW s \in Sales, NEW p \in Products, NEW n \in 1..MaxQty, Back(s, p, n)
  PROVE  Order!Next
<1>1. /\ Typed /\ MoneyTyped /\ StockFollowsOrder
      /\ ReturnedWithinSold' /\ CashBack'
  BY DEF MoneyInv, StockInv
<1>2. \A d \in Sales \ {s} : Order!OnTheWay(d)
  BY <1>1, Idles DEF Back, Typed, MoneyTyped
<1>3. status[s] = "COMPLETED" /\ UNCHANGED <<status, qty, deducted, paid, charged>>
  BY DEF Back
<1>4. \A r \in Products : returned[s][r] <= returned'[s][r]
  <2>1. returned[s] \in [Products -> Nat] /\ n \in Nat
    BY <1>1, SaleAssumption DEF Typed
  <2>2. returned'[s] = [returned[s] EXCEPT ![p] = returned[s][p] + n]
    BY <1>1 DEF Back, Typed
  <2> QED
    BY <2>1, <2>2
<1>5. \A r \in Products : returned'[s][r] <= deducted[s][r]
  BY <1>1, <1>3 DEF StockFollowsOrder, ReturnedWithinSold
<1>6. refunded'[s] = refunded[s] + (IF paid[s] > 0 THEN Total(returned'[s]) - Total(returned[s]) ELSE 0)
  <2>1. refunded[s] \in Nat
    BY <1>1 DEF MoneyTyped
  <2>2. refunded'[s] = IF paid[s] > 0 THEN refunded[s] + n ELSE refunded[s]
    BY <1>1 DEF Back, MoneyTyped
  <2> QED
    BY <1>1, <2>1, <2>2, ReturnPrice
<1>7. refunded'[s] <= paid[s]
  BY <1>1, <1>3 DEF CashBack
<1>8. Order!TakeBack(s)
  BY <1>3, <1>4, <1>5, <1>6, <1>7, PhaseIs DEF Order!TakeBack, Order!SameGoods, Order!SameMoney
<1> QED
  BY <1>2, <1>8 DEF Order!Next

LEMMA CorrectedOrder == ASSUME NEW s \in Sales, Corrected(s) PROVE Order!Next
<1>1. \A d \in Sales : Order!OnTheWay(d)
  BY Idles DEF Corrected
<1> QED
  BY <1>1 DEF Order!Next

LEMMA StepOrder == ASSUME MoneyInv, [Next]_vars PROVE [Order!Next]_(Order!ovars)
<1>1. CASE Next
  <2>1. MoneyInv' /\ Typed
    BY StepMoneyInv DEF MoneyInv, StockInv
  <2>2. CASE OnlyDrafts
    BY <2>2, DraftsOnTheWay DEF Order!Next
  <2> QED
    BY <1>1, <2>1, <2>2, StepIs, LinesOrder, SentOrder, SettledOrder, BackOrder, CorrectedOrder
<1>2. CASE UNCHANGED vars
  BY <1>2 DEF vars, sale, lines, money, returns, Order!ovars
<1> QED
  BY <1>1, <1>2

(* Orders of the point of sale implement OrderService: every request is a step   *)
(* of it for one order, with drafts that begin and end on the way, or none.      *)
THEOREM SaleRefines == Spec => ImplementsOrder
<1>1. MoneyInv /\ [Next]_vars => [Order!Next]_(Order!ovars)
  BY StepOrder
<1> QED
  BY <1>1, InitOrder, InitMoneyInv, StepMoneyInv, PTL DEF Spec, ImplementsOrder, Order!Spec
===============================================================================
