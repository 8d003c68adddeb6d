------------------------ MODULE WarehouseTransfer_proofs ------------------------
(* Theorems about WarehouseTransfer, for any set of warehouses, products and   *)
(* transfers, any bounds and any number of requests that break off.            *)
EXTENDS WarehouseTransfer, Sums

(* A transfer without a row has no lines; a row that does not exist is empty;  *)
(* what waits has not been received; a transfer has two different ends, so     *)
(* that the movements of an answer do not fall on one warehouse.               *)
Filed == \A t \in Transfers :
  /\ status[t] = None => \A p \in Products : line[t][p].st = None
  /\ status[t] # None => Source(route[t]) # Dest(route[t])
  /\ \A p \in Products : /\ line[t][p].st = None => line[t][p] = NoLine
                         /\ line[t][p].st \in Waiting => line[t][p].received = 0

(* A warehouse that sales are deducted from is, or was, for sale.              *)
ForSale == outlets \subseteq shops /\ \A wh \in Warehouses : sells[wh] => wh \in shops

(* Every movement carries the id of a transfer or came from outside.           *)
SumOfMoves(p) == SumFunctionOnSet([t \in Transfers |-> Total(moved[t], p)], Transfers)

Recorded == \A p \in Products : Total(ledger, p) = entered[p] + SumOfMoves(p)

Inv == /\ TypeOK /\ Filed /\ ForSale /\ Recorded
       /\ LineAccounted /\ NeverOverdrawn /\ CompletedWhenAnswered

-----------------------------------------------------------------------------
(* Facts about rows.                                                           *)

(* A transfer goes between warehouses.                                         *)
LEMMA RouteEnds ==
  ASSUME TypeOK, NEW t \in Transfers
  PROVE  Source(route[t]) \in Warehouses /\ Dest(route[t]) \in Warehouses
  BY DEF TypeOK, Routes, Source, Dest

(* The quantities of a line are numbers, ...                                   *)
LEMMA LineFields ==
  ASSUME TypeOK, NEW t \in Transfers, NEW p \in Products
  PROVE  /\ line[t][p].sent \in 0..MaxQty /\ line[t][p].received \in 0..MaxQty
         /\ line[t][p].received <= line[t][p].sent
         /\ line[t][p].st # None => line[t][p].sent > 0
         /\ line[t][p].st \in LineStatus \cup {None}
         /\ TakenBy(line[t][p]) \in Int
<1>1. line[t][p] \in Lines
  BY DEF TypeOK
<1>2. /\ line[t][p].sent \in 0..MaxQty /\ line[t][p].received \in 0..MaxQty
      /\ line[t][p].received <= line[t][p].sent
      /\ line[t][p].st # None => line[t][p].sent > 0
      /\ line[t][p].st \in LineStatus \cup {None}
  BY <1>1 DEF Lines
<1> QED
  BY <1>2, WarehouseAssumption DEF TakenBy

(* ... and so is what a warehouse has, what moved and what is loose.           *)
LEMMA StockFields ==
  ASSUME TypeOK, NEW t \in Transfers, NEW wh \in Warehouses, NEW p \in Products
  PROVE  /\ ledger[wh][p] \in Int /\ moved[t][wh][p] \in Int /\ loose[t][wh][p] \in Int
         /\ Says(t, wh, p) \in Int
<1>1. ledger[wh][p] \in Int /\ moved[t][wh][p] \in Int /\ loose[t][wh][p] \in Int
  BY DEF TypeOK, PerItem
<1>2. line[t][p].received \in Int /\ TakenBy(line[t][p]) \in Int
  BY LineFields, WarehouseAssumption
<1> QED
  BY <1>1, <1>2 DEF Says

-----------------------------------------------------------------------------
(* Movements.                                                                  *)

LEMMA PlusTyped ==
  ASSUME NEW f \in PerItem(Int), NEW d \in PerItem(Int)
  PROVE  /\ Plus(f, d) \in PerItem(Int)
         /\ \A wh \in Warehouses, p \in Products : Plus(f, d)[wh][p] = f[wh][p] + d[wh][p]
<1>1. \A wh \in Warehouses, p \in Products : f[wh][p] \in Int /\ d[wh][p] \in Int
  BY DEF PerItem
<1> QED
  BY <1>1 DEF Plus, PerItem

(* What posting d for a transfer does.                                         *)
LEMMA PostWrites ==
  ASSUME TypeOK, NEW t \in Transfers, NEW d \in PerItem(Int), PostTransfer(t, d)
  PROVE  /\ ledger' \in PerItem(Int)
         /\ moved' \in [Transfers -> PerItem(Int)]
         /\ \A wh \in Warehouses, p \in Products : ledger'[wh][p] = ledger[wh][p] + d[wh][p]
         /\ \A wh \in Warehouses, p \in Products : moved'[t][wh][p] = moved[t][wh][p] + d[wh][p]
         /\ \A u \in Transfers : u # t => moved'[u] = moved[u]
         /\ active' = active /\ sells' = sells /\ outlets' = outlets /\ shops' = shops
         /\ entered' = entered
<1>1. ledger \in PerItem(Int) /\ moved[t] \in PerItem(Int) /\ moved \in [Transfers -> PerItem(Int)]
  BY DEF TypeOK
<1>2. ledger' = Plus(ledger, d) /\ moved' = [moved EXCEPT ![t] = Plus(moved[t], d)]
  BY DEF PostTransfer
<1>3. Plus(moved[t], d) \in PerItem(Int)
  BY <1>1, PlusTyped
<1>4. moved'[t] = Plus(moved[t], d) /\ \A u \in Transfers : u # t => moved'[u] = moved[u]
  BY <1>1, <1>2
<1>5. moved' \in [Transfers -> PerItem(Int)]
  BY <1>1, <1>2, <1>3
<1>6. /\ ledger' \in PerItem(Int)
      /\ \A wh \in Warehouses, p \in Products : ledger'[wh][p] = ledger[wh][p] + d[wh][p]
  BY <1>1, <1>2, PlusTyped
<1>7. \A wh \in Warehouses, p \in Products : moved'[t][wh][p] = moved[t][wh][p] + d[wh][p]
  BY <1>1, <1>4, PlusTyped
<1> QED
  BY <1>4, <1>5, <1>6, <1>7 DEF PostTransfer, selling

(* What breaking off leaves behind.                                            *)
LEMMA LooseWrites ==
  ASSUME TypeOK, NEW t \in Transfers, NEW d \in PerItem(Int), LeftLoose(t, d)
  PROVE  /\ loose' \in [Transfers -> PerItem(Int)]
         /\ broken' \in 0..MaxBroken
         /\ \A wh \in Warehouses, p \in Products : loose'[t][wh][p] = loose[t][wh][p] + d[wh][p]
         /\ \A u \in Transfers : u # t => loose'[u] = loose[u]
<1>1. loose[t] \in PerItem(Int) /\ loose \in [Transfers -> PerItem(Int)]
  BY DEF TypeOK
<1>2. loose' = [loose EXCEPT ![t] = Plus(loose[t], d)]
  BY DEF LeftLoose
<1>3. Plus(loose[t], d) \in PerItem(Int)
  BY <1>1, PlusTyped
<1>4. loose'[t] = Plus(loose[t], d) /\ \A u \in Transfers : u # t => loose'[u] = loose[u]
  BY <1>1, <1>2
<1>5. loose' \in [Transfers -> PerItem(Int)]
  BY <1>1, <1>2, <1>3
<1>6. \A wh \in Warehouses, p \in Products : loose'[t][wh][p] = loose[t][wh][p] + d[wh][p]
  BY <1>1, <1>4, PlusTyped
<1>7. broken' \in 0..MaxBroken
  BY WarehouseAssumption DEF LeftLoose, TypeOK
<1> QED
  BY <1>4, <1>5, <1>6, <1>7

LEMMA ShippedIs ==
  ASSUME NEW from \in Warehouses, NEW qty \in [Products -> Nat]
  PROVE  /\ Shipped(from, qty) \in PerItem(Int)
         /\ \A wh \in Warehouses, p \in Products :
              Shipped(from, qty)[wh][p] = IF wh = from THEN -qty[p] ELSE 0
  BY DEF Shipped, PerItem

LEMMA AnsweredIs ==
  ASSUME NEW t \in Transfers, NEW p \in Products, NEW back \in Int, NEW got \in Int
  PROVE  /\ Answered(t, p, back, got) \in PerItem(Int)
         /\ \A wh \in Warehouses, q \in Products :
              Answered(t, p, back, got)[wh][q] = IF q # p THEN 0
                                                ELSE IF wh = Dest(route[t]) THEN got
                                                ELSE IF wh = Source(route[t]) THEN back
                                                ELSE 0
  BY DEF Answered, PerItem

-----------------------------------------------------------------------------
(* Every movement is recorded.                                                 *)

(* What all warehouses have is a number; movements add up.                     *)
LEMMA TotalInt ==
  ASSUME NEW f \in PerItem(Int), NEW p \in Products
  PROVE  Total(f, p) \in Int
<1> DEFINE g == [wh \in Warehouses |-> f[wh][p]]
<1>1. \A wh \in Warehouses : g[wh] \in Int
  BY DEF PerItem
<1> HIDE DEF g
<1>2. SumFunctionOnSet(g, Warehouses) \in Int
  BY <1>1, SumInt, WarehouseAssumption
<1> QED
  BY <1>2 DEF Total, g

LEMMA TotalPlus ==
  ASSUME NEW f \in PerItem(Int), NEW d \in PerItem(Int), NEW h \in PerItem(Int), NEW p \in Products,
         \A wh \in Warehouses : h[wh][p] = f[wh][p] + d[wh][p]
  PROVE  Total(h, p) = Total(f, p) + Total(d, p)
<1> DEFINE F == [wh \in Warehouses |-> f[wh][p]]
           D == [wh \in Warehouses |-> d[wh][p]]
           H == [wh \in Warehouses |-> h[wh][p]]
<1>1. /\ \A wh \in Warehouses : F[wh] \in Int
      /\ \A wh \in Warehouses : D[wh] \in Int
      /\ \A wh \in Warehouses : H[wh] = F[wh] + D[wh]
  BY DEF PerItem
<1> HIDE DEF F, D, H
<1>2. SumFunctionOnSet(H, Warehouses) = SumFunctionOnSet(F, Warehouses) + SumFunctionOnSet(D, Warehouses)
  BY <1>1, SumPlus, WarehouseAssumption
<1> QED
  BY <1>2 DEF Total, F, D, H

(* The movements of a transfer are recorded with it.                           *)
LEMMA PostRecorded ==
  ASSUME TypeOK, Recorded, NEW t \in Transfers, NEW d \in PerItem(Int), PostTransfer(t, d)
  PROVE  Recorded'
<1> SUFFICES ASSUME NEW p \in Products PROVE Total(ledger', p) = entered'[p] + SumOfMoves(p)'
  BY DEF Recorded
<1> DEFINE M == [u \in Transfers |-> Total(moved[u], p)]
           N == [u \in Transfers |-> Total(moved'[u], p)]
<1>1. ledger \in PerItem(Int) /\ moved[t] \in PerItem(Int)
  BY DEF TypeOK
<1>2. ledger' \in PerItem(Int) /\ moved'[t] \in PerItem(Int)
  BY PostWrites
<1>3. Total(ledger', p) = Total(ledger, p) + Total(d, p)
  BY <1>1, <1>2, PostWrites, TotalPlus
<1>4. Total(moved'[t], p) = Total(moved[t], p) + Total(d, p)
  <2> DEFINE g == moved'[t]  f == moved[t]
  <2>1. \A wh \in Warehouses : g[wh][p] = f[wh][p] + d[wh][p]
    BY PostWrites
  <2>2. f \in PerItem(Int) /\ g \in PerItem(Int)
    BY <1>1, <1>2
  <2> HIDE DEF f, g
  <2>3. Total(g, p) = Total(f, p) + Total(d, p)
    BY <2>1, <2>2, TotalPlus
  <2> QED
    BY <2>3 DEF f, g
<1>5. M \in [Transfers -> Int] /\ N \in [Transfers -> Int]
  <2>1. \A u \in Transfers : moved[u] \in PerItem(Int) /\ moved'[u] \in PerItem(Int)
    BY PostWrites DEF TypeOK
  <2> QED
    BY <2>1, TotalInt
<1>6. \A u \in Transfers \ {t} : N[u] = M[u]
  BY PostWrites
<1>7. M[t] = Total(moved[t], p) /\ N[t] = Total(moved'[t], p)
  OBVIOUS
<1>8. SumOfMoves(p) = SumFunctionOnSet(M, Transfers) /\ SumOfMoves(p)' = SumFunctionOnSet(N, Transfers)
  BY DEF SumOfMoves
<1>9. Total(ledger, p) \in Int /\ Total(d, p) \in Int
  BY <1>1, TotalInt
<1>10. entered'[p] = entered[p] /\ entered[p] \in Int
  BY PostWrites DEF TypeOK
<1>11. Total(ledger, p) = entered[p] + SumOfMoves(p)
  BY DEF Recorded
<1> HIDE DEF M, N
<1>12. SumFunctionOnSet(N, Transfers) = SumFunctionOnSet(M, Transfers) - M[t] + N[t]
  BY <1>5, <1>6, SumAt, WarehouseAssumption
<1>13. SumFunctionOnSet(M, Transfers) \in Int
  BY <1>5, SumInt, WarehouseAssumption
<1>14. M[t] \in Int
  BY <1>5
<1> QED
  BY <1>3, <1>4, <1>7, <1>8, <1>9, <1>10, <1>11, <1>12, <1>13, <1>14

(* Goods from outside are recorded as such.                                    *)
LEMMA MovementRecorded ==
  ASSUME TypeOK, Recorded, NEW wh \in Warehouses, NEW p \in Products, NEW delta \in Int,
         ledger' = [ledger EXCEPT ![wh][p] = @ + delta],
         entered' = [entered EXCEPT ![p] = @ + delta], moved' = moved
  PROVE  Recorded'
<1> SUFFICES ASSUME NEW q \in Products PROVE Total(ledger', q) = entered'[q] + SumOfMoves(q)'
  BY DEF Recorded
<1> DEFINE F == [w \in Warehouses |-> ledger[w][q]]
           G == [w \in Warehouses |-> ledger'[w][q]]
<1>1. \A w \in Warehouses, r \in Products : ledger[w][r] \in Int
  BY DEF TypeOK, PerItem
<1>2. \A w \in Warehouses, r \in Products :
        ledger'[w][r] = IF w = wh /\ r = p THEN ledger[w][r] + delta ELSE ledger[w][r]
  BY DEF TypeOK, PerItem
<1>3. entered'[q] = (IF q = p THEN entered[q] + delta ELSE entered[q]) /\ entered[q] \in Int
  BY DEF TypeOK
<1>4. SumOfMoves(q)' = SumOfMoves(q)
  BY DEF SumOfMoves
<1>5. Total(ledger, q) = entered[q] + SumOfMoves(q)
  BY DEF Recorded
<1>6. Total(ledger, q) = SumFunctionOnSet(F, Warehouses) /\ Total(ledger', q) = SumFunctionOnSet(G, Warehouses)
  BY DEF Total
<1>7. F \in [Warehouses -> Int] /\ G \in [Warehouses -> Int]
  BY <1>1, <1>2
<1>8. \A w \in Warehouses \ {wh} : G[w] = F[w]
  BY <1>2
<1>9. G[wh] = (IF q = p THEN F[wh] + delta ELSE F[wh]) /\ F[wh] \in Int
  BY <1>1, <1>2
<1> HIDE DEF F, G
<1>10. SumFunctionOnSet(G, Warehouses) = SumFunctionOnSet(F, Warehouses) - F[wh] + G[wh]
  BY <1>7, <1>8, SumAt, WarehouseAssumption
<1>11. SumFunctionOnSet(F, Warehouses) \in Int
  BY <1>7, SumInt, WarehouseAssumption
<1>12. SumOfMoves(q) \in Int
  <2>1. \A u \in Transfers : Total(moved[u], q) \in Int
    BY TotalInt DEF TypeOK
  <2> DEFINE M == [u \in Transfers |-> Total(moved[u], q)]
  <2>2. \A u \in Transfers : M[u] \in Int
    BY <2>1
  <2>3. SumOfMoves(q) = SumFunctionOnSet(M, Transfers)
    BY DEF SumOfMoves
  <2> HIDE DEF M
  <2> QED
    BY <2>2, <2>3, SumInt, WarehouseAssumption
<1>13. CASE q = p
  BY <1>13, <1>3, <1>4, <1>5, <1>6, <1>9, <1>10, <1>11, <1>12
<1>14. CASE q # p
  BY <1>14, <1>3, <1>4, <1>5, <1>6, <1>9, <1>10, <1>11, <1>12
<1> QED
  BY <1>13, <1>14

-----------------------------------------------------------------------------
(* The invariant holds at first.                                               *)
LEMMA InitRecorded == Init => Recorded
<1> SUFFICES ASSUME Init, NEW p \in Products PROVE Total(ledger, p) = entered[p] + SumOfMoves(p)
  BY DEF Recorded
<1> DEFINE Z == [wh \in Warehouses |-> NoMoves[wh][p]]
           M == [t \in Transfers |-> Total(moved[t], p)]
<1>1. \A wh \in Warehouses : Z[wh] = 0
  BY DEF NoMoves
<1>2. Total(NoMoves, p) = SumFunctionOnSet(Z, Warehouses)
  BY DEF Total
<1> HIDE DEF Z
<1>3. Total(NoMoves, p) = 0
  BY <1>1, <1>2, SumZero, WarehouseAssumption
<1>4. \A t \in Transfers : M[t] = 0
  BY <1>3 DEF Init
<1>5. SumOfMoves(p) = SumFunctionOnSet(M, Transfers)
  BY DEF SumOfMoves
<1> HIDE DEF M
<1>6. SumOfMoves(p) = 0
  BY <1>4, <1>5, SumZero, WarehouseAssumption
<1>7. Total(ledger, p) = 0 /\ entered[p] = 0
  BY <1>3 DEF Init
<1> QED
  BY <1>6, <1>7

LEMMA InitInv == Init => Inv
<1> SUFFICES ASSUME Init PROVE Inv
  OBVIOUS
<1>1. TypeOK
  BY WarehouseAssumption
     DEF Init, TypeOK, PerItem, NoMoves, Routes, NoLine, Lines, LineStatus, TransferStatus, None
<1>2. Filed /\ ForSale
  BY DEF Init, Filed, ForSale, NoLine
<1>3. LineAccounted
  BY DEF Init, LineAccounted, Says, TakenBy, NoLine, NoMoves
<1>4. NeverOverdrawn /\ CompletedWhenAnswered
  BY DEF Init, NeverOverdrawn, CompletedWhenAnswered, NoMoves, NoLine
<1> QED
  BY <1>1, <1>2, <1>3, <1>4, InitRecorded DEF Inv

-----------------------------------------------------------------------------
(* A transfer is made, with lines for rows; what the other products shipped    *)
(* is loose.                                                                   *)
Astray(from, qty, rows, wh, p) == IF wh = from /\ p \notin rows THEN qty[p] ELSE 0

Created(t, from, to, qty, rows) ==
  /\ CanCreate(t, from, to, qty)
  /\ \A p \in rows : qty[p] > 0
  /\ OpenTransfer(t, from, to, qty, rows)
  /\ PostTransfer(t, Shipped(from, qty))
  /\ loose' \in [Transfers -> PerItem(Int)] /\ broken' \in 0..MaxBroken
  /\ \A u \in Transfers : u # t => loose'[u] = loose[u]
  /\ \A wh \in Warehouses, p \in Products :
       loose'[t][wh][p] = loose[t][wh][p] - Astray(from, qty, rows, wh, p)

LEMMA CreateIsCreated ==
  ASSUME TypeOK, NEW t \in Transfers, NEW from \in Warehouses, NEW to \in Warehouses,
         NEW qty \in Quantities, CreateTransfer(t, from, to, qty)
  PROVE  Created(t, from, to, qty, {p \in Products : qty[p] > 0})
<1> DEFINE rows == {p \in Products : qty[p] > 0}
<1>1. loose' = loose /\ broken' = broken
  BY DEF CreateTransfer, ghost
<1>2. loose \in [Transfers -> PerItem(Int)] /\ broken \in 0..MaxBroken
  BY DEF TypeOK
<1>3. \A p \in Products : p \notin rows => qty[p] = 0
  BY WarehouseAssumption DEF Quantities
<1>4. \A wh \in Warehouses, p \in Products : loose[t][wh][p] \in Int /\ Astray(from, qty, rows, wh, p) = 0
  BY <1>2, <1>3 DEF Astray, PerItem
<1> QED
  BY <1>1, <1>2, <1>4 DEF Created, CreateTransfer

LEMMA BrokenIsCreated ==
  ASSUME TypeOK, NEW t \in Transfers, NEW from \in Warehouses, NEW to \in Warehouses,
         NEW qty \in Quantities, NEW last \in Products, CreateBreaksOff(t, from, to, qty, last)
  PROVE  Created(t, from, to, qty, {p \in Products : qty[p] > 0} \ {last})
<1> DEFINE rows == {p \in Products : qty[p] > 0} \ {last}
           part == [p \in Products |-> IF p = last THEN qty[p] ELSE 0]
<1>1. \A p \in Products : qty[p] \in Nat
  BY WarehouseAssumption DEF Quantities
<1>2. part \in [Products -> Nat]
  BY <1>1
<1>3. LeftLoose(t, Shipped(from, part))
  BY DEF CreateBreaksOff
<1>4. \A wh \in Warehouses, p \in Products :
        Shipped(from, part)[wh][p] = -Astray(from, qty, rows, wh, p)
  <2>1. \A p \in Products : p \notin rows => p = last \/ qty[p] = 0
    BY <1>1
  <2>2. \A wh \in Warehouses, p \in Products :
          Shipped(from, part)[wh][p] = IF wh = from THEN -part[p] ELSE 0
    BY <1>2, ShippedIs
  <2>3. \A p \in Products : part[p] = IF p = last THEN qty[p] ELSE 0
    OBVIOUS
  <2>4. last \notin rows
    OBVIOUS
  <2> HIDE DEF part, rows
  <2> QED
    BY <1>1, <2>1, <2>2, <2>3, <2>4 DEF Astray
<1>5. Shipped(from, part) \in PerItem(Int)
  BY <1>2, ShippedIs
<1>6. /\ loose' \in [Transfers -> PerItem(Int)] /\ broken' \in 0..MaxBroken
      /\ \A u \in Transfers : u # t => loose'[u] = loose[u]
      /\ \A wh \in Warehouses, p \in Products :
           loose'[t][wh][p] = loose[t][wh][p] + Shipped(from, part)[wh][p]
  <2> HIDE DEF part
  <2> QED
    BY <1>3, <1>5, LooseWrites
<1>7. \A wh \in Warehouses, p \in Products :
        loose[t][wh][p] \in Int /\ Astray(from, qty, rows, wh, p) \in Int
  BY <1>1 DEF TypeOK, PerItem, Astray
<1>8. \A wh \in Warehouses, p \in Products :
        loose'[t][wh][p] = loose[t][wh][p] - Astray(from, qty, rows, wh, p)
  <2> HIDE DEF part, rows
  <2> QED
    BY <1>4, <1>6, <1>7
<1>9. CanCreate(t, from, to, qty) /\ OpenTransfer(t, from, to, qty, rows) /\ PostTransfer(t, Shipped(from, qty))
  BY DEF CreateBreaksOff
<1>10. \A p \in rows : qty[p] > 0
  OBVIOUS
<1> HIDE DEF rows, part
<1>11. Created(t, from, to, qty, rows)
  BY <1>6, <1>8, <1>9, <1>10 DEF Created
<1> QED
  BY <1>11 DEF rows

(* The rows a creation writes.                                                 *)
NewLine(qty, rows, p) ==
  IF p \in rows THEN [st |-> "PENDING", sent |-> qty[p], received |-> 0] ELSE NoLine

LEMMA OpenWrites ==
  ASSUME TypeOK, NEW t \in Transfers, NEW from \in Warehouses, NEW to \in Warehouses,
         NEW qty \in Quantities, NEW rows \in SUBSET Products, \A p \in rows : qty[p] > 0,
         OpenTransfer(t, from, to, qty, rows)
  PROVE  /\ \A p \in Products : line'[t][p] = NewLine(qty, rows, p)
         /\ line' \in [Transfers -> [Products -> Lines]]
         /\ route'[t] = <<from, to>> /\ status'[t] = "PENDING"
         /\ route' \in [Transfers -> Routes]
         /\ status' \in [Transfers -> TransferStatus \cup {None}]
         /\ \A u \in Transfers : u # t =>
              line'[u] = line[u] /\ route'[u] = route[u] /\ status'[u] = status[u]
<1> DEFINE new == [p \in Products |-> NewLine(qty, rows, p)]
<1>1. /\ line \in [Transfers -> [Products -> Lines]] /\ route \in [Transfers -> Routes]
      /\ status \in [Transfers -> TransferStatus \cup {None}]
  BY DEF TypeOK
<1>2. \A p \in Products : NewLine(qty, rows, p) \in Lines
  BY WarehouseAssumption DEF NewLine, Lines, NoLine, LineStatus, None, Quantities
<1>3. new \in [Products -> Lines]
  BY <1>2
<1>4. line' = [line EXCEPT ![t] = new]
  BY DEF OpenTransfer, NewLine
<1>5. \A p \in Products : new[p] = NewLine(qty, rows, p)
  OBVIOUS
<1> HIDE DEF new
<1>6. line'[t] = new /\ line' \in [Transfers -> [Products -> Lines]]
  BY <1>1, <1>3, <1>4
<1>7. route' = [route EXCEPT ![t] = <<from, to>>] /\ status' = [status EXCEPT ![t] = "PENDING"]
  BY DEF OpenTransfer
<1>8. <<from, to>> \in Routes /\ "PENDING" \in TransferStatus
  BY DEF Routes, TransferStatus
<1>9. route'[t] = <<from, to>> /\ status'[t] = "PENDING" /\ route' \in [Transfers -> Routes]
  BY <1>1, <1>7, <1>8
<1>10. status' \in [Transfers -> TransferStatus \cup {None}]
  BY <1>1, <1>7, <1>8
<1>11. \A u \in Transfers : u # t =>
         line'[u] = line[u] /\ route'[u] = route[u] /\ status'[u] = status[u]
  BY <1>1, <1>4, <1>7
<1> QED
  BY <1>5, <1>6, <1>9, <1>10, <1>11

(* A new line has the status and the quantities it is given.                   *)
LEMMA NewLineIs ==
  ASSUME NEW qty \in Quantities, NEW rows \in SUBSET Products, NEW p \in Products
  PROVE  /\ p \in rows => /\ NewLine(qty, rows, p).st = "PENDING"
                          /\ NewLine(qty, rows, p).sent = qty[p]
                          /\ NewLine(qty, rows, p).received = 0
                          /\ TakenBy(NewLine(qty, rows, p)) = qty[p]
         /\ p \notin rows => /\ NewLine(qty, rows, p) = NoLine
                             /\ NewLine(qty, rows, p).st = None
                             /\ NewLine(qty, rows, p).received = 0
                             /\ TakenBy(NewLine(qty, rows, p)) = 0
  BY DEF NewLine, NoLine, TakenBy, Waiting, None

LEMMA CreateKeeps ==
  ASSUME Inv, NEW t \in Transfers, NEW from \in Warehouses, NEW to \in Warehouses,
         NEW qty \in Quantities, NEW rows \in SUBSET Products, Created(t, from, to, qty, rows)
  PROVE  Inv'
<1> DEFINE d == Shipped(from, qty)
<1> USE DEF Inv
<1>1. /\ \A p \in Products : qty[p] \in Nat
      /\ qty \in [Products -> Nat]
  BY WarehouseAssumption DEF Quantities
<1>2. /\ d \in PerItem(Int)
      /\ \A wh \in Warehouses, p \in Products : d[wh][p] = IF wh = from THEN -qty[p] ELSE 0
  BY <1>1, ShippedIs
<1>3. PostTransfer(t, d)
  BY DEF Created
<1> HIDE DEF d
<1>4. /\ ledger' \in PerItem(Int) /\ moved' \in [Transfers -> PerItem(Int)]
      /\ \A wh \in Warehouses, p \in Products : ledger'[wh][p] = ledger[wh][p] + d[wh][p]
      /\ \A wh \in Warehouses, p \in Products : moved'[t][wh][p] = moved[t][wh][p] + d[wh][p]
      /\ \A u \in Transfers : u # t => moved'[u] = moved[u]
      /\ active' = active /\ sells' = sells /\ outlets' = outlets /\ shops' = shops
      /\ entered' = entered
  BY <1>2, <1>3, PostWrites
<1>5. /\ \A p \in Products : line'[t][p] = NewLine(qty, rows, p)
      /\ line' \in [Transfers -> [Products -> Lines]]
      /\ route'[t] = <<from, to>> /\ status'[t] = "PENDING"
      /\ route' \in [Transfers -> Routes]
      /\ status' \in [Transfers -> TransferStatus \cup {None}]
      /\ \A u \in Transfers : u # t =>
           line'[u] = line[u] /\ route'[u] = route[u] /\ status'[u] = status[u]
  BY OpenWrites DEF Created
<1>6. /\ loose' \in [Transfers -> PerItem(Int)] /\ broken' \in 0..MaxBroken
      /\ \A u \in Transfers : u # t => loose'[u] = loose[u]
      /\ \A wh \in Warehouses, p \in Products :
           loose'[t][wh][p] = loose[t][wh][p] - Astray(from, qty, rows, wh, p)
  BY DEF Created
<1>7. CanCreate(t, from, to, qty)
  BY DEF Created
<1>8. TypeOK'
  BY <1>4, <1>5, <1>6 DEF TypeOK
<1>9. Filed'
  <2>1. from # to
    BY <1>7 DEF CanCreate
  <2>2. ASSUME NEW u \in Transfers
        PROVE  /\ status'[u] = None => \A p \in Products : line'[u][p].st = None
               /\ status'[u] # None => Source(route'[u]) # Dest(route'[u])
               /\ \A p \in Products : /\ line'[u][p].st = None => line'[u][p] = NoLine
                                      /\ line'[u][p].st \in Waiting => line'[u][p].received = 0
    <3>1. CASE u # t
      BY <1>5, <3>1 DEF Filed
    <3>2. CASE u = t
      <4>1. status'[t] # None /\ Source(route'[t]) # Dest(route'[t])
        BY <1>5, <2>1 DEF Source, Dest, None
      <4>2. \A p \in Products : /\ line'[t][p].st = None => line'[t][p] = NoLine
                                /\ line'[t][p].st \in Waiting => line'[t][p].received = 0
        BY <1>5, NewLineIs DEF None, Waiting
      <4> QED
        BY <3>2, <4>1, <4>2
    <3> QED
      BY <3>1, <3>2
  <2> QED
    BY <2>2 DEF Filed
<1>10. ForSale'
  BY <1>4 DEF ForSale
<1>11. Recorded'
  BY <1>2, <1>3, PostRecorded
<1>12. LineAccounted'
  <2>1. ASSUME NEW u \in Transfers, NEW wh \in Warehouses, NEW p \in Products
        PROVE  moved'[u][wh][p] = Says(u, wh, p)' + loose'[u][wh][p]
    <3>1. CASE u # t
      <4>1. Says(u, wh, p)' = Says(u, wh, p)
        BY <1>5, <3>1 DEF Says
      <4> QED
        BY <1>4, <1>6, <3>1, <4>1 DEF LineAccounted
    <3>2. CASE u = t
      <4>1. line[t][p] = NoLine
        BY <1>7 DEF CanCreate, Filed
      <4>2. line[t][p].received = 0 /\ TakenBy(line[t][p]) = 0
        BY <4>1 DEF NoLine, TakenBy, Waiting, None
      <4>3. moved[t][wh][p] = loose[t][wh][p]
        <5>1. Says(t, wh, p) = 0
          BY <4>2 DEF Says
        <5> QED
          BY <5>1, StockFields DEF LineAccounted
      <4>4. line'[t][p].received = 0 /\ TakenBy(line'[t][p]) = (IF p \in rows THEN qty[p] ELSE 0)
        BY <1>5, NewLineIs
      <4>5. Source(route'[t]) = from
        BY <1>5 DEF Source
      <4>6. Says(t, wh, p)' = 0 - (IF wh = from /\ p \in rows THEN qty[p] ELSE 0)
        BY <1>1, <4>4, <4>5 DEF Says
      <4>7. moved'[t][wh][p] = moved[t][wh][p] + (IF wh = from THEN -qty[p] ELSE 0)
        BY <1>2, <1>4
      <4>8. loose'[t][wh][p] = loose[t][wh][p] - (IF wh = from /\ p \notin rows THEN qty[p] ELSE 0)
        BY <1>6 DEF Astray
      <4>9. loose[t][wh][p] \in Int /\ qty[p] \in Int
        BY <1>1, StockFields
      <4> QED
        BY <3>2, <4>3, <4>6, <4>7, <4>8, <4>9
    <3> QED
      BY <3>1, <3>2
  <2> QED
    BY <2>1 DEF LineAccounted
<1>13. NeverOverdrawn'
  <2>1. ASSUME NEW wh \in Warehouses \ shops, NEW p \in Products PROVE ledger'[wh][p] >= 0
    <3>1. ledger[wh][p] >= 0 /\ ledger[wh][p] \in Int
      BY DEF NeverOverdrawn, TypeOK, PerItem
    <3>2. wh = from /\ qty[p] > 0 => ledger[wh][p] + (-qty[p]) >= 0
      BY <1>1, <1>7 DEF CanCreate, CanMove
    <3>3. ledger'[wh][p] = ledger[wh][p] + (IF wh = from THEN -qty[p] ELSE 0)
      BY <1>2, <1>4
    <3> QED
      BY <1>1, <3>1, <3>2, <3>3
  <2> QED
    BY <1>4, <2>1 DEF NeverOverdrawn
<1>14. CompletedWhenAnswered'
  <2>1. ASSUME NEW u \in Transfers, \E p \in Products : line'[u][p].st # None
        PROVE  status'[u] = "COMPLETED" <=> \A p \in Products : line'[u][p].st \notin Waiting
    <3>1. CASE u # t
      BY <1>5, <2>1, <3>1 DEF CompletedWhenAnswered
    <3>2. CASE u = t
      <4>1. PICK p \in Products : line'[t][p].st # None
        BY <2>1, <3>2
      <4>2. line'[t][p].st \in Waiting
        BY <1>5, <4>1, NewLineIs DEF Waiting
      <4> QED
        BY <1>5, <3>2, <4>2
    <3> QED
      BY <3>1, <3>2
  <2> QED
    BY <2>1 DEF CompletedWhenAnswered
<1> QED
  BY <1>8, <1>9, <1>10, <1>11, <1>12, <1>13, <1>14

-----------------------------------------------------------------------------
(* A line is answered.                                                         *)

LEMMA StatusOf ==
  ASSUME NEW lns
  PROVE  RefreshedStatus(lns) \in TransferStatus
  BY DEF RefreshedStatus, TransferStatus

LEMMA AnswerWrites ==
  ASSUME TypeOK, NEW t \in Transfers, NEW p \in Products, NEW st \in {"APPROVED", "REJECTED"},
         NEW n \in 0..MaxQty, n <= line[t][p].sent, line[t][p].st \in Waiting,
         AnswerLine(t, p, st, n)
  PROVE  /\ line'[t][p].st = st /\ line'[t][p].received = n /\ line'[t][p].sent = line[t][p].sent
         /\ line' \in [Transfers -> [Products -> Lines]]
         /\ \A u \in Transfers, q \in Products : ~(u = t /\ q = p) => line'[u][q] = line[u][q]
         /\ status' \in [Transfers -> TransferStatus \cup {None}]
         /\ \A u \in Transfers \ {t} : status'[u] = status[u]
         /\ status'[t] = "COMPLETED" <=> \A q \in Products : line'[t][q].st \notin Waiting
         /\ status'[t] # None
         /\ route' = route
<1> DEFINE new == [line[t][p] EXCEPT !.st = st, !.received = n]
           sts == {line'[t][q].st : q \in Products} \ {None}
<1>1. line[t] \in [Products -> Lines] /\ line[t][p] \in Lines /\ line \in [Transfers -> [Products -> Lines]]
  BY DEF TypeOK
<1>2. line[t][p].sent > 0
  BY <1>1 DEF Lines, Waiting, None
<1>3. new.st = st /\ new.received = n /\ new.sent = line[t][p].sent
  BY <1>1 DEF Lines
<1>4. new \in Lines
  <2>1. new \in [st : LineStatus \cup {None}, sent : 0..MaxQty, received : 0..MaxQty]
    BY <1>1 DEF Lines, LineStatus
  <2> HIDE DEF new
  <2> QED
    BY <1>2, <1>3, <2>1 DEF Lines
<1>5. line' = [line EXCEPT ![t][p] = new]
  BY <1>1 DEF AnswerLine, Lines
<1>6. status' = [status EXCEPT ![t] = RefreshedStatus(line'[t])] /\ route' = route
  BY DEF AnswerLine
<1> HIDE DEF new
<1>7. line'[t][p] = new
  BY <1>1, <1>5
<1>8. \A u \in Transfers, q \in Products : ~(u = t /\ q = p) => line'[u][q] = line[u][q]
  BY <1>1, <1>5
<1>9. line' \in [Transfers -> [Products -> Lines]]
  BY <1>1, <1>4, <1>5
<1>10. status'[t] = RefreshedStatus(line'[t]) /\ \A u \in Transfers \ {t} : status'[u] = status[u]
  BY <1>6 DEF TypeOK
<1>11. status' \in [Transfers -> TransferStatus \cup {None}]
  BY <1>6, StatusOf DEF TypeOK
<1>12. st \in sts
  BY <1>3, <1>7 DEF None
<1>13. (sts \cap Waiting = {}) <=> \A q \in Products : line'[t][q].st \notin Waiting
  BY DEF Waiting, None
<1>14. RefreshedStatus(line'[t]) = "COMPLETED" <=> sts \cap Waiting = {}
  BY <1>12 DEF RefreshedStatus
<1>15. status'[t] # None
  BY <1>10, StatusOf DEF TransferStatus, None
<1> QED
  BY <1>3, <1>6, <1>7, <1>8, <1>9, <1>10, <1>11, <1>13, <1>14, <1>15

(* An answer is given to a line: n of what it sent is at the recipient, the    *)
(* rest at the sender again.                                                   *)
Counted(t, p, st, n) ==
  /\ line[t][p].st \in Waiting
  /\ n <= line[t][p].sent
  /\ AnswerLine(t, p, st, n)
  /\ PostTransfer(t, Answered(t, p, line[t][p].sent - n, n))
  /\ UNCHANGED ghost

LEMMA ApproveIsCounted ==
  ASSUME NEW t \in Transfers, NEW p \in Products, NEW n \in 1..MaxQty, ApproveLine(t, p, n)
  PROVE  Counted(t, p, "APPROVED", n)
  BY DEF ApproveLine, CanApprove, Counted

LEMMA RejectIsCounted ==
  ASSUME TypeOK, NEW t \in Transfers, NEW p \in Products, RejectLine(t, p)
  PROVE  Counted(t, p, "REJECTED", 0)
<1>1. line[t][p].sent \in Nat /\ line[t][p].sent - 0 = line[t][p].sent
  BY LineFields, WarehouseAssumption
<1> HIDE DEF TypeOK
<1> QED
  BY <1>1 DEF RejectLine, CanReject, Counted

(* The ends of a transfer with a waiting line are two warehouses.              *)
LEMMA WaitingEnds ==
  ASSUME TypeOK, Filed, NEW t \in Transfers, NEW p \in Products, line[t][p].st \in Waiting
  PROVE  /\ Source(route[t]) \in Warehouses /\ Dest(route[t]) \in Warehouses
         /\ Source(route[t]) # Dest(route[t])
         /\ line[t][p].received = 0 /\ TakenBy(line[t][p]) = line[t][p].sent
         /\ line[t][p].sent \in Nat \ {0}
<1>1. line[t][p].st # None
  BY DEF Waiting, None
<1> QED
  BY <1>1, RouteEnds, LineFields, WarehouseAssumption DEF Filed, TakenBy

LEMMA CountedKeeps ==
  ASSUME Inv, NEW t \in Transfers, NEW p \in Products, NEW st \in {"APPROVED", "REJECTED"},
         NEW n \in 0..MaxQty, Counted(t, p, st, n)
  PROVE  Inv'
<1> DEFINE sent == line[t][p].sent
           d == Answered(t, p, sent - n, n)
<1>0. /\ TypeOK /\ Filed /\ ForSale /\ Recorded /\ LineAccounted /\ NeverOverdrawn
      /\ CompletedWhenAnswered
  BY DEF Inv
<1>1. /\ line[t][p].st \in Waiting /\ n <= sent /\ n \in Nat
      /\ AnswerLine(t, p, st, n) /\ PostTransfer(t, d)
      /\ loose' = loose /\ broken' = broken
  BY WarehouseAssumption DEF Counted, ghost
<1>2. /\ Source(route[t]) \in Warehouses /\ Dest(route[t]) \in Warehouses
      /\ Source(route[t]) # Dest(route[t])
      /\ line[t][p].received = 0 /\ TakenBy(line[t][p]) = sent /\ sent \in Nat
  BY <1>0, <1>1, WaitingEnds
<1>3. /\ d \in PerItem(Int)
      /\ \A wh \in Warehouses, q \in Products :
           d[wh][q] = IF q # p THEN 0 ELSE IF wh = Dest(route[t]) THEN n
                      ELSE IF wh = Source(route[t]) THEN sent - n ELSE 0
  <2>1. n \in Int /\ sent - n \in Int
    BY <1>1, <1>2
  <2> HIDE DEF sent
  <2> QED
    BY <2>1, AnsweredIs
<1> HIDE DEF d
<1>4. /\ ledger' \in PerItem(Int) /\ moved' \in [Transfers -> PerItem(Int)]
      /\ \A wh \in Warehouses, q \in Products : ledger'[wh][q] = ledger[wh][q] + d[wh][q]
      /\ \A wh \in Warehouses, q \in Products : moved'[t][wh][q] = moved[t][wh][q] + d[wh][q]
      /\ \A u \in Transfers : u # t => moved'[u] = moved[u]
      /\ active' = active /\ sells' = sells /\ outlets' = outlets /\ shops' = shops
      /\ entered' = entered
  BY <1>0, <1>1, <1>3, PostWrites
<1>5. /\ line'[t][p].st = st /\ line'[t][p].received = n /\ line'[t][p].sent = sent
      /\ line' \in [Transfers -> [Products -> Lines]]
      /\ \A u \in Transfers, q \in Products : ~(u = t /\ q = p) => line'[u][q] = line[u][q]
      /\ status' \in [Transfers -> TransferStatus \cup {None}]
      /\ \A u \in Transfers \ {t} : status'[u] = status[u]
      /\ status'[t] = "COMPLETED" <=> \A q \in Products : line'[t][q].st \notin Waiting
      /\ status'[t] # None /\ route' = route
  BY <1>0, <1>1, AnswerWrites
<1>6. status[t] # None
  BY <1>0, <1>1 DEF Filed, Waiting, None
<1>7. TypeOK'
  BY <1>0, <1>1, <1>4, <1>5 DEF TypeOK
<1>8. Filed'
  <2>1. ASSUME NEW u \in Transfers
        PROVE  /\ status'[u] = None => \A q \in Products : line'[u][q].st = None
               /\ status'[u] # None => Source(route'[u]) # Dest(route'[u])
               /\ \A q \in Products : /\ line'[u][q].st = None => line'[u][q] = NoLine
                                      /\ line'[u][q].st \in Waiting => line'[u][q].received = 0
    <3>1. status'[u] = None => \A q \in Products : line'[u][q].st = None
      BY <1>0, <1>5 DEF Filed
    <3>2. status'[u] # None => Source(route'[u]) # Dest(route'[u])
      BY <1>0, <1>2, <1>5 DEF Filed
    <3>3. \A q \in Products : /\ line'[u][q].st = None => line'[u][q] = NoLine
                              /\ line'[u][q].st \in Waiting => line'[u][q].received = 0
      BY <1>0, <1>5 DEF Filed, None, Waiting
    <3> QED
      BY <3>1, <3>2, <3>3
  <2> QED
    BY <2>1 DEF Filed
<1>9. ForSale'
  BY <1>0, <1>4 DEF ForSale
<1>10. Recorded'
  BY <1>0, <1>1, <1>3, PostRecorded
<1>11. LineAccounted'
  <2>1. ASSUME NEW u \in Transfers, NEW wh \in Warehouses, NEW q \in Products
        PROVE  moved'[u][wh][q] = Says(u, wh, q)' + loose'[u][wh][q]
    <3>1. moved[u][wh][q] = Says(u, wh, q) + loose[u][wh][q]
      BY <1>0 DEF LineAccounted
    <3>2. moved[u][wh][q] \in Int /\ loose[u][wh][q] \in Int /\ Says(u, wh, q) \in Int
      BY <1>0, StockFields
    <3>3. CASE u # t
      <4>1. Says(u, wh, q)' = Says(u, wh, q)
        BY <1>5, <3>3 DEF Says
      <4> QED
        BY <1>1, <1>4, <3>1, <3>3, <4>1
    <3>4. CASE u = t /\ q # p
      <4>1. Says(u, wh, q)' = Says(u, wh, q)
        BY <1>5, <3>4 DEF Says
      <4>2. moved'[t][wh][q] = moved[t][wh][q] + 0
        BY <1>3, <1>4, <3>4
      <4> QED
        BY <1>1, <3>1, <3>2, <3>4, <4>1, <4>2
    <3>5. CASE u = t /\ q = p
      <4>1. TakenBy(line'[t][p]) = n /\ line'[t][p].received = n
        BY <1>5 DEF TakenBy, Waiting
      <4>2. Says(t, wh, p) = IF wh = Source(route[t]) THEN 0 - sent ELSE 0
        BY <1>2 DEF Says
      <4>3. Says(t, wh, p)' = (IF wh = Dest(route[t]) THEN n ELSE 0)
                            - (IF wh = Source(route[t]) THEN n ELSE 0)
        BY <1>5, <4>1 DEF Says
      <4>4. moved'[t][wh][p] = moved[t][wh][p] + (IF wh = Dest(route[t]) THEN n
                                 ELSE IF wh = Source(route[t]) THEN sent - n ELSE 0)
        BY <1>3, <1>4
      <4>5. CASE wh = Dest(route[t])
        BY <1>1, <1>2, <3>1, <3>2, <3>5, <4>2, <4>3, <4>4, <4>5
      <4>6. CASE wh # Dest(route[t])
        BY <1>1, <1>2, <3>1, <3>2, <3>5, <4>2, <4>3, <4>4, <4>6
      <4> QED
        BY <4>5, <4>6
    <3> QED
      BY <3>3, <3>4, <3>5
  <2> QED
    BY <2>1 DEF LineAccounted
<1>12. NeverOverdrawn'
  <2>1. ASSUME NEW wh \in Warehouses \ shops, NEW q \in Products PROVE ledger'[wh][q] >= 0
    <3>1. ledger[wh][q] >= 0 /\ ledger[wh][q] \in Int
      BY <1>0 DEF NeverOverdrawn, TypeOK, PerItem
    <3>2. d[wh][q] \in Nat
      <4>1. sent - n \in Nat
        BY <1>1, <1>2
      <4> HIDE DEF sent
      <4> QED
        BY <1>1, <1>3, <4>1
    <3> QED
      BY <1>4, <3>1, <3>2
  <2> QED
    BY <1>4, <2>1 DEF NeverOverdrawn
<1>13. CompletedWhenAnswered'
  <2>1. ASSUME NEW u \in Transfers, \E q \in Products : line'[u][q].st # None
        PROVE  status'[u] = "COMPLETED" <=> \A q \in Products : line'[u][q].st \notin Waiting
    <3>1. CASE u # t
      <4>1. status'[u] = status[u] /\ \A q \in Products : line'[u][q] = line[u][q]
        BY <1>5, <3>1
      <4> QED
        BY <1>0, <2>1, <4>1 DEF CompletedWhenAnswered
    <3>2. CASE u = t
      BY <1>5, <3>2
    <3> QED
      BY <3>1, <3>2
  <2> QED
    BY <2>1 DEF CompletedWhenAnswered
<1> QED
  BY <1>7, <1>8, <1>9, <1>10, <1>11, <1>12, <1>13 DEF Inv

-----------------------------------------------------------------------------
(* The other requests.                                                         *)

(* An answer broke off: back and got are where they were meant to be, and the  *)
(* line is as it was.                                                          *)
Misplaced(t, p, back, got) ==
  /\ line[t][p].st \in Waiting
  /\ back + got <= line[t][p].sent
  /\ PostTransfer(t, Answered(t, p, back, got))
  /\ LeftLoose(t, Answered(t, p, back, got))
  /\ UNCHANGED docs

LEMMA BrokenIsMisplaced ==
  ASSUME TypeOK, NEW t \in Transfers, NEW p \in Products
  PROVE  /\ \A n \in 1..MaxQty : ApproveBreaksOff(t, p, n) =>
              \E back, got \in Nat : back + got > 0 /\ Misplaced(t, p, back, got)
         /\ RejectBreaksOff(t, p) =>
              \E back, got \in Nat : back + got > 0 /\ Misplaced(t, p, back, got)
<1>1. line[t][p].sent \in Nat /\ (line[t][p].st \in Waiting => line[t][p].sent > 0)
  <2>1. line[t][p].st \in Waiting => line[t][p].st # None
    BY DEF Waiting, None
  <2> QED
    BY <2>1, LineFields, WarehouseAssumption
<1>2. ASSUME NEW n \in 1..MaxQty, ApproveBreaksOff(t, p, n)
      PROVE  \E back, got \in Nat : back + got > 0 /\ Misplaced(t, p, back, got)
  <2> DEFINE back == line[t][p].sent - n
  <2>1. back \in Nat /\ n \in Nat \ {0} /\ back + 0 = back /\ back + n = line[t][p].sent
        /\ back <= line[t][p].sent /\ line[t][p].st \in Waiting
    BY <1>1, <1>2, WarehouseAssumption DEF ApproveBreaksOff, CanApprove
  <2>2. UNCHANGED docs
    BY <1>2 DEF ApproveBreaksOff
  <2>3. CASE back > 0 /\ PostTransfer(t, Answered(t, p, back, 0)) /\ LeftLoose(t, Answered(t, p, back, 0))
    <3>1. Misplaced(t, p, back, 0)
      BY <2>1, <2>2, <2>3 DEF Misplaced
    <3> HIDE DEF back
    <3> QED
      BY <2>1, <2>3, <3>1
  <2>4. CASE PostTransfer(t, Answered(t, p, back, n)) /\ LeftLoose(t, Answered(t, p, back, n))
    <3>1. Misplaced(t, p, back, n)
      BY <2>1, <2>2, <2>4, <1>1 DEF Misplaced
    <3> HIDE DEF back
    <3>2. back + n > 0
      BY <2>1
    <3> QED
      BY <2>1, <3>1, <3>2
  <2> QED
    BY <1>2, <2>3, <2>4 DEF ApproveBreaksOff
<1>3. ASSUME RejectBreaksOff(t, p)
      PROVE  \E back, got \in Nat : back + got > 0 /\ Misplaced(t, p, back, got)
  <2> DEFINE back == line[t][p].sent
  <2>1. back \in Nat /\ back + 0 <= back /\ back + 0 > 0
    BY <1>1, <1>3 DEF RejectBreaksOff, CanReject
  <2>2. Misplaced(t, p, back, 0)
    BY <1>3, <2>1 DEF RejectBreaksOff, CanReject, Misplaced
  <2> HIDE DEF back
  <2> QED
    BY <2>1, <2>2
<1> QED
  BY <1>2, <1>3

LEMMA MisplacedKeeps ==
  ASSUME Inv, NEW t \in Transfers, NEW p \in Products, NEW back \in Nat, NEW got \in Nat,
         Misplaced(t, p, back, got)
  PROVE  Inv'
<1> DEFINE d == Answered(t, p, back, got)
<1>0. /\ TypeOK /\ Filed /\ ForSale /\ Recorded /\ LineAccounted /\ NeverOverdrawn
      /\ CompletedWhenAnswered
  BY DEF Inv
<1>1. /\ PostTransfer(t, d) /\ LeftLoose(t, d)
      /\ route' = route /\ status' = status /\ line' = line
  BY DEF Misplaced, docs
<1>2. /\ d \in PerItem(Int)
      /\ \A wh \in Warehouses, q \in Products :
           d[wh][q] = IF q # p THEN 0 ELSE IF wh = Dest(route[t]) THEN got
                      ELSE IF wh = Source(route[t]) THEN back ELSE 0
  BY AnsweredIs
<1> HIDE DEF d
<1>3. \A wh \in Warehouses, q \in Products : d[wh][q] \in Nat
  BY <1>2
<1>4. /\ ledger' \in PerItem(Int) /\ moved' \in [Transfers -> PerItem(Int)]
      /\ \A wh \in Warehouses, q \in Products : ledger'[wh][q] = ledger[wh][q] + d[wh][q]
      /\ \A wh \in Warehouses, q \in Products : moved'[t][wh][q] = moved[t][wh][q] + d[wh][q]
      /\ \A u \in Transfers : u # t => moved'[u] = moved[u]
      /\ active' = active /\ sells' = sells /\ outlets' = outlets /\ shops' = shops
      /\ entered' = entered
  BY <1>0, <1>1, <1>2, PostWrites
<1>5. /\ loose' \in [Transfers -> PerItem(Int)] /\ broken' \in 0..MaxBroken
      /\ \A wh \in Warehouses, q \in Products : loose'[t][wh][q] = loose[t][wh][q] + d[wh][q]
      /\ \A u \in Transfers : u # t => loose'[u] = loose[u]
  BY <1>0, <1>1, <1>2, LooseWrites
<1>6. TypeOK'
  BY <1>0, <1>1, <1>4, <1>5 DEF TypeOK
<1>7. Filed' /\ CompletedWhenAnswered'
  BY <1>0, <1>1 DEF Filed, CompletedWhenAnswered
<1>8. ForSale'
  BY <1>0, <1>4 DEF ForSale
<1>9. Recorded'
  BY <1>0, <1>1, <1>2, PostRecorded
<1>10. LineAccounted'
  <2>1. ASSUME NEW u \in Transfers, NEW wh \in Warehouses, NEW q \in Products
        PROVE  moved'[u][wh][q] = Says(u, wh, q)' + loose'[u][wh][q]
    <3>1. moved[u][wh][q] = Says(u, wh, q) + loose[u][wh][q]
      BY <1>0 DEF LineAccounted
    <3>2. /\ moved[u][wh][q] \in Int /\ loose[u][wh][q] \in Int /\ Says(u, wh, q) \in Int
          /\ d[wh][q] \in Int
      BY <1>0, <1>3, StockFields
    <3>3. Says(u, wh, q)' = Says(u, wh, q)
      BY <1>1 DEF Says
    <3>4. CASE u = t
      BY <1>4, <1>5, <3>1, <3>2, <3>3, <3>4
    <3>5. CASE u # t
      BY <1>4, <1>5, <3>1, <3>3, <3>5
    <3> QED
      BY <3>4, <3>5
  <2> QED
    BY <2>1 DEF LineAccounted
<1>11. NeverOverdrawn'
  <2>1. ASSUME NEW wh \in Warehouses \ shops, NEW q \in Products PROVE ledger'[wh][q] >= 0
    <3>1. ledger[wh][q] >= 0 /\ ledger[wh][q] \in Int
      BY <1>0 DEF NeverOverdrawn, TypeOK, PerItem
    <3> QED
      BY <1>3, <1>4, <3>1
  <2> QED
    BY <1>4, <2>1 DEF NeverOverdrawn
<1> QED
  BY <1>6, <1>7, <1>8, <1>9, <1>10, <1>11 DEF Inv

(* A request to modify a pending line.                                         *)
LEMMA ModifyWrites ==
  ASSUME TypeOK, Filed, NEW t \in Transfers, NEW p \in Products, RequestModify(t, p)
  PROVE  /\ line'[t][p].st = "MODIFY_REQUESTED" /\ line'[t][p].sent = line[t][p].sent
         /\ line'[t][p].received = 0 /\ line[t][p].received = 0
         /\ line[t][p].st = "PENDING"
         /\ line' \in [Transfers -> [Products -> Lines]]
         /\ \A u \in Transfers, q \in Products : ~(u = t /\ q = p) => line'[u][q] = line[u][q]
         /\ status' \in [Transfers -> TransferStatus \cup {None}]
         /\ \A u \in Transfers \ {t} : status'[u] = status[u]
         /\ status'[t] = "PARTIAL" /\ status[t] # None
<1> DEFINE new == [line[t][p] EXCEPT !.st = "MODIFY_REQUESTED"]
<1>1. line[t] \in [Products -> Lines] /\ line[t][p] \in Lines /\ line \in [Transfers -> [Products -> Lines]]
  BY DEF TypeOK
<1>2. /\ line[t][p].st = "PENDING" /\ line' = [line EXCEPT ![t][p].st = "MODIFY_REQUESTED"]
      /\ status' = [status EXCEPT ![t] = "PARTIAL"]
  BY DEF RequestModify, CanModify
<1>3. new.st = "MODIFY_REQUESTED" /\ new.sent = line[t][p].sent /\ new.received = line[t][p].received
  BY <1>1 DEF Lines
<1>4. new \in Lines
  <2>1. new \in [st : LineStatus \cup {None}, sent : 0..MaxQty, received : 0..MaxQty]
    BY <1>1 DEF Lines, LineStatus
  <2>2. line[t][p].received <= line[t][p].sent /\ line[t][p].sent > 0
    BY <1>1, <1>2 DEF Lines, None
  <2> HIDE DEF new
  <2> QED
    BY <1>3, <2>1, <2>2 DEF Lines
<1>5. line' = [line EXCEPT ![t][p] = new]
  BY <1>1, <1>2
<1> HIDE DEF new
<1>6. line'[t][p] = new /\ line' \in [Transfers -> [Products -> Lines]]
  BY <1>1, <1>4, <1>5
<1>7. \A u \in Transfers, q \in Products : ~(u = t /\ q = p) => line'[u][q] = line[u][q]
  BY <1>1, <1>5
<1>8. line[t][p].received = 0 /\ status[t] # None
  BY <1>2 DEF Filed, Waiting, None
<1>9. /\ status' \in [Transfers -> TransferStatus \cup {None}] /\ status'[t] = "PARTIAL"
      /\ \A u \in Transfers \ {t} : status'[u] = status[u]
  BY <1>2 DEF TypeOK, TransferStatus
<1> QED
  BY <1>2, <1>3, <1>6, <1>7, <1>8, <1>9

LEMMA ModifyKeeps ==
  ASSUME Inv, NEW t \in Transfers, NEW p \in Products, RequestModify(t, p)
  PROVE  Inv'
<1>0. /\ TypeOK /\ Filed /\ ForSale /\ Recorded /\ LineAccounted /\ NeverOverdrawn
      /\ CompletedWhenAnswered
  BY DEF Inv
<1>1. /\ UNCHANGED <<active, sells, outlets, shops, ledger, moved, entered, loose, broken>>
      /\ route' = route
  BY DEF RequestModify, selling, stock, ghost
<1>2. /\ line'[t][p].st = "MODIFY_REQUESTED" /\ line'[t][p].sent = line[t][p].sent
      /\ line'[t][p].received = 0 /\ line[t][p].received = 0
      /\ line[t][p].st = "PENDING"
      /\ line' \in [Transfers -> [Products -> Lines]]
      /\ \A u \in Transfers, q \in Products : ~(u = t /\ q = p) => line'[u][q] = line[u][q]
      /\ status' \in [Transfers -> TransferStatus \cup {None}]
      /\ \A u \in Transfers \ {t} : status'[u] = status[u]
      /\ status'[t] = "PARTIAL" /\ status[t] # None
  BY <1>0, ModifyWrites
<1>3. TypeOK'
  BY <1>0, <1>1, <1>2 DEF TypeOK
<1>4. Filed'
  <2>1. ASSUME NEW u \in Transfers
        PROVE  /\ status'[u] = None => \A q \in Products : line'[u][q].st = None
               /\ status'[u] # None => Source(route'[u]) # Dest(route'[u])
               /\ \A q \in Products : /\ line'[u][q].st = None => line'[u][q] = NoLine
                                      /\ line'[u][q].st \in Waiting => line'[u][q].received = 0
    <3>1. status'[u] = None => \A q \in Products : line'[u][q].st = None
      BY <1>0, <1>2 DEF Filed, None
    <3>2. status'[u] # None => Source(route'[u]) # Dest(route'[u])
      BY <1>0, <1>1, <1>2 DEF Filed
    <3>3. \A q \in Products : /\ line'[u][q].st = None => line'[u][q] = NoLine
                              /\ line'[u][q].st \in Waiting => line'[u][q].received = 0
      BY <1>0, <1>2 DEF Filed, None
    <3> QED
      BY <3>1, <3>2, <3>3
  <2> QED
    BY <2>1 DEF Filed
<1>5. ForSale' /\ Recorded' /\ NeverOverdrawn'
  BY <1>0, <1>1 DEF ForSale, Recorded, NeverOverdrawn, SumOfMoves
<1>6. LineAccounted'
  <2>1. ASSUME NEW u \in Transfers, NEW wh \in Warehouses, NEW q \in Products
        PROVE  Says(u, wh, q)' = Says(u, wh, q)
    <3>1. TakenBy(line'[t][p]) = TakenBy(line[t][p])
      BY <1>2 DEF TakenBy, Waiting
    <3>2. TakenBy(line'[u][q]) = TakenBy(line[u][q]) /\ line'[u][q].received = line[u][q].received
      BY <1>2, <3>1
    <3> QED
      BY <1>1, <3>2 DEF Says
  <2> QED
    BY <1>0, <1>1, <2>1 DEF LineAccounted
<1>7. CompletedWhenAnswered'
  <2>1. ASSUME NEW u \in Transfers, \E q \in Products : line'[u][q].st # None
        PROVE  status'[u] = "COMPLETED" <=> \A q \in Products : line'[u][q].st \notin Waiting
    <3>1. CASE u # t
      <4>1. status'[u] = status[u] /\ \A q \in Products : line'[u][q] = line[u][q]
        BY <1>2, <3>1
      <4> QED
        BY <1>0, <2>1, <4>1 DEF CompletedWhenAnswered
    <3>2. CASE u = t
      BY <1>2, <3>2 DEF Waiting
    <3> QED
      BY <3>1, <3>2
  <2> QED
    BY <2>1 DEF CompletedWhenAnswered
<1> QED
  BY <1>3, <1>4, <1>5, <1>6, <1>7 DEF Inv

(* A sale, purchase or adjustment: only a warehouse for sale is overdrawn.     *)
LEMMA MovementWrites ==
  ASSUME Inv, NEW wh \in Warehouses, NEW p \in Products, NEW delta \in (-MaxQty)..MaxQty,
         NEW isSale \in BOOLEAN, Movement(wh, p, delta, isSale)
  PROVE  /\ ledger' = [ledger EXCEPT ![wh][p] = @ + delta]
         /\ entered' = [entered EXCEPT ![p] = @ + delta]
         /\ UNCHANGED <<active, sells, outlets, shops, moved, route, status, line, loose, broken>>
         /\ delta \in Int
         /\ wh \in shops \/ ledger[wh][p] + delta >= 0
<1>1. delta \in Int
  BY WarehouseAssumption
<1>2. /\ ledger' = [ledger EXCEPT ![wh][p] = @ + delta]
      /\ entered' = [entered EXCEPT ![p] = @ + delta]
      /\ UNCHANGED <<active, sells, outlets, shops, moved, route, status, line, loose, broken>>
  BY DEF Movement, selling, docs, ghost
<1>3. isSale => wh \in shops
  BY DEF Movement, SoldFrom, Inv, ForSale
<1>4. wh \in shops \/ ledger[wh][p] >= 0
  BY DEF Inv, NeverOverdrawn
<1>5. ledger[wh][p] \in Int
  BY DEF Inv, TypeOK, PerItem
<1>6. ~isSale /\ delta < 0 => ledger[wh][p] + delta >= 0
  BY DEF Movement, CanMove
<1> QED
  BY <1>1, <1>2, <1>3, <1>4, <1>5, <1>6

LEMMA MovementKeeps ==
  ASSUME Inv, NEW wh \in Warehouses, NEW p \in Products, NEW delta \in (-MaxQty)..MaxQty,
         NEW isSale \in BOOLEAN, Movement(wh, p, delta, isSale)
  PROVE  Inv'
<1>0. /\ TypeOK /\ Filed /\ ForSale /\ Recorded /\ LineAccounted /\ NeverOverdrawn
      /\ CompletedWhenAnswered
  BY DEF Inv
<1>1. /\ ledger' = [ledger EXCEPT ![wh][p] = @ + delta]
      /\ entered' = [entered EXCEPT ![p] = @ + delta]
      /\ UNCHANGED <<active, sells, outlets, shops, moved, route, status, line, loose, broken>>
      /\ delta \in Int
      /\ wh \in shops \/ ledger[wh][p] + delta >= 0
  BY MovementWrites
<1>2. /\ \A w \in Warehouses, q \in Products : ledger[w][q] \in Int
      /\ ledger \in [Warehouses -> [Products -> Int]]
  BY <1>0 DEF TypeOK, PerItem
<1>3. ledger' \in [Warehouses -> [Products -> Int]]
  BY <1>1, <1>2
<1>4. entered' \in [Products -> Int]
  BY <1>0, <1>1 DEF TypeOK
<1>5. \A w \in Warehouses, q \in Products :
        ledger'[w][q] = IF w = wh /\ q = p THEN ledger[w][q] + delta ELSE ledger[w][q]
  BY <1>1, <1>2
<1>6. TypeOK'
  BY <1>0, <1>1, <1>3, <1>4 DEF TypeOK, PerItem
<1>7. Filed' /\ ForSale' /\ CompletedWhenAnswered'
  BY <1>0, <1>1 DEF Filed, ForSale, CompletedWhenAnswered
<1>8. LineAccounted'
  <2>1. \A t \in Transfers, w \in Warehouses, q \in Products : Says(t, w, q)' = Says(t, w, q)
    BY <1>1 DEF Says
  <2> QED
    BY <1>0, <1>1, <2>1 DEF LineAccounted
<1>9. Recorded'
  BY <1>0, <1>1, MovementRecorded
<1>10. NeverOverdrawn'
  BY <1>0, <1>1, <1>5 DEF NeverOverdrawn
<1> QED
  BY <1>6, <1>7, <1>8, <1>9, <1>10 DEF Inv

(* The switches and outlets of warehouses: what is for sale only grows.        *)
LEMMA SwitchKeeps ==
  ASSUME Inv, UNCHANGED <<stock, docs, ghost>>,
         active' \in [Warehouses -> BOOLEAN], sells' \in [Warehouses -> BOOLEAN],
         outlets' \in SUBSET Warehouses, shops' \in SUBSET Warehouses,
         shops \subseteq shops', ForSale'
  PROVE  Inv'
<1>0. /\ TypeOK /\ Filed /\ ForSale /\ Recorded /\ LineAccounted /\ NeverOverdrawn
      /\ CompletedWhenAnswered
  BY DEF Inv
<1>1. UNCHANGED <<ledger, moved, entered, route, status, line, loose, broken>>
  BY DEF stock, docs, ghost
<1>2. TypeOK'
  BY <1>0, <1>1 DEF TypeOK
<1>3. Filed' /\ CompletedWhenAnswered' /\ NeverOverdrawn'
  BY <1>0, <1>1 DEF Filed, CompletedWhenAnswered, NeverOverdrawn
<1>4. Recorded'
  BY <1>0, <1>1 DEF Recorded, SumOfMoves
<1>5. LineAccounted'
  <2>1. \A t \in Transfers, w \in Warehouses, q \in Products : Says(t, w, q)' = Says(t, w, q)
    BY <1>1 DEF Says
  <2> QED
    BY <1>0, <1>1, <2>1 DEF LineAccounted
<1> QED
  BY <1>2, <1>3, <1>4, <1>5 DEF Inv

LEMMA SetActiveKeeps ==
  ASSUME Inv, NEW wh \in Warehouses, NEW on \in BOOLEAN, NEW flag \in BOOLEAN,
         SetActive(wh, on, flag)
  PROVE  Inv'
<1>1. /\ active \in [Warehouses -> BOOLEAN] /\ sells \in [Warehouses -> BOOLEAN]
      /\ outlets \in SUBSET Warehouses /\ shops \in SUBSET Warehouses
      /\ outlets \subseteq shops /\ \A w \in Warehouses : sells[w] => w \in shops
  BY DEF Inv, TypeOK, ForSale
<1>2. /\ active' = [active EXCEPT ![wh] = on] /\ sells' = [sells EXCEPT ![wh] = flag]
      /\ shops' = IF flag THEN shops \cup {wh} ELSE shops
      /\ outlets' = outlets /\ UNCHANGED <<stock, docs, ghost>>
  BY DEF SetActive
<1>3. active' \in [Warehouses -> BOOLEAN] /\ sells' \in [Warehouses -> BOOLEAN]
  BY <1>1, <1>2
<1>4. shops' \in SUBSET Warehouses /\ shops \subseteq shops' /\ outlets' \in SUBSET Warehouses
  BY <1>1, <1>2
<1>5. ForSale'
  <2>1. ASSUME NEW w \in Warehouses, sells'[w] PROVE w \in shops'
    <3>1. CASE w = wh
      BY <1>1, <1>2, <2>1, <3>1, Zenon
    <3>2. CASE w # wh
      <4>1. sells'[w] = sells[w]
        BY <1>1, <1>2, <3>2
      <4> QED
        BY <1>1, <1>4, <2>1, <4>1
    <3> QED
      BY <3>1, <3>2
  <2> QED
    BY <1>1, <1>2, <1>4, <2>1 DEF ForSale
<1> QED
  BY <1>2, <1>3, <1>4, <1>5, SwitchKeeps

LEMMA OutletKeeps ==
  ASSUME Inv, NEW wh \in Warehouses, OpenOutlet(wh) \/ CloseOutlet(wh)
  PROVE  Inv'
<1>1. /\ active \in [Warehouses -> BOOLEAN] /\ sells \in [Warehouses -> BOOLEAN]
      /\ outlets \in SUBSET Warehouses /\ shops \in SUBSET Warehouses
      /\ ForSale
  BY DEF Inv, TypeOK
<1>2. /\ active' = active /\ sells' = sells /\ UNCHANGED <<stock, docs, ghost>>
      /\ outlets' \in SUBSET Warehouses /\ shops' \in SUBSET Warehouses
      /\ shops \subseteq shops' /\ outlets' \subseteq shops'
  BY <1>1 DEF OpenOutlet, CloseOutlet, ForSale
<1>3. ForSale'
  BY <1>1, <1>2 DEF ForSale
<1> QED
  BY <1>1, <1>2, <1>3, SwitchKeeps

LEMMA StepInv == Inv /\ [Next]_vars => Inv'
<1> SUFFICES ASSUME Inv, [Next]_vars PROVE Inv'
  OBVIOUS
<1>0. TypeOK
  BY DEF Inv
<1>1. ASSUME NEW t \in Transfers, NEW from \in Warehouses, NEW to \in Warehouses,
             NEW qty \in Quantities, CreateTransfer(t, from, to, qty)
      PROVE  Inv'
  <2> DEFINE rows == {p \in Products : qty[p] > 0}
  <2>1. rows \in SUBSET Products
    OBVIOUS
  <2>2. Created(t, from, to, qty, rows)
    BY <1>0, <1>1, CreateIsCreated
  <2> HIDE DEF rows
  <2> QED
    BY <2>1, <2>2, CreateKeeps
<1>2. ASSUME NEW t \in Transfers, NEW from \in Warehouses, NEW to \in Warehouses,
             NEW qty \in Quantities, NEW last \in Products, CreateBreaksOff(t, from, to, qty, last)
      PROVE  Inv'
  <2> DEFINE rows == {p \in Products : qty[p] > 0} \ {last}
  <2>1. rows \in SUBSET Products
    OBVIOUS
  <2>2. Created(t, from, to, qty, rows)
    BY <1>0, <1>2, BrokenIsCreated
  <2> HIDE DEF rows
  <2> QED
    BY <2>1, <2>2, CreateKeeps
<1>3. ASSUME NEW t \in Transfers, NEW p \in Products, NEW n \in 1..MaxQty, ApproveLine(t, p, n)
      PROVE  Inv'
  <2>1. n \in 0..MaxQty
    BY WarehouseAssumption
  <2> QED
    BY <1>3, <2>1, ApproveIsCounted, CountedKeeps
<1>4. ASSUME NEW t \in Transfers, NEW p \in Products, NEW n \in 1..MaxQty, ApproveBreaksOff(t, p, n)
      PROVE  Inv'
  BY <1>0, <1>4, BrokenIsMisplaced, MisplacedKeeps
<1>5. ASSUME NEW t \in Transfers, NEW p \in Products, RejectLine(t, p) PROVE Inv'
  <2>1. 0 \in 0..MaxQty
    BY WarehouseAssumption
  <2> QED
    BY <1>0, <1>5, <2>1, RejectIsCounted, CountedKeeps
<1>6. ASSUME NEW t \in Transfers, NEW p \in Products, RejectBreaksOff(t, p) PROVE Inv'
  BY <1>0, <1>6, BrokenIsMisplaced, MisplacedKeeps
<1>7. ASSUME NEW t \in Transfers, NEW p \in Products, RequestModify(t, p) PROVE Inv'
  BY <1>7, ModifyKeeps
<1>8. ASSUME NEW wh \in Warehouses, NEW p \in Products, NEW delta \in (-MaxQty)..MaxQty,
             NEW isSale \in BOOLEAN, Movement(wh, p, delta, isSale)
      PROVE  Inv'
  BY <1>8, MovementKeeps
<1>9. ASSUME NEW wh \in Managed, NEW on \in BOOLEAN, NEW flag \in BOOLEAN, SetActive(wh, on, flag)
      PROVE  Inv'
  BY <1>9, SetActiveKeeps, WarehouseAssumption
<1>10. ASSUME NEW wh \in Warehouses, OpenOutlet(wh) \/ CloseOutlet(wh) PROVE Inv'
  BY <1>10, OutletKeeps
<1>11. CASE UNCHANGED vars
  <2>1. UNCHANGED <<selling, stock, docs, ghost>>
    BY <1>11 DEF vars, selling, stock, docs, ghost
  <2>2. UNCHANGED <<active, sells, outlets, shops>>
    BY <1>11 DEF vars
  <2> QED
    BY <2>1, <2>2, SwitchKeeps DEF Inv, TypeOK, ForSale
<1> QED
  BY <1>1, <1>2, <1>3, <1>4, <1>5, <1>6, <1>7, <1>8, <1>9, <1>10, <1>11 DEF Next

LEMMA SpecInv == Spec => []Inv
  BY InitInv, StepInv, PTL DEF Spec

-----------------------------------------------------------------------------
(* Every variable keeps its type, also when requests break off.                *)
THEOREM TypeCorrect == Spec => []TypeOK
<1>1. Inv => TypeOK
  BY DEF Inv
<1> QED
  BY <1>1, SpecInv, PTL

(* The movements of a transfer are what its lines say, and what broken off     *)
(* requests posted without a line.                                             *)
THEOREM SerialAccounts == Spec => []LineAccounted
<1>1. Inv => LineAccounted
  BY DEF Inv
<1> QED
  BY <1>1, SpecInv, PTL

(* A warehouse that never was for sale is never overdrawn.                     *)
THEOREM SerialBalances == Spec => []NeverOverdrawn
<1>1. Inv => NeverOverdrawn
  BY DEF Inv
<1> QED
  BY <1>1, SpecInv, PTL

(* A transfer with lines is COMPLETED exactly when all of them are answered.   *)
THEOREM SerialStatus == Spec => []CompletedWhenAnswered
<1>1. Inv => CompletedWhenAnswered
  BY DEF Inv
<1> QED
  BY <1>1, SpecInv, PTL

-----------------------------------------------------------------------------
(* What an answered line is stays; the requests that write lines write one that *)
(* waits, or lines of a transfer that had none.                                *)
LEMMA AnswersStay ==
  ASSUME Inv, [Next]_vars, NEW t \in Transfers, NEW p \in Products,
         line[t][p].st \in {"APPROVED", "REJECTED"}
  PROVE  line'[t][p] = line[t][p]
<1>0. TypeOK /\ Filed /\ line[t][p].st \notin Waiting /\ line[t][p].st # None
  BY DEF Inv, Waiting, None
<1>1. ASSUME NEW u \in Transfers, NEW from \in Warehouses, NEW to \in Warehouses,
             NEW qty \in Quantities, NEW rows, CanCreate(u, from, to, qty),
             OpenTransfer(u, from, to, qty, rows)
      PROVE  line'[t][p] = line[t][p]
  <2>1. u # t
    BY <1>0, <1>1 DEF CanCreate, Filed
  <2>2. line'[t] = line[t]
    BY <1>0, <1>1, <2>1 DEF OpenTransfer, TypeOK
  <2> QED
    BY <2>2
<1>2. ASSUME NEW u \in Transfers, NEW q \in Products, NEW n \in 0..MaxQty,
             NEW st \in {"APPROVED", "REJECTED"}, Counted(u, q, st, n)
      PROVE  line'[t][p] = line[t][p]
  <2>1. line[u][q].st \in Waiting /\ n <= line[u][q].sent /\ AnswerLine(u, q, st, n)
    BY <1>2 DEF Counted
  <2>2. ~(t = u /\ p = q)
    BY <1>0, <2>1
  <2> QED
    BY <1>0, <2>1, <2>2, AnswerWrites
<1>3. ASSUME NEW u \in Transfers, NEW q \in Products, NEW n \in 1..MaxQty, ApproveLine(u, q, n)
      PROVE  line'[t][p] = line[t][p]
  <2>1. n \in 0..MaxQty
    BY WarehouseAssumption
  <2> QED
    BY <1>2, <1>3, <2>1, ApproveIsCounted
<1>4. ASSUME NEW u \in Transfers, NEW q \in Products, RejectLine(u, q)
      PROVE  line'[t][p] = line[t][p]
  <2>1. 0 \in 0..MaxQty
    BY WarehouseAssumption
  <2> QED
    BY <1>0, <1>2, <1>4, <2>1, RejectIsCounted
<1>5. ASSUME NEW u \in Transfers, NEW q \in Products, RequestModify(u, q)
      PROVE  line'[t][p] = line[t][p]
  <2>1. line[u][q].st \in Waiting
    BY <1>5 DEF RequestModify, CanModify, Waiting
  <2>2. ~(t = u /\ p = q)
    BY <1>0, <2>1
  <2> QED
    BY <1>0, <1>5, <2>2, ModifyWrites
<1>6. ASSUME line' = line PROVE line'[t][p] = line[t][p]
  BY <1>6
<1>7. ASSUME NEW u \in Transfers, NEW q \in Products
      PROVE  /\ \A n \in 1..MaxQty : ApproveBreaksOff(u, q, n) => line' = line
             /\ RejectBreaksOff(u, q) => line' = line
  BY DEF ApproveBreaksOff, RejectBreaksOff, docs
<1>8. ASSUME NEW wh \in Warehouses PROVE OpenOutlet(wh) \/ CloseOutlet(wh) => line' = line
  BY DEF OpenOutlet, CloseOutlet, docs
<1>9. ASSUME NEW wh, NEW q, NEW delta, NEW b, Movement(wh, q, delta, b) \/ SetActive(wh, delta, b)
      PROVE  line' = line
  BY <1>9 DEF Movement, SetActive, docs
<1>10. CASE UNCHANGED vars
  BY <1>6, <1>10 DEF vars
<1>11. ASSUME NEW u \in Transfers, NEW from \in Warehouses, NEW to \in Warehouses,
              NEW qty \in Quantities, NEW last \in Products,
              CreateTransfer(u, from, to, qty) \/ CreateBreaksOff(u, from, to, qty, last)
       PROVE  line'[t][p] = line[t][p]
  BY <1>1, <1>11 DEF CreateTransfer, CreateBreaksOff
<1>12. ASSUME NEW u \in Transfers, NEW from \in Warehouses, NEW to \in Warehouses,
              NEW qty \in Quantities, CreateTransfer(u, from, to, qty)
       PROVE  line'[t][p] = line[t][p]
  BY <1>11, <1>12
<1> QED
  BY <1>3, <1>4, <1>5, <1>6, <1>7, <1>8, <1>9, <1>10, <1>11, <1>12 DEF Next

(* No request answers a line that has been answered.                           *)
THEOREM SerialAnswers == Spec => AnsweredOnce
<1>1. Inv /\ [Next]_vars =>
        [\A t \in Transfers, p \in Products :
           line[t][p].st \in {"APPROVED", "REJECTED"} => line'[t][p] = line[t][p]]_vars
  BY AnswersStay
<1>2. Inv /\ [Next]_vars => Inv'
  BY StepInv
<1> QED
  BY <1>1, <1>2, InitInv, PTL DEF Spec, AnsweredOnce

-----------------------------------------------------------------------------
(* What the lines of a transfer say of all warehouses is what is on its way.   *)
Held(ln) == IF ln.st \in Waiting THEN ln.sent ELSE 0

SaysOf(t, p) == [wh \in Warehouses |-> Says(t, wh, p)]

LEMMA SaysTotal ==
  ASSUME TypeOK, Filed, NEW t \in Transfers, NEW p \in Products
  PROVE  SumFunctionOnSet(SaysOf(t, p), Warehouses) = 0 - Held(line[t][p])
<1> DEFINE f == SaysOf(t, p)
           src == Source(route[t])
           dst == Dest(route[t])
           ln == line[t][p]
<1>1. src \in Warehouses /\ dst \in Warehouses
  BY RouteEnds
<1>2. ln.received \in Nat /\ ln.sent \in Nat /\ TakenBy(ln) \in Int
  BY LineFields, WarehouseAssumption
<1>3. \A wh \in Warehouses : f[wh] = (IF wh = dst THEN ln.received ELSE 0)
                                   - (IF wh = src THEN TakenBy(ln) ELSE 0)
  BY DEF SaysOf, Says
<1>4. ln.st \in Waiting => ln.received = 0 /\ TakenBy(ln) = ln.sent
  BY DEF Filed, TakenBy
<1>5. ln.st \notin Waiting => TakenBy(ln) = ln.received
  BY DEF TakenBy
<1>6. CASE src # dst
  <2> HIDE DEF f, src, dst, ln
  <2>1. f[dst] = ln.received /\ f[src] = 0 - TakenBy(ln) /\ f[dst] \in Int /\ f[src] \in Int
    BY <1>1, <1>2, <1>3, <1>6
  <2>2. \A wh \in Warehouses \ {dst, src} : f[wh] = 0
    BY <1>3
  <2>3. src \in Warehouses \ {dst}
    BY <1>1, <1>6
  <2>4. SumFunctionOnSet(f, Warehouses) = f[dst] + f[src]
    BY <1>1, <2>1, <2>2, <2>3, SumOfTwo, WarehouseAssumption
  <2>5. f[dst] + f[src] = 0 - Held(ln)
    BY <1>2, <1>4, <1>5, <2>1 DEF Held
  <2> QED
    BY <2>4, <2>5 DEF f, ln
<1>7. CASE src = dst
  <2>1. status[t] = None /\ ln = NoLine
    BY <1>7 DEF Filed
  <2>2. ln.received = 0 /\ TakenBy(ln) = 0 /\ Held(ln) = 0
    BY <2>1 DEF NoLine, TakenBy, Held, Waiting, None
  <2>3. \A wh \in Warehouses : f[wh] = 0
    BY <1>3, <2>2
  <2> HIDE DEF f, src, dst, ln
  <2>4. SumFunctionOnSet(f, Warehouses) = 0
    BY <2>3, SumZero, WarehouseAssumption
  <2> QED
    BY <2>2, <2>4 DEF f, ln
<1> QED
  BY <1>6, <1>7

(* Over all warehouses, a transfer moved what is loose without what waits.     *)
LEMMA MovedTotal ==
  ASSUME TypeOK, Filed, LineAccounted, NEW t \in Transfers, NEW p \in Products
  PROVE  Total(moved[t], p) = Total(loose[t], p) - Held(line[t][p])
<1> DEFINE f == SaysOf(t, p)
           g == [wh \in Warehouses |-> loose[t][wh][p]]
           h == [wh \in Warehouses |-> moved[t][wh][p]]
<1>1. /\ \A wh \in Warehouses : g[wh] \in Int
      /\ \A wh \in Warehouses : f[wh] \in Int
  BY StockFields DEF SaysOf
<1>2. \A wh \in Warehouses : h[wh] = g[wh] + f[wh]
  <2>1. \A wh \in Warehouses : moved[t][wh][p] = Says(t, wh, p) + loose[t][wh][p]
    BY DEF LineAccounted
  <2>2. \A wh \in Warehouses : Says(t, wh, p) \in Int /\ loose[t][wh][p] \in Int
    BY StockFields
  <2> QED
    BY <2>1, <2>2 DEF SaysOf
<1>3. SumFunctionOnSet(f, Warehouses) = 0 - Held(line[t][p])
  BY SaysTotal
<1>4. Held(line[t][p]) \in Int
  BY LineFields, WarehouseAssumption DEF Held
<1>5. Total(moved[t], p) = SumFunctionOnSet(h, Warehouses)
      /\ Total(loose[t], p) = SumFunctionOnSet(g, Warehouses)
  BY DEF Total
<1> HIDE DEF f, g, h
<1>6. SumFunctionOnSet(h, Warehouses) = SumFunctionOnSet(g, Warehouses) + SumFunctionOnSet(f, Warehouses)
  BY <1>1, <1>2, SumPlus, WarehouseAssumption
<1>7. SumFunctionOnSet(g, Warehouses) \in Int
  BY <1>1, SumInt, WarehouseAssumption
<1> QED
  BY <1>3, <1>4, <1>5, <1>6, <1>7

LEMMA AllConserved == TypeOK /\ Filed /\ LineAccounted /\ Recorded => StockConserved
<1> SUFFICES ASSUME TypeOK, Filed, LineAccounted, Recorded, NEW p \in Products
             PROVE  Total(ledger, p) + InTransit(p) = entered[p] + LeftOver(p)
  BY DEF StockConserved
<1> DEFINE f == [t \in Transfers |-> Total(moved[t], p)]
           g == [t \in Transfers |-> IF line[t][p].st \in Waiting THEN line[t][p].sent ELSE 0]
           h == [t \in Transfers |-> Total(loose[t], p)]
<1>1. \A t \in Transfers : f[t] \in Int
  BY TotalInt DEF TypeOK
<1>2. \A t \in Transfers : g[t] \in Int
  BY LineFields, WarehouseAssumption
<1>3. \A t \in Transfers : h[t] = f[t] + g[t]
  <2>1. ASSUME NEW t \in Transfers PROVE h[t] = f[t] + g[t]
    <3>1. Total(moved[t], p) = Total(loose[t], p) - Held(line[t][p])
      BY MovedTotal
    <3>2. g[t] = Held(line[t][p]) /\ g[t] \in Int
      BY <1>2 DEF Held
    <3>3. Total(loose[t], p) \in Int
      BY TotalInt DEF TypeOK
    <3> QED
      BY <3>1, <3>2, <3>3
  <2> QED
    BY <2>1
<1>4. /\ SumOfMoves(p) = SumFunctionOnSet(f, Transfers)
      /\ InTransit(p) = SumFunctionOnSet(g, Transfers)
      /\ LeftOver(p) = SumFunctionOnSet(h, Transfers)
  BY DEF SumOfMoves, InTransit, LeftOver
<1> HIDE DEF f, g, h
<1>5. SumFunctionOnSet(h, Transfers) = SumFunctionOnSet(f, Transfers) + SumFunctionOnSet(g, Transfers)
  BY <1>1, <1>2, <1>3, SumPlus, WarehouseAssumption
<1>6. SumFunctionOnSet(f, Transfers) \in Int /\ SumFunctionOnSet(g, Transfers) \in Int
  BY <1>1, <1>2, SumInt, WarehouseAssumption
<1>7. Total(ledger, p) = entered[p] + SumOfMoves(p) /\ entered[p] \in Int
  BY DEF Recorded, TypeOK
<1> QED
  BY <1>4, <1>5, <1>6, <1>7

(* Goods neither appear nor vanish in a transfer: what the warehouses have and *)
(* what waits for a recipient is what came from outside and what broken off    *)
(* requests left.                                                              *)
THEOREM SerialConserved == Spec => []StockConserved
<1>1. Inv => StockConserved
  BY AllConserved DEF Inv
<1> QED
  BY <1>1, SpecInv, PTL

-----------------------------------------------------------------------------
(* Transfers as TransferService promises them.                                 *)

Parcels == [t \in Transfers |-> [p \in Products |-> ParcelOf(line[t][p])]]

LEMMA ParcelIs ==
  /\ \A t \in Transfers, p \in Products : Parcels[t][p] = ParcelOf(line[t][p])
  /\ \A t \in Transfers, p \in Products : Parcels'[t][p] = ParcelOf(line'[t][p])
  /\ ParcelOf(NoLine) = Service!NoParcel
  BY DEF Parcels, ParcelOf, NoLine, TakenBy, Waiting, None, Service!NoParcel

LEMMA ParcelOfLine ==
  ASSUME NEW ln
  PROVE  /\ ln.st \in Waiting => ParcelOf(ln) = [st |-> "carried", goods |-> ln.sent]
         /\ ln.st \in {"APPROVED", "REJECTED"} =>
              ParcelOf(ln).st = "answered" /\ ParcelOf(ln).goods = ln.received
  BY DEF ParcelOf, TakenBy, Waiting, None

LEMMA InitService == Init => Service!Init
<1> SUFFICES ASSUME Init PROVE Service!Init
  OBVIOUS
<1>1. Parcels = [t \in Transfers |-> [p \in Products |-> Service!NoParcel]]
  BY ParcelIs DEF Init, Parcels
<1>2. Main \in Warehouses /\ route = [t \in Transfers |-> <<Main, Main>>] /\ shops = {Main}
  BY WarehouseAssumption DEF Init
<1>3. \E home \in Warehouses : route = [t \in Transfers |-> <<home, home>>] /\ shops = {home}
  BY <1>2
<1>4. ledger = Service!Nothing /\ loose = [t \in Transfers |-> Service!Nothing]
      /\ entered = [p \in Products |-> 0]
  BY DEF Init, NoMoves, Service!Nothing
<1> QED
  BY <1>1, <1>3, <1>4 DEF Service!Init, Parcels

(* The rows of a creation fill parcels; of the goods of one product at most    *)
(* there is none.                                                              *)
LEMMA CreatedSends ==
  ASSUME Inv, NEW t \in Transfers, NEW from \in Warehouses, NEW to \in Warehouses,
         NEW qty \in Quantities, NEW rows \in SUBSET Products, Created(t, from, to, qty, rows),
         \A p, q \in Products \ rows : qty[p] > 0 /\ qty[q] > 0 => p = q
  PROVE  Service!Within
<1> DEFINE d == Shipped(from, qty)
<1>0. TypeOK /\ Filed
  BY DEF Inv
<1>1. (\A p \in Products : qty[p] \in Nat) /\ qty \in [Products -> Nat]
  BY WarehouseAssumption DEF Quantities
<1>2. /\ d \in PerItem(Int)
      /\ \A wh \in Warehouses, p \in Products : d[wh][p] = IF wh = from THEN -qty[p] ELSE 0
  BY <1>1, ShippedIs
<1>3. PostTransfer(t, d)
  BY DEF Created
<1> HIDE DEF d
<1>4. /\ ledger' \in PerItem(Int)
      /\ \A wh \in Warehouses, p \in Products : ledger'[wh][p] = ledger[wh][p] + d[wh][p]
      /\ shops' = shops /\ entered' = entered
  BY <1>0, <1>2, <1>3, PostWrites
<1>5. /\ \A p \in Products : line'[t][p] = NewLine(qty, rows, p)
      /\ route'[t] = <<from, to>>
      /\ \A u \in Transfers : u # t => line'[u] = line[u] /\ route'[u] = route[u]
  BY <1>0, OpenWrites DEF Created
<1>6. /\ loose' \in [Transfers -> PerItem(Int)]
      /\ \A u \in Transfers : u # t => loose'[u] = loose[u]
      /\ \A wh \in Warehouses, p \in Products :
           loose'[t][wh][p] = loose[t][wh][p] - Astray(from, qty, rows, wh, p)
      /\ CanCreate(t, from, to, qty)
  BY DEF Created
<1>7. \A wh \in Warehouses, p \in Products : ledger[wh][p] \in Int /\ loose[t][wh][p] \in Int
  BY <1>0, StockFields
<1>8. \A p \in Products : ledger'[from][p] = ledger[from][p] - qty[p]
  BY <1>1, <1>2, <1>4, <1>7
<1>9. \A p \in Products : loose'[t][from][p] = IF p \in rows THEN loose[t][from][p]
                                               ELSE loose[t][from][p] - qty[p]
  BY <1>6, <1>7 DEF Astray
<1>10. \A wh \in Warehouses \ {from} : ledger'[wh] = ledger[wh] /\ loose'[t][wh] = loose[t][wh]
  <2>1. ASSUME NEW wh \in Warehouses \ {from}
        PROVE  ledger'[wh] = ledger[wh] /\ loose'[t][wh] = loose[t][wh]
    <3>1. \A p \in Products : ledger'[wh][p] = ledger[wh][p] /\ loose'[t][wh][p] = loose[t][wh][p]
      BY <1>2, <1>4, <1>6, <1>7 DEF Astray
    <3>2. /\ ledger[wh] \in [Products -> Int] /\ ledger'[wh] \in [Products -> Int]
          /\ loose[t][wh] \in [Products -> Int] /\ loose'[t][wh] \in [Products -> Int]
      BY <1>0, <1>4, <1>6 DEF TypeOK, PerItem
    <3> QED
      BY <3>1, <3>2
  <2> QED
    BY <2>1
<1>11. \A p \in Products : Parcels[t][p] = Service!NoParcel
  BY <1>0, <1>6, ParcelIs DEF CanCreate, Filed
<1>12. \A p \in Products : qty[p] > 0 => ledger'[from][p] >= 0
  BY <1>1, <1>6, <1>7, <1>8 DEF CanCreate, CanMove
<1>13. ASSUME NEW p \in Products PROVE Service!Packed(t, from, p)
  <2> DEFINE goods == ledger[from][p] - ledger'[from][p]
  <2>1. goods = qty[p]
    BY <1>1, <1>7, <1>8
  <2>2. CASE p \in rows
    <3>1. qty[p] > 0
      BY <2>2 DEF Created
    <3>2. line'[t][p] = [st |-> "PENDING", sent |-> qty[p], received |-> 0]
      BY <1>5, <2>2 DEF NewLine
    <3>3. Parcels'[t][p] = [st |-> "carried", goods |-> goods]
      BY <2>1, <3>2, ParcelIs, ParcelOfLine DEF Waiting
    <3>4. loose'[t][from][p] = loose[t][from][p]
      BY <1>9, <2>2
    <3> QED
      BY <1>12, <2>1, <3>1, <3>3, <3>4 DEF Service!Packed, Parcels
  <2>3. CASE p \notin rows
    <3>1. Parcels'[t][p] = Service!NoParcel
      BY <1>5, <2>3, ParcelIs DEF NewLine
    <3>2. loose'[t][from][p] = loose[t][from][p] - goods
      BY <1>9, <2>1, <2>3
    <3>3. CASE qty[p] = 0
      <4>1. goods = 0 /\ loose'[t][from][p] = loose[t][from][p]
        BY <1>7, <2>1, <3>2, <3>3
      <4> QED
        BY <3>1, <4>1 DEF Service!Packed, Parcels
    <3>4. CASE qty[p] > 0
      BY <1>12, <2>1, <3>1, <3>2, <3>4 DEF Service!Packed, Parcels
    <3> QED
      BY <1>1, <3>3, <3>4
  <2> QED
    BY <2>2, <2>3
<1>14. \A p, q \in Products : loose'[t][from][p] # loose[t][from][p]
                           /\ loose'[t][from][q] # loose[t][from][q] => p = q
  <2>1. \A p \in Products : loose'[t][from][p] # loose[t][from][p] => p \notin rows /\ qty[p] > 0
    BY <1>1, <1>7, <1>9
  <2> QED
    BY <2>1
<1>15. \A u \in Transfers \ {t} : Parcels'[u] = Parcels[u] /\ route'[u] = route[u] /\ loose'[u] = loose[u]
  BY <1>5, <1>6 DEF Parcels
<1>16. from # to
  BY <1>6 DEF CanCreate
<1>17. Service!Send(t, from, to)
  BY <1>5, <1>10, <1>11, <1>13, <1>14, <1>15, <1>16 DEF Service!Send, Parcels
<1>18. ledger' # ledger
  <2>1. PICK p \in Products : qty[p] > 0
    BY <1>6 DEF CanCreate
  <2>2. ledger'[from][p] # ledger[from][p]
    BY <1>1, <1>7, <1>8, <2>1
  <2> QED
    BY <2>2
<1> QED
  BY <1>4, <1>17, <1>18 DEF Service!Within

(* Goods that go to the ends of the transfer of a waiting line.                *)
LEMMA GoodsDelivered ==
  ASSUME Inv, NEW t \in Transfers, NEW p \in Products, line[t][p].st \in Waiting,
         NEW back \in Nat, NEW got \in Nat, back + got > 0, back + got <= line[t][p].sent,
         PostTransfer(t, Answered(t, p, back, got)), route' = route
  PROVE  /\ Service!Delivered(t, p, back, got)
         /\ ledger' # ledger /\ shops' = shops /\ entered' = entered
         /\ Source(route[t]) \in Warehouses /\ Dest(route[t]) \in Warehouses
         /\ Source(route[t]) # Dest(route[t])
         /\ ledger'[Dest(route[t])][p] - ledger[Dest(route[t])][p] = got
         /\ ledger'[Source(route[t])][p] - ledger[Source(route[t])][p] = back
<1> DEFINE d == Answered(t, p, back, got)
           src == Source(route[t])
           dst == Dest(route[t])
<1>0. TypeOK /\ Filed
  BY DEF Inv
<1>1. src \in Warehouses /\ dst \in Warehouses /\ src # dst
  BY <1>0, WaitingEnds
<1>2. /\ d \in PerItem(Int)
      /\ \A wh \in Warehouses, q \in Products :
           d[wh][q] = IF q # p THEN 0 ELSE IF wh = dst THEN got ELSE IF wh = src THEN back ELSE 0
  BY AnsweredIs
<1>3. PostTransfer(t, d)
  OBVIOUS
<1>4. src = route[t][1] /\ dst = route[t][2]
  BY DEF Source, Dest
<1>5. Parcels[t][p].st = "carried" /\ Parcels[t][p].goods = line[t][p].sent
  BY ParcelIs, ParcelOfLine
<1> HIDE DEF d
<1>6. /\ \A wh \in Warehouses, q \in Products : ledger'[wh][q] = ledger[wh][q] + d[wh][q]
      /\ shops' = shops /\ entered' = entered
  BY <1>0, <1>2, <1>3, PostWrites
<1>7. \A wh \in Warehouses, q \in Products : ledger[wh][q] \in Int
  BY <1>0 DEF TypeOK, PerItem
<1> HIDE DEF src, dst
<1>8. ledger'[dst][p] = ledger[dst][p] + got /\ ledger'[src][p] = ledger[src][p] + back
  BY <1>1, <1>2, <1>6
<1>9. \A wh \in Warehouses, q \in Products : q # p \/ wh \notin {src, dst} => ledger'[wh][q] = ledger[wh][q]
  BY <1>2, <1>6, <1>7
<1>10. ledger[dst][p] \in Int /\ ledger[src][p] \in Int
  BY <1>1, <1>7
<1>11. ledger'[dst][p] - ledger[dst][p] = got /\ ledger'[src][p] - ledger[src][p] = back
  BY <1>8, <1>10
<1>12. ledger' # ledger
  BY <1>8, <1>10
<1>13. got + back <= line[t][p].sent
  BY LineFields, <1>0, WarehouseAssumption
<1>14. Service!Delivered(t, p, back, got)
  BY <1>1, <1>4, <1>5, <1>8, <1>9, <1>13 DEF Service!Delivered, Parcels
<1> QED
  BY <1>1, <1>6, <1>11, <1>12, <1>14 DEF src, dst

LEMMA CountedAnswers ==
  ASSUME Inv, NEW t \in Transfers, NEW p \in Products, NEW st \in {"APPROVED", "REJECTED"},
         NEW n \in 0..MaxQty, Counted(t, p, st, n)
  PROVE  Service!Within
<1> DEFINE back == line[t][p].sent - n
<1>0. TypeOK /\ Filed
  BY DEF Inv
<1>1. /\ line[t][p].st \in Waiting /\ n <= line[t][p].sent /\ n \in Nat
      /\ AnswerLine(t, p, st, n) /\ PostTransfer(t, Answered(t, p, back, n))
      /\ loose' = loose
  BY WarehouseAssumption DEF Counted, ghost
<1>2. /\ line'[t][p].st = st /\ line'[t][p].received = n
      /\ \A u \in Transfers, q \in Products : ~(u = t /\ q = p) => line'[u][q] = line[u][q]
      /\ route' = route
  BY <1>0, <1>1, AnswerWrites
<1>3. line[t][p].sent \in Nat \ {0}
  BY <1>0, <1>1, WaitingEnds
<1>4. back \in Nat /\ back + n = line[t][p].sent /\ back + n > 0 /\ back + n <= line[t][p].sent
  BY <1>1, <1>3
<1>5. Parcels[t][p].goods = line[t][p].sent
  BY <1>1, ParcelIs, ParcelOfLine
<1>6. Parcels'[t][p].st = "answered" /\ Parcels'[t][p].goods = n
  BY <1>2, ParcelIs, ParcelOfLine
<1>7. \A u \in Transfers, q \in Products : u # t \/ q # p => Parcels'[u][q] = Parcels[u][q]
  BY <1>2, ParcelIs
<1>8. back = Parcels[t][p].goods - Parcels'[t][p].goods
  BY <1>5, <1>6
<1> HIDE DEF back
<1>9. /\ Service!Delivered(t, p, back, n)
      /\ ledger' # ledger /\ shops' = shops /\ entered' = entered
  BY <1>1, <1>2, <1>4, GoodsDelivered
<1>10. Service!Answer(t, p)
  BY <1>1, <1>6, <1>7, <1>8, <1>9 DEF Service!Answer, Parcels
<1> QED
  BY <1>9, <1>10 DEF Service!Within

LEMMA MisplacedGoesAstray ==
  ASSUME Inv, NEW t \in Transfers, NEW p \in Products, NEW back \in Nat, NEW got \in Nat,
         back + got > 0, Misplaced(t, p, back, got)
  PROVE  Service!Within
<1> DEFINE d == Answered(t, p, back, got)
           src == Source(route[t])
           dst == Dest(route[t])
<1>0. TypeOK /\ Filed
  BY DEF Inv
<1>1. /\ line[t][p].st \in Waiting /\ back + got <= line[t][p].sent
      /\ PostTransfer(t, d) /\ LeftLoose(t, d) /\ route' = route /\ line' = line
  BY DEF Misplaced, docs
<1>2. /\ d \in PerItem(Int)
      /\ \A wh \in Warehouses, q \in Products :
           d[wh][q] = IF q # p THEN 0 ELSE IF wh = dst THEN got ELSE IF wh = src THEN back ELSE 0
  BY AnsweredIs
<1>3. /\ Service!Delivered(t, p, back, got)
      /\ ledger' # ledger /\ shops' = shops /\ entered' = entered
      /\ src \in Warehouses /\ dst \in Warehouses /\ src # dst
      /\ ledger'[dst][p] - ledger[dst][p] = got
      /\ ledger'[src][p] - ledger[src][p] = back
  BY <1>1, GoodsDelivered
<1>4. src = route[t][1] /\ dst = route[t][2]
  BY DEF Source, Dest
<1> HIDE DEF d, src, dst
<1>5. /\ \A wh \in Warehouses, q \in Products : loose'[t][wh][q] = loose[t][wh][q] + d[wh][q]
      /\ \A u \in Transfers : u # t => loose'[u] = loose[u]
  BY <1>0, <1>1, <1>2, LooseWrites
<1>6. \A wh \in Warehouses, q \in Products : loose[t][wh][q] \in Int
  BY <1>0 DEF TypeOK, PerItem
<1>7. loose'[t][dst][p] = loose[t][dst][p] + got /\ loose'[t][src][p] = loose[t][src][p] + back
  BY <1>2, <1>3, <1>5
<1>8. \A r \in Transfers, wh \in Warehouses, q \in Products :
        r # t \/ q # p \/ wh \notin {src, dst} => loose'[r][wh][q] = loose[r][wh][q]
  BY <1>2, <1>5, <1>6
<1>9. Parcels' = Parcels
  BY <1>1 DEF Parcels
<1>10. Service!Misplace(t, p)
  BY <1>3, <1>4, <1>7, <1>8, <1>9 DEF Service!Misplace, Parcels
<1> QED
  BY <1>3, <1>10 DEF Service!Within

(* What comes from outside leaves parcels alone and overdraws shops only.      *)
LEMMA MovementOtherwise ==
  ASSUME Inv, NEW wh \in Warehouses, NEW p \in Products, NEW delta \in (-MaxQty)..MaxQty,
         NEW isSale \in BOOLEAN, Movement(wh, p, delta, isSale)
  PROVE  Service!Otherwise(wh, p)
<1>1. /\ ledger' = [ledger EXCEPT ![wh][p] = @ + delta]
      /\ entered' = [entered EXCEPT ![p] = @ + delta]
      /\ UNCHANGED <<shops, route, line, loose>>
      /\ delta \in Int
      /\ wh \in shops \/ ledger[wh][p] + delta >= 0
  BY MovementWrites
<1>2. /\ ledger \in [Warehouses -> [Products -> Int]] /\ entered \in [Products -> Int]
      /\ ledger[wh][p] \in Int /\ entered[p] \in Int
  BY DEF Inv, TypeOK, PerItem
<1>3. ledger'[wh][p] = ledger[wh][p] + delta /\ entered'[p] = entered[p] + delta
  BY <1>1, <1>2
<1>4. ledger'[wh][p] - ledger[wh][p] = entered'[p] - entered[p]
  BY <1>1, <1>2, <1>3
<1>5. \A q \in Products \ {p} : entered'[q] = entered[q]
  BY <1>1, <1>2
<1>6. \A w \in Warehouses, q \in Products : w # wh \/ q # p => ledger'[w][q] = ledger[w][q]
  BY <1>1, <1>2
<1>7. wh \in shops \/ ledger'[wh][p] >= 0
  BY <1>1, <1>3
<1>8. Parcels' = Parcels
  BY <1>1 DEF Parcels
<1> QED
  BY <1>1, <1>4, <1>5, <1>6, <1>7, <1>8 DEF Service!Otherwise, Parcels

(* A request to modify a line leaves its parcel as it is.                      *)
LEMMA ModifyStutters ==
  ASSUME Inv, NEW t \in Transfers, NEW p \in Products, RequestModify(t, p)
  PROVE  UNCHANGED Service!tvars
<1>1. /\ line'[t][p].st = "MODIFY_REQUESTED" /\ line'[t][p].sent = line[t][p].sent
      /\ line[t][p].st = "PENDING"
      /\ \A u \in Transfers, q \in Products : ~(u = t /\ q = p) => line'[u][q] = line[u][q]
  BY ModifyWrites DEF Inv
<1>2. ParcelOf(line'[t][p]) = ParcelOf(line[t][p])
  BY <1>1, ParcelOfLine DEF Waiting
<1>3. \A u \in Transfers, q \in Products : ParcelOf(line'[u][q]) = ParcelOf(line[u][q])
  BY <1>1, <1>2
<1>4. Parcels' = Parcels
  BY <1>3 DEF Parcels
<1>5. UNCHANGED <<ledger, route, entered, loose, shops>>
  BY DEF RequestModify, selling, stock, ghost
<1> QED
  BY <1>4, <1>5 DEF Service!tvars, Parcels

(* The switches of warehouses: a warehouse is put up for sale, or nothing is   *)
(* done that the service tells apart.                                          *)
LEMMA SwitchOpens ==
  ASSUME NEW wh \in Warehouses, NEW on, NEW flag \in BOOLEAN,
         SetActive(wh, on, flag) \/ OpenOutlet(wh) \/ CloseOutlet(wh)
  PROVE  Service!OpenShop(wh) \/ UNCHANGED Service!tvars
<1>1. UNCHANGED <<ledger, line, route, entered, loose>>
  BY DEF SetActive, OpenOutlet, CloseOutlet, stock, docs, ghost
<1>2. shops' = shops \cup {wh} \/ shops' = shops
  BY DEF SetActive, OpenOutlet, CloseOutlet
<1>3. Parcels' = Parcels
  BY <1>1 DEF Parcels
<1> QED
  BY <1>1, <1>2, <1>3 DEF Service!OpenShop, Service!tvars, Parcels

LEMMA ServiceStep == Inv /\ [Next]_vars => [Service!Next]_(Service!tvars)
<1> SUFFICES ASSUME Inv, [Next]_vars PROVE Service!Next \/ UNCHANGED Service!tvars
  OBVIOUS
<1>0. TypeOK
  BY DEF Inv
<1>1. ASSUME NEW t \in Transfers, NEW from \in Warehouses, NEW to \in Warehouses,
             NEW qty \in Quantities, CreateTransfer(t, from, to, qty)
      PROVE  Service!Within
  <2> DEFINE rows == {p \in Products : qty[p] > 0}
  <2>1. rows \in SUBSET Products /\ \A p \in Products \ rows : ~(qty[p] > 0)
    OBVIOUS
  <2>2. Created(t, from, to, qty, rows)
    BY <1>0, <1>1, CreateIsCreated
  <2> HIDE DEF rows
  <2>3. \A p, q \in Products \ rows : qty[p] > 0 /\ qty[q] > 0 => p = q
    BY <2>1
  <2> QED
    BY <2>1, <2>2, <2>3, CreatedSends
<1>2. ASSUME NEW t \in Transfers, NEW from \in Warehouses, NEW to \in Warehouses,
             NEW qty \in Quantities, NEW last \in Products, CreateBreaksOff(t, from, to, qty, last)
      PROVE  Service!Within
  <2> DEFINE rows == {p \in Products : qty[p] > 0} \ {last}
  <2>1. rows \in SUBSET Products /\ \A p \in Products \ rows : qty[p] > 0 => p = last
    OBVIOUS
  <2>2. Created(t, from, to, qty, rows)
    BY <1>0, <1>2, BrokenIsCreated
  <2> HIDE DEF rows
  <2>3. \A p, q \in Products \ rows : qty[p] > 0 /\ qty[q] > 0 => p = q
    BY <2>1
  <2> QED
    BY <2>1, <2>2, <2>3, CreatedSends
<1>3. ASSUME NEW t \in Transfers, NEW p \in Products, NEW n \in 1..MaxQty, ApproveLine(t, p, n)
      PROVE  Service!Within
  <2>1. n \in 0..MaxQty
    BY WarehouseAssumption
  <2> QED
    BY <1>3, <2>1, ApproveIsCounted, CountedAnswers
<1>4. ASSUME NEW t \in Transfers, NEW p \in Products, NEW n \in 1..MaxQty, ApproveBreaksOff(t, p, n)
      PROVE  Service!Within
  BY <1>0, <1>4, BrokenIsMisplaced, MisplacedGoesAstray
<1>5. ASSUME NEW t \in Transfers, NEW p \in Products, RejectLine(t, p) PROVE Service!Within
  <2>1. 0 \in 0..MaxQty
    BY WarehouseAssumption
  <2> QED
    BY <1>0, <1>5, <2>1, RejectIsCounted, CountedAnswers
<1>6. ASSUME NEW t \in Transfers, NEW p \in Products, RejectBreaksOff(t, p) PROVE Service!Within
  BY <1>0, <1>6, BrokenIsMisplaced, MisplacedGoesAstray
<1>7. ASSUME NEW t \in Transfers, NEW p \in Products, RequestModify(t, p)
      PROVE  UNCHANGED Service!tvars
  BY <1>7, ModifyStutters
<1>8. ASSUME NEW wh \in Warehouses, NEW p \in Products, NEW delta \in (-MaxQty)..MaxQty,
             NEW isSale \in BOOLEAN, Movement(wh, p, delta, isSale)
      PROVE  Service!Otherwise(wh, p)
  BY <1>8, MovementOtherwise
<1>9. ASSUME NEW wh \in Managed, NEW on \in BOOLEAN, NEW flag \in BOOLEAN, SetActive(wh, on, flag)
      PROVE  Service!Next \/ UNCHANGED Service!tvars
  <2>1. wh \in Warehouses
    BY WarehouseAssumption
  <2>2. Service!OpenShop(wh) \/ UNCHANGED Service!tvars
    BY <1>9, <2>1, SwitchOpens
  <2> QED
    BY <2>1, <2>2 DEF Service!Next
<1>10. ASSUME NEW wh \in Warehouses, OpenOutlet(wh) \/ CloseOutlet(wh)
       PROVE  Service!Next \/ UNCHANGED Service!tvars
  <2>1. Service!OpenShop(wh) \/ UNCHANGED Service!tvars
    BY <1>10, SwitchOpens
  <2> QED
    BY <2>1 DEF Service!Next
<1>11. CASE UNCHANGED vars
  BY <1>11 DEF vars, Service!tvars
<1>12. Service!Within => Service!Next
  BY DEF Service!Next
<1>13. \A wh \in Warehouses, p \in Products : Service!Otherwise(wh, p) => Service!Next
  BY DEF Service!Next
<1> QED
  BY <1>1, <1>2, <1>3, <1>4, <1>5, <1>6, <1>7, <1>8, <1>9, <1>10, <1>11, <1>12, <1>13 DEF Next

(* Every request keeps the promise of TransferService, or changes nothing it   *)
(* tells apart: a parcel is answered once, its goods are in one place but for  *)
(* those a broken off request moved, and only shops are overdrawn.             *)
THEOREM SerialRefines == Spec => ImplementsTransfers
<1>1. Inv /\ [Next]_vars => Inv'
  BY StepInv
<1>2. Inv /\ [Next]_vars => [Service!Next]_(Service!tvars)
  BY ServiceStep
<1> QED
  BY <1>1, <1>2, InitService, InitInv, PTL DEF Spec, ImplementsTransfers, Service!Spec
=================================================================================
