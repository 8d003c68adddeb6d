----------------------------- MODULE TransferService -----------------------------
(* What the warehouses promise to those who send goods to each other: goods      *)
(* leave the sender when a transfer is made, and only goods it has; they are     *)
(* in a parcel until the recipient answers, once; then what was counted is the   *)
(* recipient's and the rest the sender's again.  Goods go astray only when a     *)
(* request breaks off: a parcel is lost on its way out, or goods of a parcel     *)
(* are put into a warehouse and the parcel still waits for its answer.  All      *)
(* else that happens to stock comes from outside, leaves parcels alone and       *)
(* overdraws shops only.  There are no statuses, switches or sums of movements   *)
(* here; WarehouseTransfer has them and implements this while requests run one   *)
(* at a time.                                                                    *)
EXTENDS Integers

CONSTANTS Warehouses, Products, Transfers

VARIABLES
  stock,     \* goods of a warehouse, per product
  parcel,    \* of a transfer, per product: "none", "carried" or "answered", and
             \* the goods in it, or those the recipient counted
  ends,      \* sender and recipient of a transfer
  outside,   \* per product, goods that came from outside
  astray,    \* of a transfer, per warehouse and product: goods it moved unsaid
  shops      \* warehouses that are or were for sale

tvars == <<stock, parcel, ends, outside, astray, shops>>

NoParcel == [st |-> "none", goods |-> 0]
Nothing == [wh \in Warehouses |-> [p \in Products |-> 0]]

Init ==
  /\ stock = Nothing
  /\ parcel = [t \in Transfers |-> [p \in Products |-> NoParcel]]
  /\ \E home \in Warehouses : ends = [t \in Transfers |-> <<home, home>>] /\ shops = {home}
  /\ outside = [p \in Products |-> 0]
  /\ astray = [t \in Transfers |-> Nothing]

(* The parcel of one line is filled from the goods the sender has, or they are   *)
(* taken and there is no parcel.                                                 *)
Packed(t, from, p) ==
  LET goods == stock[from][p] - stock'[from][p]
  IN  \/ parcel'[t][p] = NoParcel /\ goods = 0 /\ astray'[t][from][p] = astray[t][from][p]
      \/ /\ goods > 0 /\ stock'[from][p] >= 0
         /\ \/ /\ parcel'[t][p] = [st |-> "carried", goods |-> goods]
               /\ astray'[t][from][p] = astray[t][from][p]
            \/ /\ parcel'[t][p] = NoParcel
               /\ astray'[t][from][p] = astray[t][from][p] - goods

Send(t, from, to) ==
  /\ from # to
  /\ \A p \in Products : parcel[t][p] = NoParcel
  /\ \A p \in Products : Packed(t, from, p)
  /\ \A p, q \in Products : astray'[t][from][p] # astray[t][from][p]
                         /\ astray'[t][from][q] # astray[t][from][q] => p = q
  /\ \A wh \in Warehouses \ {from} : stock'[wh] = stock[wh] /\ astray'[t][wh] = astray[t][wh]
  /\ \A r \in Transfers \ {t} : /\ parcel'[r] = parcel[r] /\ ends'[r] = ends[r]
                                /\ astray'[r] = astray[r]
  /\ ends'[t] = <<from, to>>

(* The recipient is given got of the parcel and the sender back.                 *)
Delivered(t, p, back, got) ==
  LET from == ends[t][1]
      to   == ends[t][2]
  IN  /\ UNCHANGED ends
      /\ from # to
      /\ parcel[t][p].st = "carried"
      /\ 0 <= got /\ 0 <= back /\ got + back <= parcel[t][p].goods
      /\ stock'[to][p] = stock[to][p] + got
      /\ stock'[from][p] = stock[from][p] + back
      /\ \A wh \in Warehouses, q \in Products :
           q # p \/ wh \notin {from, to} => stock'[wh][q] = stock[wh][q]

(* The recipient counts what arrived, nothing when the line is rejected; the     *)
(* sender gets the rest back.                                                    *)
Answer(t, p) ==
  LET got == parcel'[t][p].goods
  IN  /\ Delivered(t, p, parcel[t][p].goods - got, got)
      /\ parcel'[t][p].st = "answered"
      /\ \A r \in Transfers, q \in Products : r # t \/ q # p => parcel'[r][q] = parcel[r][q]
      /\ astray' = astray

(* The same breaks off: the goods are there, and the parcel waits as before.     *)
Misplace(t, p) ==
  LET from == ends[t][1]
      to   == ends[t][2]
      back == stock'[from][p] - stock[from][p]
      got  == stock'[to][p] - stock[to][p]
  IN  /\ Delivered(t, p, back, got)
      /\ parcel' = parcel
      /\ astray'[t][to][p] = astray[t][to][p] + got
      /\ astray'[t][from][p] = astray[t][from][p] + back
      /\ \A r \in Transfers, wh \in Warehouses, q \in Products :
           r # t \/ q # p \/ wh \notin {from, to} => astray'[r][wh][q] = astray[r][wh][q]

(* Purchases, sales, adjustments. *)
Otherwise(wh, p) ==
  /\ \A q \in Products \ {p} : outside'[q] = outside[q]
  /\ stock'[wh][p] - stock[wh][p] = outside'[p] - outside[p]
  /\ wh \in shops \/ stock'[wh][p] >= 0
  /\ \A w \in Warehouses, q \in Products : w # wh \/ q # p => stock'[w][q] = stock[w][q]
  /\ UNCHANGED <<ends, astray, shops, parcel>>

(* A warehouse is put up for sale. *)
OpenShop(wh) ==
  /\ shops' = shops \cup {wh}
  /\ UNCHANGED <<stock, parcel, ends, outside, astray>>

(* Goods move between warehouses and parcels. *)
Within ==
  /\ stock' # stock
  /\ UNCHANGED <<outside, shops>>
  /\ \E t \in Transfers :
       \/ \E from, to \in Warehouses : Send(t, from, to)
       \/ \E p \in Products : Answer(t, p) \/ Misplace(t, p)

Next ==
  \/ Within
  \/ \E wh \in Warehouses, p \in Products : Otherwise(wh, p)
  \/ \E wh \in Warehouses : OpenShop(wh)

Spec == Init /\ [][Next]_tvars
==================================================================================
