------------------------------ MODULE OrderService ------------------------------
(* What the point of sale promises of an order, to the customer and to those    *)
(* who count stock and money: goods leave for an order that is open and stay    *)
(* with it, it is settled once for exactly the goods that left, an order that   *)
(* is dropped took nothing, and what comes back is goods that left, paid back   *)
(* for what they cost when they were paid for at the till.  There are no lines, *)
(* kitchen, shifts or cashiers here; SaleFlow has them and implements this.     *)
EXTENDS Integers

CONSTANTS Sales, Products, Worth(_)   \* Worth(g): the price of the goods g

VARIABLES
  phase,      \* "none", "open", "settled" or "dropped"
  gone,       \* the goods that left the stock for an order, per product
  atTill,     \* what was paid for it, in cash or at a bank
  onRoom,     \* what was put on a room account
  back,       \* the goods that came back
  tillBack    \* what was paid back of it

ovars == <<phase, gone, atTill, onRoom, back, tillBack>>

Nothing == [p \in Products |-> 0]

Init ==
  /\ phase = [s \in Sales |-> "none"]
  /\ gone = [s \in Sales |-> Nothing] /\ back = [s \in Sales |-> Nothing]
  /\ atTill = [s \in Sales |-> 0] /\ onRoom = [s \in Sales |-> 0]
  /\ tillBack = [s \in Sales |-> 0]

SameGoods(s) == gone'[s] = gone[s]
SameMoney(s) == atTill'[s] = atTill[s] /\ onRoom'[s] = onRoom[s]
NoReturn(s) == back'[s] = back[s] /\ tillBack'[s] = tillBack[s]

Idle(s) == phase'[s] = phase[s] /\ SameGoods(s) /\ SameMoney(s) /\ NoReturn(s)

Begin(s) ==
  /\ phase[s] = "none" /\ phase'[s] = "open"
  /\ SameGoods(s) /\ SameMoney(s) /\ NoReturn(s)

(* Only an order no goods left for. *)
Drop(s) ==
  /\ phase[s] = "open" /\ gone[s] = Nothing
  /\ phase'[s] = "dropped"
  /\ SameGoods(s) /\ SameMoney(s) /\ NoReturn(s)

(* Goods leave for an open order: none of them comes back before it is paid. *)
Serve(s) ==
  /\ phase[s] = "open" /\ phase'[s] = "open"
  /\ \A p \in Products : gone'[s][p] >= gone[s][p]
  /\ SameMoney(s) /\ NoReturn(s)

(* What has not left yet leaves now, and all of it is paid, in one of two ways. *)
Settle(s) ==
  /\ phase[s] = "open" /\ phase'[s] = "settled"
  /\ \A p \in Products : gone'[s][p] >= gone[s][p]
  /\ \/ atTill'[s] = Worth(gone'[s]) /\ onRoom'[s] = 0
     \/ onRoom'[s] = Worth(gone'[s]) /\ atTill'[s] = 0
  /\ NoReturn(s)

(* Goods come back, and what they cost if it was paid at the till. *)
TakeBack(s) ==
  /\ phase[s] = "settled" /\ phase'[s] = "settled"
  /\ \A p \in Products : back[s][p] <= back'[s][p] /\ back'[s][p] <= gone[s][p]
  /\ tillBack'[s] = tillBack[s] + (IF atTill[s] > 0 THEN Worth(back'[s]) - Worth(back[s]) ELSE 0)
  /\ tillBack'[s] <= atTill[s]
  /\ SameGoods(s) /\ SameMoney(s)

(* A request does one thing for one order; drafts begin and end on its way. *)
OnTheWay(s) == Begin(s) \/ Drop(s) \/ Idle(s)

Next ==
  \/ \A s \in Sales : OnTheWay(s)
  \/ \E s \in Sales : /\ Serve(s) \/ Settle(s) \/ TakeBack(s)
                      /\ \A d \in Sales \ {s} : OnTheWay(d)

Spec == Init /\ [][Next]_ovars
=================================================================================
