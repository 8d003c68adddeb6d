-------------------------------- MODULE SaleRaces --------------------------------
(* The operations of SaleFlow as concurrent requests.                           *)
(*                                                                             *)
(* Each request has a database session, and InnoDB fixes what it sees at its    *)
(* first read, which is the cashier's open shift.  The handlers lock no row and *)
(* check no row version, and other requests commit in between: sync handlers    *)
(* run in a pool of threads, and the async ones wait for the form after they    *)
(* have read the shift.                                                         *)
EXTENDS SaleFlow

CONSTANT Workers   \* requests in progress at the same time

VARIABLE req       \* per worker, the request and the snapshot of its transaction

racevars == <<vars, req>>

Idle == [op |-> "idle"]

Asks ==
       [op : {"open", "close"}, u : Users, k : Shifts]
  \cup [op : {"add", "refund"}, u : Users, s : Sales, p : Products, n : 1..MaxQty]
  \cup [op : {"checkout", "room"}, u : Users]
  \cup [op : {"send"}, u : Users, s : Sales]

(* The first read of the request fixes the snapshot of its transaction. *)
Start(w) ==
  /\ req[w] = Idle
  /\ \E a \in Asks : req' = [req EXCEPT ![w] = [op |-> a.op, ask |-> a, snap |-> Rows]]
  /\ UNCHANGED vars

(* The handler runs on its snapshot and commits. *)
Commit(w) ==
  /\ req[w] # Idle
  /\ req' = [req EXCEPT ![w] = Idle]
  /\ LET a == req[w].ask
         x == req[w].snap
     IN  \/ a.op = "open" /\ OpenShift(x, a.u, a.k)
         \/ a.op = "close" /\ CloseShift(x, a.u, a.k)
         \/ a.op = "add" /\ AddLine(x, a.u, a.s, a.p, a.n)
         \/ a.op = "refund" /\ Refund(x, a.u, a.s, a.p, a.n)
         \/ a.op = "checkout" /\ Checkout(x, a.u, None)
         \/ a.op = "room" /\ ChargeRoom(x, a.u, None)
         \/ a.op = "send" /\ SendToKitchen(x, a.u, a.s)

(* The handler refuses or fails, and the transaction is rolled back. *)
Abort(w) ==
  /\ req[w] # Idle
  /\ req' = [req EXCEPT ![w] = Idle]
  /\ UNCHANGED vars

(* A request no other overlaps is one step of SaleFlow. *)
RaceNext ==
  \/ Next /\ UNCHANGED req
  \/ \E w \in Workers : Start(w) \/ Commit(w) \/ Abort(w)

RaceSpec == Init /\ req = [w \in Workers |-> Idle] /\ [][RaceNext]_racevars
===============================================================================
