------------------------- MODULE MCWarehouseTransfer -------------------------
(* An instance of WarehouseTransfer for TLC: of p1 there is enough to answer a *)
(* line with less than was sent, and it may be overdrawn; of p2 there is one.  *)
EXTENDS WarehouseTransfer, TLC

CONSTANTS main, branch, p1, p2

Filled == p1 :> 2 @@ p2 :> 1
Owed == p1 :> 1 @@ p2 :> 0
===============================================================================
