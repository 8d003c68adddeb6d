------------------------------- MODULE MCPurchases -------------------------------
(* Instances of Purchases for TLC: a shop where sales are deducted and a store. *)
EXTENDS Purchases, TLC

CONSTANTS shop, store, p1, p2

(* Invoices differ in their numbers only. *)
Symmetry == Permutations(Purchases)
=================================================================================
