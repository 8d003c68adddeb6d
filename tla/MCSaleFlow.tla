------------------------------ MODULE MCSaleFlow ------------------------------
(* Instances of SaleFlow for TLC. *)
EXTENDS SaleFlow, TLC

CONSTANTS amal, badr, tea, cake

(* Neither cashiers nor products are told apart. *)
Symmetry == Permutations({amal, badr} \cap Users) \cup Permutations({tea, cake} \cap Products)
===============================================================================
