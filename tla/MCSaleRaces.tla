------------------------------ MODULE MCSaleRaces ------------------------------
(* Instances of SaleRaces for TLC. *)
EXTENDS SaleRaces, TLC

CONSTANTS amal, tea, w1, w2

(* The two workers are not told apart. *)
Symmetry == Permutations({w1, w2} \cap Workers)
===============================================================================
