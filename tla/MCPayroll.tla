-------------------------------- MODULE MCPayroll --------------------------------
(* Instances of Payroll for TLC: monthly runs of few employees. *)
EXTENDS Payroll

CONSTANTS ann, bob

(* The payment of the first month may break off. *)
mc_MaxBreaks == [r \in Runs |-> IF r = 1 THEN 1 ELSE 0]
================================================================================
