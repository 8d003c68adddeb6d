----------------------------- MODULE MCPrintQueue -----------------------------
(* Two copies of the program run with the token of one agent, as when it is      *)
(* started by hand beside the one that started with Windows.                     *)
EXTENDS PrintQueue

CONSTANTS a1, p1, p2, r1

mc_PrinterOf == [j \in Jobs |-> r1]
mc_MaxOrders == [j \in Jobs |-> IF j = 1 THEN 2 ELSE 1]
mc_Token == [p \in Programs |-> a1]
===============================================================================
