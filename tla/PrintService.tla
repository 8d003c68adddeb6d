------------------------------ MODULE PrintService ------------------------------
(* What the printing of the system promises to a cashier and to the             *)
(* administrator who reads /admin/printing/jobs: paper comes out only when it    *)
(* was asked for, once for each time it was and once more for each time two       *)
(* programs were given one job, and a job is reported as printed only when its    *)
(* paper came out.  PrintQueue implements it.                                     *)
EXTENDS Naturals

CONSTANT Jobs

VARIABLES
  orders,   \* how often the printing of a job was asked for
  crossed,  \* how often a job was given to a program that another one had been given
  paper,    \* how often it was handed to a printer
  shown     \* what the list of jobs says of it

svars == <<orders, crossed, paper, shown>>

ServiceTypeOK ==
  /\ orders \in [Jobs -> Nat]
  /\ crossed \in [Jobs -> Nat]
  /\ paper \in [Jobs -> Nat]
  /\ shown \in [Jobs -> {"none", "open", "printed", "trouble"}]

Init ==
  /\ orders = [j \in Jobs |-> 0]
  /\ crossed = [j \in Jobs |-> 0]
  /\ paper = [j \in Jobs |-> 0]
  /\ shown = [j \in Jobs |-> "none"]

(* A new job, or one that failed or was cancelled and is put back. *)
Order(j) ==
  /\ shown[j] \in {"none", "trouble"}
  /\ orders' = [orders EXCEPT ![j] = @ + 1]
  /\ shown' = [shown EXCEPT ![j] = "open"]
  /\ UNCHANGED <<crossed, paper>>

PutOnPaper(j) ==
  /\ paper[j] < orders[j] + crossed[j]
  /\ paper' = [paper EXCEPT ![j] = @ + 1]
  /\ UNCHANGED <<orders, crossed, shown>>

ReportPrinted(j) ==
  /\ shown[j] = "open"
  /\ paper[j] > 0
  /\ shown' = [shown EXCEPT ![j] = "printed"]
  /\ UNCHANGED <<orders, crossed, paper>>

(* A claim of the job comes late: after the job was settled, or after another claim. *)
TakeLate(j, again) ==
  /\ shown[j] # "none"
  /\ crossed' = [crossed EXCEPT ![j] = IF again THEN @ + 1 ELSE @]
  /\ shown' = [shown EXCEPT ![j] = "open"]
  /\ UNCHANGED <<orders, paper>>

(* A failure may be reported of a job that was printed or given up. *)
ReportTrouble(j) ==
  /\ shown[j] \in {"open", "printed"}
  /\ shown' = [shown EXCEPT ![j] = "trouble"]
  /\ UNCHANGED <<orders, crossed, paper>>

(* One request of the administrator gives up every job that is still open. *)
GiveUp(js) ==
  /\ \A j \in js : shown[j] = "open"
  /\ shown' = [j \in Jobs |-> IF j \in js THEN "trouble" ELSE shown[j]]
  /\ UNCHANGED <<orders, crossed, paper>>

(* One request puts every failed job back. *)
OrderAgain(js) ==
  /\ \A j \in js : shown[j] = "trouble"
  /\ orders' = [j \in Jobs |-> IF j \in js THEN orders[j] + 1 ELSE orders[j]]
  /\ shown' = [j \in Jobs |-> IF j \in js THEN "open" ELSE shown[j]]
  /\ UNCHANGED <<crossed, paper>>

Next ==
  \/ \E j \in Jobs : Order(j) \/ PutOnPaper(j) \/ ReportPrinted(j) \/ ReportTrouble(j)
  \/ \E j \in Jobs, again \in BOOLEAN : TakeLate(j, again)
  \/ \E js \in SUBSET Jobs : GiveUp(js) \/ OrderAgain(js)

Spec == Init /\ [][Next]_svars
=================================================================================
