--------------------------------- MODULE Payroll ---------------------------------
(* Salaries (modules/hr/service.py): monthly runs, the advances and deductions   *)
(* that a salary repays, the expense that pays a run (modules/payments) and what *)
(* the ledger holds of it (modules/gl/posting.py and reversal.py).  A request is *)
(* one transaction, but for the payment of a run: the alert of its expense         *)
(* (notifications/service.py:48, messaging/outbox.py:348) may commit what was      *)
(* written so far, and the request may break off after it.                        *)
(*                                                                               *)
(* The ledger is switched on and takes every entry.  Amounts are whole and not   *)
(* negative.                                                                     *)
EXTENDS Integers, FiniteSets, Functions

CONSTANTS
  Employees,
  Advances,     \* hr_advances, numbered by the date they are given at
  Deductions,   \* hr_employee_deductions, numbered by age
  Runs,         \* ids of hr_payroll_runs
  MaxAmount,    \* bound: the largest advance, deduction or repayment by hand
  Borrowers,    \* bound: the employees given advances or deductions
  Amounts,      \* bound: the advances and deductions there may be
  Pay,          \* bound: what an employee may earn in a month
  Edits,        \* bound: what the administrator types as withheld
  MaxBreaks     \* bound: payments of each run that break off

Claims == Advances \cup Deductions

ASSUME PayrollAssumption ==
  /\ Employees # {} /\ Borrowers \subseteq Employees
  /\ Advances \subseteq Nat /\ Deductions \subseteq Nat
  /\ Advances \cap Deductions = {}
  /\ Runs \subseteq Nat
  /\ IsFiniteSet(Employees) /\ IsFiniteSet(Claims) /\ IsFiniteSet(Runs)
  /\ MaxAmount \in Nat /\ Amounts \subseteq 1 .. MaxAmount
  /\ Pay \subseteq Nat /\ Edits \subseteq Nat /\ MaxBreaks \in [Runs -> Nat]

VARIABLES
  claim,    \* an advance or a deduction: whose, how much, how much repaid
  byHand,   \* AdvanceRepayment rows without a payroll entry, summed
  took,     \* repayment rows of the entry of a run and an employee
  status,   \* PayrollRun.status, "NONE" for an id not in use
  entry,    \* PayrollEntry: gross pay and what is withheld of it
  expense,  \* the purchase row that pays a run, 0 for none
  book,     \* the ledger entries of a run
  stray,    \* purchase rows of salaries that no entry refers to
  breaks    \* payments of each run that broke off

vars == <<claim, byHand, took, status, entry, expense, book, stray, breaks>>

treasury == <<stray, breaks>>

NoClaim == [st |-> "NONE", of |-> CHOOSE e \in Employees : TRUE, amount |-> 0, repaid |-> 0]
NoEntry == [gross |-> 0, advances |-> 0, deductions |-> 0]
NothingTaken == [e \in Employees |-> [c \in Claims |-> 0]]

(* The posted entries of a run under the two keys it has, payroll:accrual:<id>    *)
(* and payroll:payment:<id>: an entry, and the reversal of an earlier one.        *)
Keys == {"accrual", "payment"}

Least(a, b) == IF a < b THEN a ELSE b

-----------------------------------------------------------------------------
(* Advances and deductions still due, for the claims cs. *)

Due(cs, e, K) == {c \in K : cs[c].of = e /\ cs[c].st \in {"OUTSTANDING", "PARTIALLY_REPAID"}}

Left(cs, c) == cs[c].amount - cs[c].repaid

(* outstanding_advances_for, outstanding_deductions_for *)
Outstanding(cs, e, K) == SumFunctionOnSet([c \in Claims |-> Left(cs, c)], Due(cs, e, K))

SuggestedOfRest(cs, e, gross) ==                                     \* mutant
  [gross |-> gross, advances |-> Least(Outstanding(cs, e, Advances), gross),
   deductions |-> Least(Outstanding(cs, e, Deductions), gross - Outstanding(cs, e, Advances))]

(* _suggested_payroll_withholdings: advances first, then deductions. *)
Suggested(cs, e, gross) ==
  LET adv == Least(Outstanding(cs, e, Advances), gross)
  IN  [gross |-> gross, advances |-> adv,
       deductions |-> Least(Outstanding(cs, e, Deductions), gross - adv)]

StaleWithholdings(cs, es) == es                                      \* mutant

(* reconcile_draft_run_withholdings, in full *)
Reconciled(cs, es) == [e \in Employees |-> Suggested(cs, e, es[e].gross)]

Most(a, b) == IF a < b THEN b ELSE a

(* The same when a run is looked at: what is withheld only rises. *)
Raised(cs, es) ==
  [e \in Employees |->
     [es[e] EXCEPT !.advances = Most(@, Suggested(cs, e, es[e].gross).advances),
                   !.deductions = Most(@, Suggested(cs, e, es[e].gross).deductions)]]

Net(es) == [e \in Employees |-> es[e].gross - es[e].advances - es[e].deductions]

(* PayrollRun.total_net *)
Total(es) == SumFunctionOnSet(Net(es), Employees)

(* The part of t that concerns an employee. *)
TakenOf(cs, e, t) == [c \in Claims |-> IF cs[c].of = e THEN t[c] ELSE 0]

(* apply_advance_deductions, apply_employee_deductions: t[c] is taken of each     *)
(* claim, the oldest first, until the amount withheld is used up.                *)
OldestFirst(cs, e, K, amount, t) ==
  /\ \A c \in K : t[c] > 0 => c \in Due(cs, e, K) /\ t[c] <= Left(cs, c)
  /\ \A c, d \in Due(cs, e, K) : (c < d /\ t[d] > 0) => t[c] = Left(cs, c)
  /\ SumFunctionOnSet(t, K) = Least(amount, Outstanding(cs, e, K))

Repaid(cl, x) ==
  IF x = 0 THEN cl
  ELSE [cl EXCEPT !.repaid = @ + x,
                  !.st = IF cl.repaid + x < cl.amount THEN "PARTIALLY_REPAID" ELSE "FULLY_REPAID"]

RestoredInFull(cl, x) ==                                             \* mutant
  IF x = 0 THEN cl
  ELSE [cl EXCEPT !.repaid = Most(0, @ - x), !.st = "OUTSTANDING"]

RestoredByStatus(cl, x) ==                                           \* mutant
  IF x = 0 THEN cl
  ELSE [cl EXCEPT !.st = IF cl.repaid > x THEN "PARTIALLY_REPAID" ELSE "OUTSTANDING"]

(* _undo_payroll_entry_settlements; the status is set whatever it was. *)
Restored(cl, x) ==
  IF x = 0 THEN cl
  ELSE [cl EXCEPT !.repaid = Most(0, @ - x),
                  !.st = IF cl.repaid > x THEN "PARTIALLY_REPAID" ELSE "OUTSTANDING"]

-----------------------------------------------------------------------------
(* The ledger. *)

PostedUnlessReversed(b, amount) ==                                   \* mutant
  IF amount > 0 /\ "reversal" \notin b THEN b \cup {"entry"} ELSE b

(* post_balanced_entry: once for a key, and nothing for a run without pay. *)
Posted(b, amount) == IF amount > 0 THEN b \cup {"entry"} ELSE b

(* reverse_by_idempotency_key: the entry gives up its key and is posted no more;  *)
(* the reversal keeps its own, so under one key nothing is reversed twice.       *)
Reversed(b) == IF "reversal" \in b \/ b = {} THEN b ELSE {"reversal"}

-----------------------------------------------------------------------------
Init ==
  /\ claim = [c \in Claims |-> NoClaim]
  /\ byHand = [c \in Claims |-> 0]
  /\ took = [r \in Runs |-> NothingTaken]
  /\ status = [r \in Runs |-> "NONE"]
  /\ entry = [r \in Runs |-> [e \in Employees |-> NoEntry]]
  /\ expense = [r \in Runs |-> 0]
  /\ book = [r \in Runs |-> [k \in Keys |-> {}]]
  /\ stray = {} /\ breaks = [r \in Runs |-> 0]

payroll == <<took, status, entry, expense, book, treasury>>

(* grant_advance; create_employee_deduction, for the shortage of a shift. *)
Grant(c, e, amount) ==
  /\ claim[c].st = "NONE"
  /\ claim' = [claim EXCEPT ![c] = [st |-> "OUTSTANDING", of |-> e, amount |-> amount, repaid |-> 0]]
  /\ byHand' = [byHand EXCEPT ![c] = 0]
  /\ UNCHANGED payroll

RepayAll(c, amount) ==                                               \* mutant
  /\ claim[c].st \in {"OUTSTANDING", "PARTIALLY_REPAID"}
  /\ claim' = [claim EXCEPT ![c] = Repaid(@, amount)]
  /\ byHand' = [byHand EXCEPT ![c] = @ + amount]
  /\ UNCHANGED payroll

(* repay_advance_manual *)
RepayByHand(c, amount) ==
  /\ claim[c].st \in {"OUTSTANDING", "PARTIALLY_REPAID"}
  /\ LET x == Least(amount, Left(claim, c))
     IN  /\ claim' = [claim EXCEPT ![c] = Repaid(@, x)]
         /\ byHand' = [byHand EXCEPT ![c] = @ + x]
  /\ UNCHANGED payroll

(* cancel_advance: the administrator waives it. *)
Waive(c) ==
  /\ claim[c].st \notin {"NONE", "FULLY_REPAID"}
  /\ claim' = [claim EXCEPT ![c].st = "CANCELLED"]
  /\ UNCHANGED <<byHand, payroll>>

(* delete_advance *)
DeleteAdvance(c) ==
  /\ claim[c].st # "NONE" /\ claim[c].repaid = 0
  /\ claim' = [claim EXCEPT ![c] = NoClaim]
  /\ UNCHANGED <<byHand, payroll>>

-----------------------------------------------------------------------------
(* Runs.  Their own claims are left alone until they are paid. *)

Editable(r) == status[r] \in {"DRAFT", "POSTED"}

(* create_payroll_run.  The id is above those in use; SQLite gives the last one   *)
(* again after its run is deleted.                                               *)
CreateRun(r, gross) ==
  /\ status[r] = "NONE"
  /\ \A q \in Runs : status[q] # "NONE" => q < r
  /\ status' = [status EXCEPT ![r] = "DRAFT"]
  /\ entry' = [entry EXCEPT ![r] = [e \in Employees |-> Suggested(claim, e, gross[e])]]
  /\ UNCHANGED <<claim, byHand, took, expense, book, treasury>>

(* update_entry *)
EditEntry(r, e, gross, advances, deductions) ==
  /\ Editable(r)
  /\ entry' = [entry EXCEPT ![r][e] =
       [gross |-> gross, advances |-> advances, deductions |-> deductions]]
  /\ UNCHANGED <<claim, byHand, took, status, expense, book, treasury>>

(* payroll_detail, when it is opened *)
ViewRun(r) ==
  /\ Editable(r)
  /\ entry' = [entry EXCEPT ![r] = Raised(claim, @)]
  /\ UNCHANGED <<claim, byHand, took, status, expense, book, treasury>>

(* payroll_sync_withholdings *)
SyncRun(r) ==
  /\ Editable(r)
  /\ entry' = [entry EXCEPT ![r] = Reconciled(claim, @)]
  /\ UNCHANGED <<claim, byHand, took, status, expense, book, treasury>>

(* post_run: the salaries are recorded as owed. *)
PostRun(r) ==
  /\ status[r] = "DRAFT"
  /\ status' = [status EXCEPT ![r] = "POSTED"]
  /\ book' = [book EXCEPT ![r]["accrual"] = Posted(@, Total(entry[r]))]
  /\ UNCHANGED <<claim, byHand, took, entry, expense, treasury>>

(* pay_run: recorded as owed, at what was to be paid so far, if they were not;    *)
(* then withheld anew, paid, and what is withheld is repaid.                     *)
PayRun(r) ==
  /\ Editable(r)
  /\ LET es == Reconciled(claim, entry[r])
     IN  /\ Total(es) > 0
         /\ entry' = [entry EXCEPT ![r] = es]
         /\ expense' = [expense EXCEPT ![r] = Total(es)]
         /\ \E t \in [Claims -> 0 .. MaxAmount] :
              /\ \A e \in Employees :
                   /\ OldestFirst(claim, e, Advances, es[e].advances, TakenOf(claim, e, t))
                   /\ OldestFirst(claim, e, Deductions, es[e].deductions, TakenOf(claim, e, t))
              /\ took' = [took EXCEPT ![r] = [e \in Employees |-> TakenOf(claim, e, t)]]
              /\ claim' = [c \in Claims |-> Repaid(claim[c], t[c])]
         /\ book' = [book EXCEPT ![r] =
              [k \in Keys |-> Posted(book[r][k], Total(IF k = "accrual" THEN entry[r] ELSE es))]]
  /\ status' = [status EXCEPT ![r] = "PAID"]
  /\ UNCHANGED <<byHand, treasury>>

(* The alert of its expense committed a payment that goes no further: the run is  *)
(* still to be paid, and no entry of it knows of the expense.                    *)
BreakOffPay(r) ==
  /\ Editable(r) /\ breaks[r] < MaxBreaks[r]
  /\ LET es == Reconciled(claim, entry[r])
     IN  /\ Total(es) > 0
         /\ entry' = [entry EXCEPT ![r] = es]
         /\ stray' = stray \cup {[run |-> r, nth |-> breaks[r], amount |-> Total(es)]}
  /\ book' = [book EXCEPT ![r]["accrual"] = Posted(@, Total(entry[r]))]
  /\ status' = [status EXCEPT ![r] = "POSTED"]
  /\ breaks' = [breaks EXCEPT ![r] = @ + 1]
  /\ UNCHANGED <<claim, byHand, took, expense>>

ReopenKeepingExpense(r) ==                                           \* mutant
  /\ status[r] = "PAID"
  /\ LET cs == [c \in Claims |-> Restored(claim[c], took[r][claim[c].of][c])]
     IN  /\ claim' = cs
         /\ entry' = [entry EXCEPT ![r] = Reconciled(cs, @)]
  /\ took' = [took EXCEPT ![r] = NothingTaken]
  /\ status' = [status EXCEPT ![r] = "DRAFT"]
  /\ book' = [book EXCEPT ![r] = [k \in Keys |-> Reversed(book[r][k])]]
  /\ UNCHANGED <<byHand, expense, treasury>>

(* payroll_reopen: reopen_paid_run_to_draft takes back the repayments, the        *)
(* expense and the ledger entries; then withheld anew.                           *)
ReopenRun(r) ==
  /\ status[r] = "PAID"
  /\ LET cs == [c \in Claims |-> Restored(claim[c], took[r][claim[c].of][c])]
     IN  /\ claim' = cs
         /\ entry' = [entry EXCEPT ![r] = Reconciled(cs, @)]
  /\ took' = [took EXCEPT ![r] = NothingTaken]
  /\ expense' = [expense EXCEPT ![r] = 0]
  /\ status' = [status EXCEPT ![r] = "DRAFT"]
  /\ book' = [book EXCEPT ![r] = [k \in Keys |-> Reversed(book[r][k])]]
  /\ UNCHANGED <<byHand, treasury>>

(* delete_run *)
DeleteRun(r) ==
  /\ Editable(r)
  /\ book' = IF status[r] = "POSTED" THEN [book EXCEPT ![r]["accrual"] = Reversed(@)] ELSE book
  /\ status' = [status EXCEPT ![r] = "NONE"]
  /\ entry' = [entry EXCEPT ![r] = [e \in Employees |-> NoEntry]]
  /\ UNCHANGED <<claim, byHand, took, expense, treasury>>

(* expenses_delete, of the expense that paid a run: nothing else hears of it. *)
DeleteExpense(r) ==
  /\ expense[r] # 0
  /\ expense' = [expense EXCEPT ![r] = 0]
  /\ UNCHANGED <<claim, byHand, took, status, entry, book, treasury>>

(* expenses_delete, of one that a broken-off payment left. *)
DeleteStray(x) ==
  /\ x \in stray
  /\ stray' = stray \ {x}
  /\ UNCHANGED <<claim, byHand, took, status, entry, expense, book, breaks>>

-----------------------------------------------------------------------------
ClaimStep ==
  \/ \E c \in Claims, e \in Borrowers, amount \in Amounts : Grant(c, e, amount)
  \/ \E c \in Advances : Waive(c) \/ DeleteAdvance(c)
  \/ \E c \in Advances, amount \in 1 .. MaxAmount : RepayByHand(c, amount)

RunStep(r) ==
  \/ \E gross \in [Employees -> Pay] : CreateRun(r, gross)
  \/ \E e \in Employees, gross \in Pay, a, d \in Edits : EditEntry(r, e, gross, a, d)
  \/ ViewRun(r) \/ SyncRun(r) \/ PostRun(r) \/ PayRun(r) \/ BreakOffPay(r)
  \/ ReopenRun(r) \/ DeleteRun(r) \/ DeleteExpense(r)

Next ==
  \/ ClaimStep
  \/ \E r \in Runs : RunStep(r)
  \/ \E x \in stray : DeleteStray(x)

Spec == Init /\ [][Next]_vars

-----------------------------------------------------------------------------
(* Properties. *)

ClaimStatus == {"NONE", "OUTSTANDING", "PARTIALLY_REPAID", "FULLY_REPAID", "CANCELLED"}

TypeOK ==
  /\ claim \in [Claims -> [st : ClaimStatus, of : Employees, amount : Nat, repaid : Nat]]
  /\ byHand \in [Claims -> Nat]
  /\ took \in [Runs -> [Employees -> [Claims -> 0 .. MaxAmount]]]
  /\ status \in [Runs -> {"NONE", "DRAFT", "POSTED", "PAID"}]
  /\ entry \in [Runs -> [Employees -> [gross : Nat, advances : Nat, deductions : Nat]]]
  /\ expense \in [Runs -> Nat]
  /\ book \in [Runs -> [Keys -> SUBSET {"entry", "reversal"}]]
  /\ stray \subseteq [run : Runs, nth : Nat, amount : Nat]
  /\ breaks \in [Runs -> Nat]

(* No advance or deduction is repaid beyond its amount, by hand and by several    *)
(* runs together, and its status tells how much of it was (hr/service.py:1688     *)
(* and 1389, where a reopened run gives back what it took).                       *)
RepaidAsStatusSays ==
  \A c \in Claims :
    /\ claim[c].repaid <= claim[c].amount
    /\ claim[c].st = "OUTSTANDING" => claim[c].repaid = 0
    /\ claim[c].st = "PARTIALLY_REPAID" => claim[c].repaid \in 1 .. claim[c].amount - 1
    /\ claim[c].st = "FULLY_REPAID" => claim[c].repaid = claim[c].amount

(* What counts as repaid of an advance or deduction is what its rows say: those   *)
(* entered by hand and those of every paid run.                                  *)
RepaidIsRecorded ==
  \A c \in Claims : claim[c].st # "NONE" =>
    claim[c].repaid =
      byHand[c] + SumFunctionOnSet([r \in Runs |-> took[r][claim[c].of][c]], Runs)

(* What a paid run kept of a salary was repaid by it, to the last unit: although  *)
(* the entry was drawn up earlier, advances may have been repaid by hand, waived  *)
(* or repaid by another month meanwhile, and the entry edited (pay_run           *)
(* reconciles once more, hr/service.py:1319).                                     *)
WithheldIsRepaid ==
  \A r \in Runs : status[r] = "PAID" =>
    \A e \in Employees :
      /\ SumFunctionOnSet(took[r][e], Advances) = entry[r][e].advances
      /\ SumFunctionOnSet(took[r][e], Deductions) = entry[r][e].deductions

(* An expense that no entry refers to was paid by a request that broke off, and    *)
(* each of these left one.                                                        *)
StrayIsBroken ==
  /\ \A x \in stray : x.amount > 0 /\ x.nth < breaks[x.run]
  /\ \A x, y \in stray : (x.run = y.run /\ x.nth = y.nth) => x = y

(* Salaries leave the treasury for paid runs only, once, and for what their       *)
(* entries come to, however often a run was paid and reopened; what leaves it      *)
(* besides was paid by a request that broke off, once by each (hr/service.py:1339  *)
(* and 1371).                                                                     *)
PaidOnce ==
  /\ \A r \in Runs : expense[r] # 0 => status[r] = "PAID" /\ expense[r] = Total(entry[r])
  /\ StrayIsBroken

(* A paid run has a posted payment in the ledger, also after it was reopened and  *)
(* its first payment reversed: the reversal frees the key (reversal.py:80).  What *)
(* the reports make of it is another matter: DraftIsNotInReports.                 *)
PaymentIsInLedger ==
  \A r \in Runs : status[r] = "PAID" => "entry" \in book[r]["payment"]

(* In the reports, which count posted entries only (gl/reports.py:24), a run that *)
(* is a draft again comes to nothing.  It does not hold: the reversed entry is    *)
(* left out, its reversal is not.                                                *)
DraftIsNotInReports ==
  \A r \in Runs, k \in Keys :
    status[r] = "DRAFT" => ("entry" \in book[r][k] <=> "reversal" \in book[r][k])
=================================================================================
