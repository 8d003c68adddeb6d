----------------------------- MODULE Payroll_proofs -----------------------------
(* What TLAPS proves about Payroll, for any employees, advances, deductions,     *)
(* runs and amounts.                                                             *)
EXTENDS Payroll, Sums

ClaimRow == [st : ClaimStatus, of : Employees, amount : Nat, repaid : Nat]

EntryRow == [gross : Nat, advances : Nat, deductions : Nat]

(* One advance or deduction: RepaidAsStatusSays, and the bound on its amount.     *)
ClaimOK(cl) ==
  /\ cl \in ClaimRow
  /\ cl.amount <= MaxAmount
  /\ cl.repaid <= cl.amount
  /\ cl.st = "OUTSTANDING" => cl.repaid = 0
  /\ cl.st = "PARTIALLY_REPAID" => cl.repaid \in 1 .. cl.amount - 1
  /\ cl.st = "FULLY_REPAID" => cl.repaid = cl.amount

ClaimsOK(cs) == cs \in [Claims -> ClaimRow] /\ \A c \in Claims : ClaimOK(cs[c])

IInv ==
  /\ TypeOK /\ ClaimsOK(claim)
  /\ WithheldIsRepaid /\ PaidOnce /\ PaymentIsInLedger

-----------------------------------------------------------------------------
(* A row with another amount repaid and another status.                           *)
LEMMA RowWith ==
  ASSUME NEW cl, ClaimOK(cl), NEW n \in Nat, NEW st \in ClaimStatus, n <= cl.amount,
         st = "OUTSTANDING" => n = 0,
         st = "PARTIALLY_REPAID" => n \in 1 .. cl.amount - 1,
         st = "FULLY_REPAID" => n = cl.amount
  PROVE  /\ ClaimOK([cl EXCEPT !.repaid = n, !.st = st])
         /\ [cl EXCEPT !.repaid = n, !.st = st].of = cl.of
<1> DEFINE r == [cl EXCEPT !.repaid = n, !.st = st]
<1>1. r.st = st /\ r.repaid = n /\ r.amount = cl.amount /\ r.of = cl.of /\ r \in ClaimRow
  BY DEF ClaimOK, ClaimRow
<1> HIDE DEF r
<1>2. ClaimOK(r)
  BY <1>1 DEF ClaimOK
<1> QED
  BY <1>1, <1>2 DEF r

(* Repaying and giving back keep an advance or deduction in order.                *)
LEMMA RepaidKeeps ==
  ASSUME NEW cl, ClaimOK(cl), NEW x \in Nat,
         x > 0 => cl.st \in {"OUTSTANDING", "PARTIALLY_REPAID"},
         x <= cl.amount - cl.repaid
  PROVE  ClaimOK(Repaid(cl, x))
<1>1. CASE x = 0
  BY <1>1 DEF Repaid
<1>2. CASE x > 0
  <2> DEFINE n == cl.repaid + x
             st == IF n < cl.amount THEN "PARTIALLY_REPAID" ELSE "FULLY_REPAID"
  <2>1. Repaid(cl, x) = [cl EXCEPT !.repaid = n, !.st = st]
    BY <1>2 DEF Repaid, ClaimOK, ClaimRow
  <2>2. n \in Nat /\ n > 0 /\ n <= cl.amount /\ cl.amount \in Nat /\ st \in ClaimStatus
    BY <1>2 DEF ClaimOK, ClaimRow, ClaimStatus
  <2>3. st = "PARTIALLY_REPAID" => n \in 1 .. cl.amount - 1
    BY <2>2
  <2>4. st = "FULLY_REPAID" => n = cl.amount
    BY <2>2
  <2>5. st # "OUTSTANDING"
    OBVIOUS
  <2> HIDE DEF n, st
  <2>6. /\ ClaimOK([cl EXCEPT !.repaid = n, !.st = st])
        /\ [cl EXCEPT !.repaid = n, !.st = st].of = cl.of
    BY <2>2, <2>3, <2>4, <2>5, RowWith
  <2> QED
    BY <2>1, <2>6
<1> QED
  BY <1>1, <1>2

LEMMA RestoredKeeps ==
  ASSUME NEW cl, ClaimOK(cl), NEW x \in Nat
  PROVE  ClaimOK(Restored(cl, x)) /\ Restored(cl, x).of = cl.of
<1>1. CASE x = 0
  BY <1>1 DEF Restored
<1>2. CASE x > 0
  <2> DEFINE n == Most(0, cl.repaid - x)
             st == IF cl.repaid > x THEN "PARTIALLY_REPAID" ELSE "OUTSTANDING"
  <2>1. Restored(cl, x) = [cl EXCEPT !.repaid = n, !.st = st]
    BY <1>2 DEF Restored, ClaimOK, ClaimRow
  <2>2. n \in Nat /\ n <= cl.amount /\ cl.amount \in Nat /\ st \in ClaimStatus
    BY <1>2 DEF ClaimOK, ClaimRow, ClaimStatus, Most
  <2>3. st = "PARTIALLY_REPAID" => n \in 1 .. cl.amount - 1
    BY <1>2 DEF ClaimOK, ClaimRow, Most
  <2>4. st = "OUTSTANDING" => n = 0
    BY <1>2 DEF ClaimOK, ClaimRow, Most
  <2>5. st # "FULLY_REPAID"
    OBVIOUS
  <2> HIDE DEF n, st
  <2>6. /\ ClaimOK([cl EXCEPT !.repaid = n, !.st = st])
        /\ [cl EXCEPT !.repaid = n, !.st = st].of = cl.of
    BY <2>2, <2>3, <2>4, <2>5, RowWith
  <2> QED
    BY <2>1, <2>6
<1> QED
  BY <1>1, <1>2

(* What is outstanding is an amount.                                              *)
LEMMA OutstandingIsNat ==
  ASSUME NEW cs, ClaimsOK(cs), NEW e, NEW K \in SUBSET Claims
  PROVE  Outstanding(cs, e, K) \in Nat
<1>1. ASSUME NEW c \in Claims PROVE Left(cs, c) \in 0 .. MaxAmount
  BY PayrollAssumption DEF ClaimsOK, ClaimOK, ClaimRow, Left
<1>2. Due(cs, e, K) \in SUBSET Claims
  BY DEF Due
<1>3. IsFiniteSet(Due(cs, e, K)) /\ \A c \in Due(cs, e, K) : Left(cs, c) \in Nat
  BY <1>1, <1>2, FS_Subset, PayrollAssumption
<1>4. \A c \in Due(cs, e, K) : [d \in Claims |-> Left(cs, d)][c] \in Nat
  BY <1>2, <1>3
<1> QED
  BY <1>3, <1>4, SumNat DEF Outstanding

(* What is suggested for an entry fits into its pay and is not more than is due.  *)
LEMMA SuggestedFits ==
  ASSUME NEW cs, ClaimsOK(cs), NEW e, NEW g \in Nat
  PROVE  LET s == Suggested(cs, e, g)
         IN  /\ s \in EntryRow /\ s.gross = g
             /\ g - s.advances - s.deductions \in 0 .. g
             /\ Least(s.advances, Outstanding(cs, e, Advances)) = s.advances
             /\ Least(s.deductions, Outstanding(cs, e, Deductions)) = s.deductions
<1> DEFINE a == Outstanding(cs, e, Advances)
           d == Outstanding(cs, e, Deductions)
           adv == Least(a, g)
           ded == Least(d, g - adv)
<1>1. a \in Nat /\ d \in Nat
  <2>1. Advances \in SUBSET Claims /\ Deductions \in SUBSET Claims
    BY DEF Claims
  <2> QED
    BY <2>1, OutstandingIsNat
<1>2. Suggested(cs, e, g) = [gross |-> g, advances |-> adv, deductions |-> ded]
  BY DEF Suggested
<1> HIDE DEF a, d
<1>3. adv \in Nat /\ adv <= g /\ Least(adv, a) = adv
  BY <1>1 DEF Least
<1> HIDE DEF adv
<1>4. ded \in Nat /\ ded <= g - adv /\ Least(ded, d) = ded
  BY <1>1, <1>3 DEF Least
<1> HIDE DEF ded
<1>5. g - adv - ded \in 0 .. g
  BY <1>3, <1>4
<1> QED
  BY <1>2, <1>3, <1>4, <1>5 DEF EntryRow, a, d

(* The entries of a run, withheld anew.                                           *)
Rows(es) == es \in [Employees -> EntryRow]

LEMMA ReconciledFits ==
  ASSUME NEW cs, ClaimsOK(cs), NEW es, Rows(es)
  PROVE  /\ Rows(Reconciled(cs, es))
         /\ Total(Reconciled(cs, es)) \in Nat
<1> DEFINE rs == Reconciled(cs, es)
<1>1. ASSUME NEW e \in Employees
      PROVE  rs[e] \in EntryRow /\ Net(rs)[e] \in Nat
  <2> DEFINE g == es[e].gross
  <2>1. g \in Nat
    BY DEF Rows, EntryRow
  <2>2. rs[e] = Suggested(cs, e, g)
    BY DEF Reconciled
  <2> HIDE DEF rs, g
  <2>3. /\ rs[e] \in EntryRow /\ rs[e].gross = g
        /\ g - rs[e].advances - rs[e].deductions \in 0 .. g
    BY <2>1, <2>2, SuggestedFits
  <2>4. Net(rs)[e] = g - rs[e].advances - rs[e].deductions
    BY <2>3 DEF Net
  <2> QED
    BY <2>1, <2>3, <2>4
<1>2. rs \in [Employees -> EntryRow]
  BY <1>1 DEF Reconciled
<1> HIDE DEF rs
<1>3. \A e \in Employees : Net(rs)[e] \in Nat
  BY <1>1
<1>4. Total(rs) \in Nat
  BY <1>3, SumNat, PayrollAssumption DEF Total
<1>5. Rows(rs)
  BY <1>1, <1>2 DEF Rows
<1> QED
  BY <1>4, <1>5 DEF rs

-----------------------------------------------------------------------------
(* What each kind of step keeps.                                                  *)

LEMMA ClaimStepKeeps ==
  ASSUME IInv, NEW c \in Claims, NEW cl, ClaimOK(cl), claim' = [claim EXCEPT ![c] = cl],
         byHand' \in [Claims -> Nat], UNCHANGED payroll
  PROVE  IInv'
<1>1. claim' \in [Claims -> ClaimRow] /\ \A d \in Claims : ClaimOK(claim'[d])
  BY DEF IInv, ClaimsOK, ClaimOK
<1>2. ClaimsOK(claim)'
  BY <1>1 DEF ClaimsOK
<1> QED
  BY <1>1, <1>2 DEF IInv, TypeOK, ClaimRow, WithheldIsRepaid, PaidOnce, StrayIsBroken, treasury,
                    PaymentIsInLedger, payroll

LEMMA EntriesKeep ==
  ASSUME IInv, NEW r \in Runs, NEW es, Rows(es), entry' = [entry EXCEPT ![r] = es],
         status[r] # "PAID", status'[r] \in {"DRAFT", "POSTED"},
         \A q \in Runs \ {r} : status'[q] = status[q],
         status' \in [Runs -> {"NONE", "DRAFT", "POSTED", "PAID"}],
         UNCHANGED <<claim, byHand, took, expense, book, treasury>>
  PROVE  IInv'
<1>1. entry' \in [Runs -> [Employees -> EntryRow]] /\ entry'[r] = es
      /\ \A q \in Runs \ {r} : entry'[q] = entry[q]
  BY DEF IInv, TypeOK, EntryRow, Rows
<1>2. TypeOK'
  BY <1>1 DEF IInv, TypeOK, EntryRow, treasury
<1>3. ClaimsOK(claim)'
  BY DEF IInv, ClaimsOK
<1>4. WithheldIsRepaid'
  BY <1>1 DEF IInv, WithheldIsRepaid
<1>5. PaidOnce'
  BY <1>1 DEF IInv, PaidOnce, StrayIsBroken, treasury
<1>6. PaymentIsInLedger'
  BY DEF IInv, PaymentIsInLedger
<1> QED
  BY <1>2, <1>3, <1>4, <1>5, <1>6 DEF IInv

(* Steps of the administrator on what an employee owes.                           *)
LEMMA ClaimsKeep == ASSUME IInv, ClaimStep PROVE IInv'
<1>0. /\ claim \in [Claims -> ClaimRow] /\ byHand \in [Claims -> Nat]
      /\ \A c \in Claims : ClaimOK(claim[c])
      /\ \A a \in Amounts : a \in 1 .. MaxAmount
  BY PayrollAssumption DEF IInv, TypeOK, ClaimsOK
<1>1. ASSUME NEW c \in Claims, NEW e \in Borrowers, NEW a \in Amounts, Grant(c, e, a) PROVE IInv'
  <2> DEFINE cl == [st |-> "OUTSTANDING", of |-> e, amount |-> a, repaid |-> 0]
  <2>1. ClaimOK(cl)
    BY <1>0, PayrollAssumption DEF ClaimOK, ClaimRow, ClaimStatus
  <2>2. byHand' \in [Claims -> Nat]
    BY <1>0, <1>1 DEF Grant
  <2> QED
    BY <1>1, <2>1, <2>2, ClaimStepKeeps DEF Grant
<1>2. ASSUME NEW c \in Advances, NEW a \in 1 .. MaxAmount, RepayByHand(c, a) PROVE IInv'
  <2> DEFINE x == Least(a, Left(claim, c))
  <2>1. x \in Nat /\ x <= claim[c].amount - claim[c].repaid
    BY <1>0, PayrollAssumption DEF Claims, Least, Left, ClaimOK, ClaimRow
  <2>2. /\ claim' = [claim EXCEPT ![c] = Repaid(claim[c], x)]
        /\ byHand' = [byHand EXCEPT ![c] = byHand[c] + x]
        /\ claim[c].st \in {"OUTSTANDING", "PARTIALLY_REPAID"}
        /\ UNCHANGED payroll
    BY <1>2 DEF RepayByHand
  <2> HIDE DEF x
  <2>3. c \in Claims
    BY DEF Claims
  <2>4. ClaimOK(Repaid(claim[c], x))
    BY <1>0, <2>1, <2>2, <2>3, RepaidKeeps
  <2>5. byHand' \in [Claims -> Nat]
    BY <1>0, <2>1, <2>2, <2>3
  <2> QED
    BY <2>2, <2>3, <2>4, <2>5, ClaimStepKeeps
<1>3. ASSUME NEW c \in Advances, Waive(c) PROVE IInv'
  <2> DEFINE cl == [claim[c] EXCEPT !.st = "CANCELLED"]
  <2>1. c \in Claims /\ claim' = [claim EXCEPT ![c] = cl]
    BY <1>3 DEF Waive, Claims
  <2>2. ClaimOK(cl)
    BY <1>0, <2>1 DEF ClaimOK, ClaimRow, ClaimStatus
  <2> HIDE DEF cl
  <2> QED
    BY <1>0, <1>3, <2>1, <2>2, ClaimStepKeeps DEF Waive
<1>4. ASSUME NEW c \in Advances, DeleteAdvance(c) PROVE IInv'
  <2>1. ClaimOK(NoClaim)
    BY PayrollAssumption DEF ClaimOK, ClaimRow, ClaimStatus, NoClaim
  <2> QED
    BY <1>0, <1>4, <2>1, ClaimStepKeeps DEF DeleteAdvance, Claims
<1> QED
  BY <1>1, <1>2, <1>3, <1>4 DEF ClaimStep

LEMMA RowsOf ==
  ASSUME IInv, NEW r \in Runs
  PROVE  Rows(entry[r])
BY DEF IInv, TypeOK, Rows, EntryRow

(* Drawing a run up, editing it and bringing it up to date.                       *)
LEMMA DraftsKeep ==
  ASSUME IInv, NEW r \in Runs,
         \/ \E gross \in [Employees -> Pay] : CreateRun(r, gross)
         \/ \E e \in Employees, gross \in Pay, a, d \in Edits : EditEntry(r, e, gross, a, d)
         \/ ViewRun(r)
         \/ SyncRun(r)
  PROVE  IInv'
<1>0. /\ ClaimsOK(claim) /\ status \in [Runs -> {"NONE", "DRAFT", "POSTED", "PAID"}]
      /\ entry \in [Runs -> [Employees -> EntryRow]]
  BY DEF IInv, TypeOK, EntryRow
<1>1. ASSUME NEW gross \in [Employees -> Pay], CreateRun(r, gross) PROVE IInv'
  <2> DEFINE es == [e \in Employees |-> Suggested(claim, e, gross[e])]
  <2>1. ASSUME NEW e \in Employees PROVE es[e] \in EntryRow
    <3>1. gross[e] \in Nat
      BY PayrollAssumption
    <3> QED
      BY <1>0, <3>1, SuggestedFits
  <2>2. Rows(es)
    BY <2>1 DEF Rows
  <2>3. /\ entry' = [entry EXCEPT ![r] = es]
        /\ status[r] = "NONE" /\ status' = [status EXCEPT ![r] = "DRAFT"]
        /\ UNCHANGED <<claim, byHand, took, expense, book, treasury>>
    BY <1>1 DEF CreateRun
  <2> HIDE DEF es
  <2> QED
    BY <1>0, <2>2, <2>3, EntriesKeep
<1>2. ASSUME NEW e \in Employees, NEW gross \in Pay, NEW a \in Edits, NEW d \in Edits,
             EditEntry(r, e, gross, a, d)
      PROVE  IInv'
  <2> DEFINE row == [gross |-> gross, advances |-> a, deductions |-> d]
             es == [entry[r] EXCEPT ![e] = row]
  <2>1. row \in EntryRow
    BY PayrollAssumption DEF EntryRow
  <2>2. status[r] \in {"DRAFT", "POSTED"} /\ entry' = [entry EXCEPT ![r] = es]
    BY <1>0, <1>2 DEF EditEntry, Editable
  <2>3. Rows(entry[r])
    BY <2>2, RowsOf
  <2> HIDE DEF row
  <2>4. Rows(es)
    BY <2>1, <2>3 DEF Rows
  <2> HIDE DEF es
  <2> QED
    BY <1>0, <1>2, <2>2, <2>4, EntriesKeep DEF EditEntry
<1>3. ASSUME ViewRun(r) PROVE IInv'
  <2> DEFINE es == Raised(claim, entry[r])
  <2>1. status[r] \in {"DRAFT", "POSTED"} /\ entry' = [entry EXCEPT ![r] = es]
    BY <1>0, <1>3 DEF ViewRun, Editable
  <2>2. Rows(entry[r])
    BY <2>1, RowsOf
  <2>3. ASSUME NEW e \in Employees PROVE es[e] \in EntryRow
    <3> DEFINE row == entry[r][e]
               s == Suggested(claim, e, row.gross)
    <3>1. row \in EntryRow /\ row.gross \in Nat
      BY <2>2 DEF Rows, EntryRow
    <3>2. s \in EntryRow
      BY <1>0, <3>1, SuggestedFits
    <3>3. es[e] = [row EXCEPT !.advances = Most(row.advances, s.advances),
                              !.deductions = Most(row.deductions, s.deductions)]
      BY DEF Raised
    <3> HIDE DEF row, s, es
    <3>4. Most(row.advances, s.advances) \in Nat /\ Most(row.deductions, s.deductions) \in Nat
      BY <3>1, <3>2 DEF EntryRow, Most
    <3> QED
      BY <3>1, <3>3, <3>4 DEF EntryRow
  <2>4. Rows(es)
    <3>1. es = [e \in Employees |-> es[e]]
      BY DEF Raised
    <3> HIDE DEF es
    <3> QED
      BY <2>3, <3>1 DEF Rows
  <2> HIDE DEF es
  <2> QED
    BY <1>0, <1>3, <2>1, <2>4, EntriesKeep DEF ViewRun
<1>4. ASSUME SyncRun(r) PROVE IInv'
  <2> DEFINE es == Reconciled(claim, entry[r])
  <2>1. status[r] \in {"DRAFT", "POSTED"} /\ entry' = [entry EXCEPT ![r] = es]
    BY <1>0, <1>4 DEF SyncRun, Editable
  <2>2. Rows(es)
    BY <1>0, <2>1, RowsOf, ReconciledFits
  <2> HIDE DEF es
  <2> QED
    BY <1>0, <1>4, <2>1, <2>2, EntriesKeep DEF SyncRun
<1> QED
  BY <1>1, <1>2, <1>3, <1>4

(* Posting and deleting a run, and deleting its expense.                          *)
LEMMA SmallStepsKeep ==
  ASSUME IInv, NEW r \in Runs, PostRun(r) \/ DeleteRun(r) \/ DeleteExpense(r)
  PROVE  IInv'
<1>0. /\ TypeOK /\ ClaimsOK(claim) /\ status \in [Runs -> {"NONE", "DRAFT", "POSTED", "PAID"}]
      /\ entry \in [Runs -> [Employees -> EntryRow]]
      /\ book \in [Runs -> [Keys -> SUBSET {"entry", "reversal"}]]
      /\ "accrual" \in Keys /\ "payment" \in Keys
  BY DEF IInv, TypeOK, EntryRow, Keys
<1>1. CASE PostRun(r)
  <2>1. Posted(book[r]["accrual"], Total(entry[r])) \in SUBSET {"entry", "reversal"}
    BY <1>0 DEF Posted
  <2>2. book' \in [Runs -> [Keys -> SUBSET {"entry", "reversal"}]]
        /\ \A q \in Runs : book'[q]["payment"] = book[q]["payment"]
    BY <1>0, <1>1, <2>1 DEF PostRun
  <2>3. status[r] = "DRAFT" /\ status' = [status EXCEPT ![r] = "POSTED"]
        /\ UNCHANGED <<claim, byHand, took, entry, expense, treasury>>
    BY <1>1 DEF PostRun
  <2> QED
    BY <1>0, <2>2, <2>3 DEF IInv, TypeOK, ClaimsOK, WithheldIsRepaid, PaidOnce, StrayIsBroken, treasury,
                            PaymentIsInLedger
<1>2. CASE DeleteRun(r)
  <2> DEFINE es == [e \in Employees |-> NoEntry]
  <2>1. Reversed(book[r]["accrual"]) \in SUBSET {"entry", "reversal"}
    BY <1>0 DEF Reversed
  <2>2. book' \in [Runs -> [Keys -> SUBSET {"entry", "reversal"}]]
        /\ \A q \in Runs : book'[q]["payment"] = book[q]["payment"]
    BY <1>0, <1>2, <2>1 DEF DeleteRun
  <2>3. es \in [Employees -> EntryRow]
    BY DEF NoEntry, EntryRow
  <2>4. /\ entry' = [entry EXCEPT ![r] = es]
        /\ status[r] \in {"DRAFT", "POSTED"} /\ status' = [status EXCEPT ![r] = "NONE"]
        /\ UNCHANGED <<claim, byHand, took, expense, treasury>>
    BY <1>2 DEF DeleteRun, Editable
  <2> HIDE DEF es
  <2>5. entry' \in [Runs -> [Employees -> EntryRow]]
        /\ \A q \in Runs \ {r} : entry'[q] = entry[q]
    BY <1>0, <2>3, <2>4
  <2>6. TypeOK'
    BY <1>0, <2>2, <2>4, <2>5 DEF TypeOK, EntryRow, treasury
  <2>7. ClaimsOK(claim)'
    BY <1>0, <2>4 DEF ClaimsOK
  <2>8. WithheldIsRepaid' /\ PaidOnce' /\ PaymentIsInLedger'
    BY <1>0, <2>2, <2>4, <2>5 DEF IInv, WithheldIsRepaid, PaidOnce, StrayIsBroken, treasury, PaymentIsInLedger
  <2> QED
    BY <2>6, <2>7, <2>8 DEF IInv
<1>3. CASE DeleteExpense(r)
  BY <1>0, <1>3 DEF DeleteExpense, IInv, TypeOK, ClaimsOK, WithheldIsRepaid, PaidOnce, StrayIsBroken, treasury,
                    PaymentIsInLedger
<1> QED
  BY <1>1, <1>2, <1>3

(* Paying: what is withheld is taken of the claims, to the last unit.             *)
LEMMA PayKeeps ==
  ASSUME IInv, NEW r \in Runs, PayRun(r)
  PROVE  IInv'
<1> DEFINE es == Reconciled(claim, entry[r])
<1>0. /\ TypeOK /\ ClaimsOK(claim) /\ status \in [Runs -> {"NONE", "DRAFT", "POSTED", "PAID"}]
      /\ entry \in [Runs -> [Employees -> EntryRow]]
      /\ book \in [Runs -> [Keys -> SUBSET {"entry", "reversal"}]]
      /\ Keys = {"accrual", "payment"}
      /\ \A c \in Claims : ClaimOK(claim[c]) /\ claim[c].of \in Employees
  BY DEF IInv, TypeOK, EntryRow, Keys, ClaimsOK, ClaimRow
<1>1. status[r] \in {"DRAFT", "POSTED"} /\ Rows(entry[r])
  BY RowsOf DEF PayRun, Editable
<1>2. Rows(es) /\ Total(es) \in Nat
  BY <1>0, <1>1, ReconciledFits
<1>3. PICK t \in [Claims -> 0 .. MaxAmount] :
        /\ \A e \in Employees :
             /\ OldestFirst(claim, e, Advances, es[e].advances, TakenOf(claim, e, t))
             /\ OldestFirst(claim, e, Deductions, es[e].deductions, TakenOf(claim, e, t))
        /\ took' = [took EXCEPT ![r] = [e \in Employees |-> TakenOf(claim, e, t)]]
        /\ claim' = [c \in Claims |-> Repaid(claim[c], t[c])]
  BY DEF PayRun
<1>4. /\ Total(es) > 0
      /\ entry' = [entry EXCEPT ![r] = es]
      /\ expense' = [expense EXCEPT ![r] = Total(es)]
      /\ book' = [book EXCEPT ![r] =
           [k \in Keys |-> Posted(book[r][k], Total(IF k = "accrual" THEN entry[r] ELSE es))]]
      /\ status' = [status EXCEPT ![r] = "PAID"]
      /\ byHand' = byHand /\ UNCHANGED treasury
  BY DEF PayRun
<1>5. ASSUME NEW e \in Employees
      PROVE  /\ SumFunctionOnSet(TakenOf(claim, e, t), Advances) = es[e].advances
             /\ SumFunctionOnSet(TakenOf(claim, e, t), Deductions) = es[e].deductions
  <2> DEFINE g == entry[r][e].gross
  <2>1. es[e] = Suggested(claim, e, g) /\ g \in Nat
    BY <1>1 DEF Reconciled, Rows, EntryRow
  <2>2. /\ SumFunctionOnSet(TakenOf(claim, e, t), Advances)
             = Least(es[e].advances, Outstanding(claim, e, Advances))
        /\ SumFunctionOnSet(TakenOf(claim, e, t), Deductions)
             = Least(es[e].deductions, Outstanding(claim, e, Deductions))
    BY <1>3 DEF OldestFirst
  <2> HIDE DEF es, g
  <2> QED
    BY <1>0, <2>1, <2>2, SuggestedFits
<1> HIDE DEF es
<1>6. ASSUME NEW c \in Claims PROVE ClaimOK(Repaid(claim[c], t[c]))
  <2>1. t[c] \in Nat
    BY PayrollAssumption, <1>3
  <2>2. TakenOf(claim, claim[c].of, t)[c] = t[c]
    BY DEF TakenOf
  <2>3. t[c] > 0 => c \in Due(claim, claim[c].of, Claims) /\ t[c] <= Left(claim, c)
    BY <1>0, <1>3, <2>2 DEF OldestFirst, Due, Claims
  <2>4. claim[c].amount - claim[c].repaid \in Nat
    BY <1>0 DEF ClaimOK, ClaimRow
  <2>5. t[c] <= claim[c].amount - claim[c].repaid
    BY <2>1, <2>3, <2>4 DEF Left
  <2>6. t[c] > 0 => claim[c].st \in {"OUTSTANDING", "PARTIALLY_REPAID"}
    BY <2>3 DEF Due
  <2> QED
    BY <1>0, <2>1, <2>5, <2>6, RepaidKeeps
<1>7. ClaimsOK(claim)' /\ claim' \in [Claims -> ClaimRow]
  BY <1>3, <1>6 DEF ClaimsOK, ClaimOK
<1>8. /\ took' \in [Runs -> [Employees -> [Claims -> 0 .. MaxAmount]]]
      /\ \A q \in Runs \ {r} : took'[q] = took[q]
      /\ \A e \in Employees : took'[r][e] = TakenOf(claim, e, t)
  <2>1. 0 \in 0 .. MaxAmount
    BY PayrollAssumption
  <2>2. \A e \in Employees : TakenOf(claim, e, t) \in [Claims -> 0 .. MaxAmount]
    BY <1>3, <2>1 DEF TakenOf
  <2>3. [e \in Employees |-> TakenOf(claim, e, t)] \in [Employees -> [Claims -> 0 .. MaxAmount]]
    BY <2>2
  <2>4. took \in [Runs -> [Employees -> [Claims -> 0 .. MaxAmount]]]
    BY <1>0 DEF TypeOK
  <2> QED
    BY <1>3, <2>3, <2>4
<1>9. /\ entry' \in [Runs -> [Employees -> EntryRow]]
      /\ entry'[r] = es /\ \A q \in Runs \ {r} : entry'[q] = entry[q]
  BY <1>0, <1>2, <1>4 DEF Rows
<1>10. /\ book' \in [Runs -> [Keys -> SUBSET {"entry", "reversal"}]]
       /\ \A q \in Runs \ {r} : book'[q] = book[q]
       /\ "entry" \in book'[r]["payment"]
  <2> DEFINE b == [k \in Keys |->
                     Posted(book[r][k], Total(IF k = "accrual" THEN entry[r] ELSE es))]
  <2>1. \A k \in Keys : b[k] \in SUBSET {"entry", "reversal"}
    BY <1>0 DEF Posted
  <2>2. b["payment"] = Posted(book[r]["payment"], Total(es))
    BY <1>0
  <2>3. "entry" \in b["payment"]
    BY <1>4, <2>2 DEF Posted
  <2>4. b \in [Keys -> SUBSET {"entry", "reversal"}]
    BY <2>1
  <2>5. book' = [book EXCEPT ![r] = b]
    BY <1>4
  <2> HIDE DEF b
  <2> QED
    BY <1>0, <2>3, <2>4, <2>5
<1>11. expense' \in [Runs -> Nat] /\ byHand' \in [Claims -> Nat]
  BY <1>0, <1>2, <1>4 DEF TypeOK
<1>12. TypeOK'
  BY <1>0, <1>4, <1>7, <1>8, <1>9, <1>10, <1>11 DEF TypeOK, ClaimRow, EntryRow, treasury
<1>13. WithheldIsRepaid'
  <2>1. ASSUME NEW q \in Runs, status'[q] = "PAID", NEW e \in Employees
        PROVE  /\ SumFunctionOnSet(took'[q][e], Advances) = entry'[q][e].advances
               /\ SumFunctionOnSet(took'[q][e], Deductions) = entry'[q][e].deductions
    <3>1. CASE q = r
      <4>1. took'[q][e] = TakenOf(claim, e, t) /\ entry'[q][e] = es[e]
        BY <1>8, <1>9, <3>1
      <4> QED
        BY <1>5, <4>1
    <3>2. CASE q # r
      <4>1. took'[q] = took[q] /\ entry'[q] = entry[q] /\ status[q] = "PAID"
        BY <1>0, <1>4, <1>8, <1>9, <2>1, <3>2
      <4> QED
        BY <4>1 DEF IInv, WithheldIsRepaid
    <3> QED
      BY <3>1, <3>2
  <2> QED
    BY <2>1 DEF WithheldIsRepaid
<1>14. PaidOnce'
  BY <1>0, <1>4, <1>9 DEF IInv, TypeOK, PaidOnce, StrayIsBroken, treasury
<1>15. PaymentIsInLedger'
  BY <1>0, <1>4, <1>10 DEF IInv, PaymentIsInLedger
<1> QED
  BY <1>7, <1>12, <1>13, <1>14, <1>15 DEF IInv

(* A payment that breaks off leaves an expense, and the run to be paid.           *)
LEMMA BreakOffKeeps ==
  ASSUME IInv, NEW r \in Runs, BreakOffPay(r)
  PROVE  IInv'
<1> DEFINE es == Reconciled(claim, entry[r])
           x == [run |-> r, nth |-> breaks[r], amount |-> Total(es)]
<1>0. /\ TypeOK /\ ClaimsOK(claim) /\ status \in [Runs -> {"NONE", "DRAFT", "POSTED", "PAID"}]
      /\ entry \in [Runs -> [Employees -> EntryRow]]
      /\ book \in [Runs -> [Keys -> SUBSET {"entry", "reversal"}]]
      /\ stray \subseteq [run : Runs, nth : Nat, amount : Nat] /\ breaks \in [Runs -> Nat]
      /\ "accrual" \in Keys /\ "payment" \in Keys
  BY DEF IInv, TypeOK, EntryRow, Keys
<1>1. status[r] \in {"DRAFT", "POSTED"} /\ Rows(entry[r])
  BY RowsOf DEF BreakOffPay, Editable
<1>2. Rows(es) /\ Total(es) \in Nat
  BY <1>0, <1>1, ReconciledFits
<1>3. /\ Total(es) > 0
      /\ entry' = [entry EXCEPT ![r] = es]
      /\ stray' = stray \cup {x}
      /\ book' = [book EXCEPT ![r]["accrual"] = Posted(book[r]["accrual"], Total(entry[r]))]
      /\ status' = [status EXCEPT ![r] = "POSTED"]
      /\ breaks' = [breaks EXCEPT ![r] = breaks[r] + 1]
      /\ UNCHANGED <<claim, byHand, took, expense>>
  BY DEF BreakOffPay
<1>4. x \in [run : Runs, nth : Nat, amount : Nat] /\ x.run = r /\ x.nth = breaks[r] /\ x.amount > 0
  BY <1>0, <1>2, <1>3
<1> HIDE DEF es, x
<1>5. /\ entry' \in [Runs -> [Employees -> EntryRow]]
      /\ \A q \in Runs \ {r} : entry'[q] = entry[q]
  BY <1>0, <1>2, <1>3 DEF Rows
<1>6. Posted(book[r]["accrual"], Total(entry[r])) \in SUBSET {"entry", "reversal"}
  BY <1>0 DEF Posted
<1>7. book' \in [Runs -> [Keys -> SUBSET {"entry", "reversal"}]]
      /\ \A q \in Runs : book'[q]["payment"] = book[q]["payment"]
  BY <1>0, <1>3, <1>6
<1>8. /\ stray' \subseteq [run : Runs, nth : Nat, amount : Nat] /\ breaks' \in [Runs -> Nat]
      /\ \A q \in Runs : breaks'[q] = breaks[q] + (IF q = r THEN 1 ELSE 0)
  BY <1>0, <1>3, <1>4
<1>9. TypeOK'
  BY <1>0, <1>3, <1>5, <1>7, <1>8 DEF TypeOK, EntryRow
<1>10. ClaimsOK(claim)'
  BY <1>0, <1>3 DEF ClaimsOK
<1>11. WithheldIsRepaid' /\ PaymentIsInLedger'
  BY <1>0, <1>1, <1>3, <1>5, <1>7 DEF IInv, WithheldIsRepaid, PaymentIsInLedger
<1>12. \A q \in Runs : expense'[q] # 0 => status'[q] = "PAID" /\ expense'[q] = Total(entry'[q])
  BY <1>0, <1>1, <1>3, <1>5 DEF IInv, PaidOnce
<1>13. StrayIsBroken'
  <2>1. /\ \A y \in stray : y.amount > 0 /\ y.nth < breaks[y.run] /\ y.run \in Runs /\ y.nth \in Nat
        /\ \A y, z \in stray : (y.run = z.run /\ y.nth = z.nth) => y = z
    BY <1>0 DEF IInv, PaidOnce, StrayIsBroken
  <2>2. \A y \in stray' : y.amount > 0 /\ y.nth < breaks'[y.run]
    <3>1. \A y \in stray : y.nth < breaks'[y.run]
      BY <1>0, <1>8, <2>1
    <3>2. x.nth < breaks'[x.run]
      BY <1>0, <1>4, <1>8
    <3> QED
      BY <1>3, <1>4, <2>1, <3>1, <3>2
  <2>3. \A y \in stray : ~(y.run = x.run /\ y.nth = x.nth)
    BY <1>0, <1>4, <2>1
  <2>4. \A y, z \in stray' : (y.run = z.run /\ y.nth = z.nth) => y = z
    BY <1>3, <2>1, <2>3
  <2> QED
    BY <2>2, <2>4 DEF StrayIsBroken
<1> QED
  BY <1>9, <1>10, <1>11, <1>12, <1>13 DEF IInv, PaidOnce

(* Reopening: what was taken is given back.                                       *)
LEMMA ReopenKeeps ==
  ASSUME IInv, NEW r \in Runs, ReopenRun(r)
  PROVE  IInv'
<1> DEFINE cs == [c \in Claims |-> Restored(claim[c], took[r][claim[c].of][c])]
           es == Reconciled(cs, entry[r])
<1>0. /\ TypeOK /\ ClaimsOK(claim) /\ status \in [Runs -> {"NONE", "DRAFT", "POSTED", "PAID"}]
      /\ entry \in [Runs -> [Employees -> EntryRow]]
      /\ book \in [Runs -> [Keys -> SUBSET {"entry", "reversal"}]]
      /\ took \in [Runs -> [Employees -> [Claims -> 0 .. MaxAmount]]]
      /\ \A c \in Claims : ClaimOK(claim[c]) /\ claim[c].of \in Employees
  BY DEF IInv, TypeOK, EntryRow, ClaimsOK, ClaimRow
<1>1. /\ status[r] = "PAID" /\ status' = [status EXCEPT ![r] = "DRAFT"]
      /\ claim' = cs /\ entry' = [entry EXCEPT ![r] = es]
      /\ took' = [took EXCEPT ![r] = NothingTaken]
      /\ expense' = [expense EXCEPT ![r] = 0]
      /\ book' = [book EXCEPT ![r] = [k \in Keys |-> Reversed(book[r][k])]]
      /\ byHand' = byHand /\ UNCHANGED treasury
  BY DEF ReopenRun
<1>2. ASSUME NEW c \in Claims PROVE ClaimOK(cs[c])
  <2>1. took[r][claim[c].of][c] \in Nat
    BY <1>0, PayrollAssumption
  <2> QED
    BY <1>0, <2>1, RestoredKeeps
<1>3. ClaimsOK(cs) /\ cs \in [Claims -> ClaimRow]
  BY <1>2 DEF ClaimsOK, ClaimOK
<1> HIDE DEF cs
<1>4. Rows(es)
  BY <1>1, <1>3, RowsOf, ReconciledFits
<1> HIDE DEF es
<1>5. ClaimsOK(claim)'
  BY <1>1, <1>3
<1>6. /\ entry' \in [Runs -> [Employees -> EntryRow]]
      /\ entry'[r] = es /\ \A q \in Runs \ {r} : entry'[q] = entry[q]
  BY <1>0, <1>1, <1>4 DEF Rows
<1>7. /\ took' \in [Runs -> [Employees -> [Claims -> 0 .. MaxAmount]]]
      /\ \A q \in Runs \ {r} : took'[q] = took[q]
  <2>1. NothingTaken \in [Employees -> [Claims -> 0 .. MaxAmount]]
    BY PayrollAssumption DEF NothingTaken
  <2> QED
    BY <1>0, <1>1, <2>1
<1>8. /\ book' \in [Runs -> [Keys -> SUBSET {"entry", "reversal"}]]
      /\ \A q \in Runs \ {r} : book'[q] = book[q]
  <2>1. \A k \in Keys : Reversed(book[r][k]) \in SUBSET {"entry", "reversal"}
    BY <1>0 DEF Reversed
  <2> DEFINE b == [k \in Keys |-> Reversed(book[r][k])]
  <2>2. b \in [Keys -> SUBSET {"entry", "reversal"}]
    BY <2>1
  <2>3. book' = [book EXCEPT ![r] = b]
    BY <1>1
  <2> HIDE DEF b
  <2> QED
    BY <1>0, <2>2, <2>3
<1>9. TypeOK'
  <2>1. expense' \in [Runs -> Nat] /\ byHand' \in [Claims -> Nat]
    BY <1>0, <1>1 DEF TypeOK
  <2>2. status' \in [Runs -> {"NONE", "DRAFT", "POSTED", "PAID"}]
    BY <1>0, <1>1
  <2>3. stray' \subseteq [run : Runs, nth : Nat, amount : Nat] /\ breaks' \in [Runs -> Nat]
    BY <1>0, <1>1 DEF TypeOK, treasury
  <2> QED
    BY <1>1, <1>3, <1>6, <1>7, <1>8, <2>1, <2>2, <2>3 DEF TypeOK, ClaimRow, EntryRow
<1>10. WithheldIsRepaid'
  BY <1>0, <1>1, <1>6, <1>7 DEF IInv, WithheldIsRepaid
<1>11. PaidOnce'
  BY <1>0, <1>1, <1>6 DEF IInv, TypeOK, PaidOnce, StrayIsBroken, treasury
<1>12. PaymentIsInLedger'
  BY <1>0, <1>1, <1>8 DEF IInv, PaymentIsInLedger
<1> QED
  BY <1>5, <1>9, <1>10, <1>11, <1>12 DEF IInv

-----------------------------------------------------------------------------
LEMMA InitIInv == Init => IInv
<1> SUFFICES ASSUME Init PROVE IInv
  OBVIOUS
<1>1. ClaimOK(NoClaim)
  BY PayrollAssumption DEF ClaimOK, ClaimRow, ClaimStatus, NoClaim
<1>2. NothingTaken \in [Employees -> [Claims -> 0 .. MaxAmount]]
  BY PayrollAssumption DEF NothingTaken
<1>3. ClaimsOK(claim) /\ claim \in [Claims -> ClaimRow]
  BY <1>1 DEF Init, ClaimsOK, ClaimOK
<1>4. TypeOK
  BY <1>2, <1>3 DEF Init, TypeOK, ClaimRow, NoEntry
<1> QED
  BY <1>3, <1>4 DEF Init, IInv, WithheldIsRepaid, PaidOnce, StrayIsBroken, treasury, PaymentIsInLedger

LEMMA StepIInv == IInv /\ [Next]_vars => IInv'
<1> SUFFICES ASSUME IInv, [Next]_vars PROVE IInv'
  OBVIOUS
<1>1. CASE ClaimStep
  BY <1>1, ClaimsKeep
<1>2. ASSUME NEW r \in Runs, RunStep(r) PROVE IInv'
  BY <1>2, DraftsKeep, SmallStepsKeep, PayKeeps, BreakOffKeeps, ReopenKeeps DEF RunStep
<1>4. ASSUME NEW x \in stray, DeleteStray(x) PROVE IInv'
  BY <1>4 DEF DeleteStray, IInv, TypeOK, ClaimsOK, WithheldIsRepaid, PaidOnce, StrayIsBroken,
              PaymentIsInLedger
<1>3. CASE UNCHANGED vars
  BY <1>3 DEF vars, IInv, TypeOK, ClaimsOK, WithheldIsRepaid, PaidOnce, StrayIsBroken, treasury, PaymentIsInLedger
<1> QED
  BY <1>1, <1>2, <1>3, <1>4 DEF Next

LEMMA PayrollInvariant == Spec => []IInv
BY InitIInv, StepIInv, PTL DEF Spec

-----------------------------------------------------------------------------
(* What is repaid is what the rows say.  For the sums to be told apart, a run     *)
(* takes of an advance or deduction for whom it was given to only, and nothing    *)
(* unless it is paid.                                                             *)
TakenOfOwner ==
  \A r \in Runs, e \in Employees, c \in Claims :
    took[r][e][c] > 0 => claim[c].st # "NONE" /\ claim[c].of = e /\ status[r] = "PAID"

(* What all runs took of an advance or deduction for an employee, by their rows tk. *)
TookAll(tk, c, e) == SumFunctionOnSet([r \in Runs |-> tk[r][e][c]], Runs)

RInv == TakenOfOwner /\ RepaidIsRecorded

LEMMA TookAllOf ==
  ASSUME IInv, NEW c \in Claims, NEW e \in Employees
  PROVE  /\ TookAll(took, c, e) \in Nat
         /\ \A r \in Runs : took[r][e][c] \in Nat /\ took[r][e][c] <= TookAll(took, c, e)
         /\ (\A r \in Runs : took[r][e][c] = 0) => TookAll(took, c, e) = 0
<1> DEFINE f == [r \in Runs |-> took[r][e][c]]
<1>1. \A r \in Runs : took[r][e][c] \in Nat
  BY PayrollAssumption DEF IInv, TypeOK
<1>2. \A r \in Runs : f[r] = took[r][e][c] /\ f[r] \in Nat
  BY <1>1
<1> HIDE DEF f
<1>3. SumFunctionOnSet(f, Runs) \in Nat
  BY <1>2, SumNat, PayrollAssumption
<1>4. \A r \in Runs : f[r] <= SumFunctionOnSet(f, Runs)
  BY <1>2, SumHolds, PayrollAssumption
<1>5. (\A r \in Runs : f[r] = 0) => SumFunctionOnSet(f, Runs) = 0
  BY SumZero, PayrollAssumption
<1> QED
  BY <1>1, <1>2, <1>3, <1>4, <1>5 DEF TookAll, f

(* One run takes something else: the sum changes by as much.                      *)
LEMMA TookAllChanges ==
  ASSUME IInv, IInv', NEW c \in Claims, NEW e \in Employees, NEW r \in Runs,
         \A q \in Runs \ {r} : took'[q] = took[q]
  PROVE  TookAll(took', c, e) = TookAll(took, c, e) - took[r][e][c] + took'[r][e][c]
<1> DEFINE f == [q \in Runs |-> took[q][e][c]]
           g == [q \in Runs |-> took'[q][e][c]]
<1>1. f \in [Runs -> Int] /\ g \in [Runs -> Int]
  BY PayrollAssumption DEF IInv, TypeOK
<1>2. /\ \A q \in Runs \ {r} : g[q] = f[q]
      /\ f[r] = took[r][e][c] /\ g[r] = took'[r][e][c]
  OBVIOUS
<1>3. IsFiniteSet(Runs)
  BY PayrollAssumption
<1> HIDE DEF f, g
<1>4. SumFunctionOnSet(g, Runs) = SumFunctionOnSet(f, Runs) - f[r] + g[r]
  BY <1>1, <1>2, <1>3, SumAt
<1> QED
  BY <1>2, <1>4 DEF TookAll, f, g

LEMMA OwnerIsEmployee ==
  ASSUME IInv
  PROVE  \A c \in Claims : /\ claim[c].of \in Employees /\ byHand[c] \in Nat
                           /\ claim[c].repaid \in Nat /\ claim[c].amount \in Nat
  BY DEF IInv, TypeOK

(* Steps of the administrator on one advance or deduction.                        *)
LEMMA ClaimRecords ==
  ASSUME IInv, IInv', RInv, NEW c \in Claims,
         \A d \in Claims \ {c} : claim'[d] = claim[d] /\ byHand'[d] = byHand[d],
         UNCHANGED <<took, status>>,
         \A r \in Runs, e \in Employees :
           took[r][e][c] > 0 => claim'[c].st # "NONE" /\ claim'[c].of = e,
         claim'[c].st # "NONE" => claim'[c].repaid = byHand'[c] + TookAll(took, c, claim'[c].of)
  PROVE  RInv'
<1>1. TakenOfOwner'
  BY DEF RInv, TakenOfOwner
<1>2. RepaidIsRecorded'
  <2> SUFFICES ASSUME NEW d \in Claims, claim'[d].st # "NONE"
               PROVE  claim'[d].repaid = byHand'[d] + TookAll(took, d, claim'[d].of)
    BY DEF RepaidIsRecorded, TookAll
  <2>1. CASE d = c
    BY <2>1
  <2>2. CASE d # c
    BY <2>2 DEF RInv, RepaidIsRecorded, TookAll
  <2> QED
    BY <2>1, <2>2
<1> QED
  BY <1>1, <1>2 DEF RInv

LEMMA ClaimsRecord == ASSUME IInv, IInv', RInv, ClaimStep PROVE RInv'
<1>0. \A c \in Claims : claim[c] \in ClaimRow /\ claim \in [Claims -> ClaimRow]
                        /\ byHand \in [Claims -> Nat] /\ byHand[c] \in Nat
  BY DEF IInv, TypeOK, ClaimRow
<1>1. ASSUME NEW c \in Claims, NEW e \in Borrowers, NEW a \in Amounts, Grant(c, e, a) PROVE RInv'
  <2>1. \A r \in Runs, x \in Employees : took[r][x][c] = 0
    <3>1. \A r \in Runs, x \in Employees : ~(took[r][x][c] > 0)
      BY <1>1 DEF Grant, RInv, TakenOfOwner
    <3>2. \A r \in Runs, x \in Employees : took[r][x][c] \in Nat
      BY TookAllOf
    <3> QED
      BY <3>1, <3>2
  <2>2. e \in Employees
    BY PayrollAssumption
  <2>3. TookAll(took, c, e) = 0
    BY <2>1, <2>2, TookAllOf
  <2>4. /\ claim'[c] = [st |-> "OUTSTANDING", of |-> e, amount |-> a, repaid |-> 0]
        /\ byHand'[c] = 0 /\ UNCHANGED <<took, status>>
        /\ \A d \in Claims \ {c} : claim'[d] = claim[d] /\ byHand'[d] = byHand[d]
    BY <1>0, <1>1 DEF Grant, payroll
  <2> QED
    BY <2>1, <2>3, <2>4, ClaimRecords
<1>2. ASSUME NEW c \in Advances, NEW a \in 1 .. MaxAmount, RepayByHand(c, a) PROVE RInv'
  <2> DEFINE x == Least(a, Left(claim, c))
  <2>1. c \in Claims
    BY DEF Claims
  <2>2. x \in Int /\ claim[c].st # "NONE"
    BY <1>0, <1>2, <2>1, PayrollAssumption DEF RepayByHand, ClaimRow, Least, Left
  <2>3. /\ claim' = [claim EXCEPT ![c] = Repaid(claim[c], x)]
        /\ byHand' = [byHand EXCEPT ![c] = byHand[c] + x]
        /\ UNCHANGED <<took, status>>
    BY <1>2 DEF RepayByHand, payroll
  <2> HIDE DEF x
  <2>4. /\ claim'[c] = Repaid(claim[c], x) /\ byHand'[c] = byHand[c] + x
        /\ \A d \in Claims \ {c} : claim'[d] = claim[d] /\ byHand'[d] = byHand[d]
    BY <1>0, <2>1, <2>3
  <2>5. /\ claim'[c].of = claim[c].of /\ claim'[c].st # "NONE"
        /\ claim'[c].repaid = claim[c].repaid + x
    BY <1>0, <2>1, <2>2, <2>4 DEF Repaid, ClaimRow
  <2>6. claim[c].repaid = byHand[c] + TookAll(took, c, claim[c].of)
    BY <2>1, <2>2 DEF RInv, RepaidIsRecorded, TookAll
  <2>7. claim'[c].repaid = byHand'[c] + TookAll(took, c, claim'[c].of)
    BY <1>0, <2>1, <2>2, <2>4, <2>5, <2>6, TookAllOf, OwnerIsEmployee
  <2>8. \A r \in Runs, e \in Employees :
          took[r][e][c] > 0 => claim'[c].st # "NONE" /\ claim'[c].of = e
    BY <2>1, <2>5 DEF RInv, TakenOfOwner
  <2> QED
    BY <2>1, <2>3, <2>4, <2>7, <2>8, ClaimRecords
<1>3. ASSUME NEW c \in Advances, Waive(c) PROVE RInv'
  <2>1. c \in Claims /\ claim[c].st # "NONE"
    BY <1>3 DEF Waive, Claims
  <2>2. /\ claim' = [claim EXCEPT ![c].st = "CANCELLED"] /\ byHand' = byHand
        /\ UNCHANGED <<took, status>>
    BY <1>3 DEF Waive, payroll
  <2>3. /\ claim'[c].of = claim[c].of /\ claim'[c].st # "NONE"
        /\ claim'[c].repaid = claim[c].repaid
        /\ \A d \in Claims \ {c} : claim'[d] = claim[d]
    BY <1>0, <2>1, <2>2 DEF ClaimRow
  <2>4. claim[c].repaid = byHand[c] + TookAll(took, c, claim[c].of)
    BY <2>1 DEF RInv, RepaidIsRecorded, TookAll
  <2>5. \A r \in Runs, e \in Employees :
          took[r][e][c] > 0 => claim'[c].st # "NONE" /\ claim'[c].of = e
    BY <2>1, <2>3 DEF RInv, TakenOfOwner
  <2> QED
    BY <2>1, <2>2, <2>3, <2>4, <2>5, ClaimRecords
<1>4. ASSUME NEW c \in Advances, DeleteAdvance(c) PROVE RInv'
  <2>1. c \in Claims /\ claim[c].st # "NONE" /\ claim[c].repaid = 0
    BY <1>4 DEF DeleteAdvance, Claims
  <2>2. /\ claim' = [claim EXCEPT ![c] = NoClaim] /\ byHand' = byHand
        /\ UNCHANGED <<took, status>>
    BY <1>4 DEF DeleteAdvance, payroll
  <2>3. TookAll(took, c, claim[c].of) = 0
    <3>1. claim[c].repaid = byHand[c] + TookAll(took, c, claim[c].of)
      BY <2>1 DEF RInv, RepaidIsRecorded, TookAll
    <3>2. TookAll(took, c, claim[c].of) \in Nat /\ byHand[c] \in Nat
      BY <2>1, TookAllOf, OwnerIsEmployee
    <3> QED
      BY <2>1, <3>1, <3>2
  <2>4. \A r \in Runs, e \in Employees : ~(took[r][e][c] > 0)
    <3> SUFFICES ASSUME NEW r \in Runs, NEW e \in Employees, took[r][e][c] > 0 PROVE FALSE
      OBVIOUS
    <3>1. claim[c].of = e
      BY <2>1 DEF RInv, TakenOfOwner
    <3>2. took[r][e][c] \in Nat /\ took[r][e][c] <= TookAll(took, c, e)
      BY <2>1, TookAllOf
    <3> QED
      BY <2>3, <3>1, <3>2
  <2>5. /\ claim'[c] = NoClaim /\ NoClaim.st = "NONE"
        /\ \A d \in Claims \ {c} : claim'[d] = claim[d]
    BY <1>0, <2>1, <2>2 DEF NoClaim
  <2> QED
    BY <2>1, <2>2, <2>4, <2>5, ClaimRecords
<1> QED
  BY <1>1, <1>2, <1>3, <1>4 DEF ClaimStep

(* Steps of a run that take and give back nothing.                                *)
LEMMA SameRecords ==
  ASSUME RInv, UNCHANGED <<claim, byHand, took>>,
         \A q \in Runs : status[q] = "PAID" => status'[q] = "PAID"
  PROVE  RInv'
  BY DEF RInv, TakenOfOwner, RepaidIsRecorded

LEMMA DraftsRecord ==
  ASSUME IInv, RInv, NEW r \in Runs,
         \/ \E gross \in [Employees -> Pay] : CreateRun(r, gross)
         \/ \E e \in Employees, gross \in Pay, a, d \in Edits : EditEntry(r, e, gross, a, d)
         \/ ViewRun(r) \/ SyncRun(r) \/ PostRun(r) \/ DeleteRun(r) \/ DeleteExpense(r)
         \/ BreakOffPay(r)
  PROVE  RInv'
<1>1. UNCHANGED <<claim, byHand, took>>
  BY DEF CreateRun, EditEntry, ViewRun, SyncRun, PostRun, DeleteRun, DeleteExpense, BreakOffPay
<1>2. /\ status[r] = "PAID" => UNCHANGED status
      /\ \A q \in Runs \ {r} : status'[q] = status[q]
  BY DEF CreateRun, EditEntry, ViewRun, SyncRun, PostRun, DeleteRun, DeleteExpense, BreakOffPay, Editable,
         IInv, TypeOK
<1>3. \A q \in Runs : status[q] = "PAID" => status'[q] = "PAID"
  BY <1>2
<1> QED
  BY <1>1, <1>3, SameRecords

(* Paying.                                                                        *)
LEMMA PayRecords ==
  ASSUME IInv, IInv', RInv, NEW r \in Runs, PayRun(r)
  PROVE  RInv'
<1> DEFINE es == Reconciled(claim, entry[r])
<1>1. PICK t \in [Claims -> 0 .. MaxAmount] :
        /\ \A e \in Employees :
             /\ OldestFirst(claim, e, Advances, es[e].advances, TakenOf(claim, e, t))
             /\ OldestFirst(claim, e, Deductions, es[e].deductions, TakenOf(claim, e, t))
        /\ took' = [took EXCEPT ![r] = [e \in Employees |-> TakenOf(claim, e, t)]]
        /\ claim' = [c \in Claims |-> Repaid(claim[c], t[c])]
  BY DEF PayRun
<1> HIDE DEF es
<1>2. /\ status[r] # "PAID" /\ status' = [status EXCEPT ![r] = "PAID"] /\ byHand' = byHand
  BY DEF PayRun, Editable
<1>3. /\ \A q \in Runs \ {r} : took'[q] = took[q] /\ status'[q] = status[q]
      /\ \A e \in Employees : took'[r][e] = TakenOf(claim, e, t)
      /\ status'[r] = "PAID"
  BY <1>1, <1>2 DEF IInv, TypeOK
<1>4. ASSUME NEW c \in Claims
      PROVE  /\ t[c] \in Nat /\ (t[c] > 0 => claim[c].st # "NONE")
             /\ claim'[c].of = claim[c].of
             /\ claim'[c].repaid = claim[c].repaid + t[c]
             /\ claim'[c].st = "NONE" <=> claim[c].st = "NONE"
  <2>1. t[c] \in Nat /\ claim[c] \in ClaimRow /\ claim[c].of \in Employees
    BY <1>1, PayrollAssumption DEF IInv, TypeOK, ClaimRow
  <2>2. TakenOf(claim, claim[c].of, t)[c] = t[c]
    BY DEF TakenOf
  <2>3. t[c] > 0 => claim[c].st # "NONE"
    BY <1>1, <2>1, <2>2 DEF OldestFirst, Due, Claims
  <2>4. claim'[c] = Repaid(claim[c], t[c])
    BY <1>1
  <2>5. CASE t[c] = 0
    BY <2>1, <2>4, <2>5 DEF Repaid, ClaimRow
  <2>6. CASE t[c] > 0
    BY <2>1, <2>3, <2>4, <2>6 DEF Repaid, ClaimRow
  <2> QED
    BY <2>1, <2>3, <2>5, <2>6
<1>5. \A e \in Employees, c \in Claims :
        took'[r][e][c] = IF claim[c].of = e THEN t[c] ELSE 0
  BY <1>3 DEF TakenOf
<1>6. \A e \in Employees, c \in Claims : took[r][e][c] = 0
  <2>1. \A e \in Employees, c \in Claims : ~(took[r][e][c] > 0)
    BY <1>2 DEF RInv, TakenOfOwner
  <2>2. \A e \in Employees, c \in Claims : took[r][e][c] \in Nat
    BY TookAllOf
  <2> QED
    BY <2>1, <2>2
<1>7. TakenOfOwner'
  <2> SUFFICES ASSUME NEW q \in Runs, NEW e \in Employees, NEW c \in Claims, took'[q][e][c] > 0
               PROVE  claim'[c].st # "NONE" /\ claim'[c].of = e /\ status'[q] = "PAID"
    BY DEF TakenOfOwner
  <2>1. CASE q = r
    <3>1. claim[c].of = e /\ t[c] > 0
      BY <1>5, <2>1
    <3> QED
      BY <1>3, <1>4, <2>1, <3>1
  <2>2. CASE q # r
    <3>1. claim[c].st # "NONE" /\ claim[c].of = e /\ status[q] = "PAID"
      BY <1>3, <2>2 DEF RInv, TakenOfOwner
    <3> QED
      BY <1>3, <1>4, <2>2, <3>1
  <2> QED
    BY <2>1, <2>2
<1>8. RepaidIsRecorded'
  <2> SUFFICES ASSUME NEW c \in Claims, claim'[c].st # "NONE"
               PROVE  claim'[c].repaid = byHand'[c] + TookAll(took', c, claim'[c].of)
    BY DEF RepaidIsRecorded, TookAll
  <2> DEFINE e == claim[c].of
  <2>1. e \in Employees /\ byHand[c] \in Nat /\ claim'[c].of = e
    BY <1>4, OwnerIsEmployee
  <2>2. claim[c].repaid = byHand[c] + TookAll(took, c, e)
    BY <1>4 DEF RInv, RepaidIsRecorded, TookAll
  <2>3. took'[r][e][c] = t[c] /\ took[r][e][c] = 0
    BY <1>5, <1>6, <2>1
  <2> HIDE DEF e
  <2>4. TookAll(took', c, e) = TookAll(took, c, e) - 0 + t[c] /\ TookAll(took, c, e) \in Nat
    BY <1>3, <2>1, <2>3, TookAllChanges, TookAllOf
  <2> QED
    BY <1>2, <1>4, <2>1, <2>2, <2>4
<1> QED
  BY <1>7, <1>8 DEF RInv

(* Reopening.                                                                     *)
LEMMA ReopenRecords ==
  ASSUME IInv, IInv', RInv, NEW r \in Runs, ReopenRun(r)
  PROVE  RInv'
<1>1. /\ status' = [status EXCEPT ![r] = "DRAFT"] /\ byHand' = byHand
      /\ claim' = [c \in Claims |-> Restored(claim[c], took[r][claim[c].of][c])]
      /\ took' = [took EXCEPT ![r] = NothingTaken]
  BY DEF ReopenRun
<1>2. /\ \A q \in Runs \ {r} : took'[q] = took[q] /\ status'[q] = status[q]
      /\ \A e \in Employees, c \in Claims : took'[r][e][c] = 0
  BY <1>1 DEF IInv, TypeOK, NothingTaken
<1>3. ASSUME NEW c \in Claims
      PROVE  LET e == claim[c].of
             IN  /\ claim'[c].of = e
                 /\ claim'[c].st = "NONE" <=> claim[c].st = "NONE"
                 /\ claim[c].st # "NONE" =>
                      claim'[c].repaid = byHand'[c] + TookAll(took', c, e)
  <2> DEFINE e == claim[c].of
             x == took[r][e][c]
  <2>1. /\ e \in Employees /\ byHand[c] \in Nat /\ claim[c] \in ClaimRow /\ claim[c].repaid \in Nat
        /\ claim'[c] = Restored(claim[c], x)
    BY <1>1, OwnerIsEmployee DEF IInv, TypeOK, ClaimRow
  <2>2. /\ x \in Nat /\ x <= TookAll(took, c, e) /\ TookAll(took, c, e) \in Nat
        /\ x > 0 => claim[c].st # "NONE"
    BY <2>1, TookAllOf DEF RInv, TakenOfOwner
  <2>3. TookAll(took', c, e) = TookAll(took, c, e) - x
    <3>1. TookAll(took', c, e) = TookAll(took, c, e) - x + took'[r][e][c]
      BY <1>2, <2>1, TookAllChanges
    <3>2. took'[r][e][c] = 0
      BY <1>2, <2>1
    <3> QED
      BY <2>2, <3>1, <3>2
  <2>4. claim[c].st # "NONE" => claim[c].repaid = byHand[c] + TookAll(took, c, e)
    BY DEF RInv, RepaidIsRecorded, TookAll
  <2> HIDE DEF e, x
  <2>5. CASE x = 0
    <3>1. claim'[c] = claim[c]
      BY <2>1, <2>5 DEF Restored
    <3>2. TookAll(took', c, e) = TookAll(took, c, e)
      BY <2>2, <2>3, <2>5
    <3> QED
      BY <1>1, <2>4, <3>1, <3>2 DEF e
  <2>6. CASE x > 0
    <3>1. claim[c].st # "NONE" /\ claim[c].repaid = byHand[c] + TookAll(took, c, e)
      BY <2>2, <2>4, <2>6
    <3>2. Most(0, claim[c].repaid - x) = claim[c].repaid - x
      BY <2>1, <2>2, <3>1 DEF Most
    <3>3. /\ claim'[c].of = claim[c].of /\ claim'[c].st # "NONE"
          /\ claim'[c].repaid = claim[c].repaid - x
      BY <2>1, <2>6, <3>2 DEF Restored, ClaimRow
    <3>4. claim'[c].repaid = byHand[c] + TookAll(took', c, e)
      BY <2>1, <2>2, <2>3, <3>1, <3>3
    <3> QED
      BY <1>1, <3>1, <3>3, <3>4 DEF e
  <2>7. x = 0 \/ x > 0
    BY <2>2
  <2> QED
    BY <2>5, <2>6, <2>7
<1>4. TakenOfOwner'
  <2> SUFFICES ASSUME NEW q \in Runs, NEW e \in Employees, NEW c \in Claims, took'[q][e][c] > 0
               PROVE  claim'[c].st # "NONE" /\ claim'[c].of = e /\ status'[q] = "PAID"
    BY DEF TakenOfOwner
  <2>1. q # r
    BY <1>2
  <2>2. claim[c].st # "NONE" /\ claim[c].of = e /\ status[q] = "PAID"
    BY <1>2, <2>1 DEF RInv, TakenOfOwner
  <2> QED
    BY <1>2, <1>3, <2>1, <2>2
<1>5. RepaidIsRecorded'
  <2> SUFFICES ASSUME NEW c \in Claims, claim'[c].st # "NONE"
               PROVE  claim'[c].repaid = byHand'[c] + TookAll(took', c, claim'[c].of)
    BY DEF RepaidIsRecorded, TookAll
  <2>1. claim'[c].of = claim[c].of /\ claim[c].st # "NONE"
    BY <1>3
  <2> QED
    BY <1>3, <2>1
<1> QED
  BY <1>4, <1>5 DEF RInv

LEMMA InitRInv == Init => RInv
<1> SUFFICES ASSUME Init PROVE RInv
  OBVIOUS
<1>1. \A c \in Claims : claim[c].st = "NONE"
  BY DEF Init, NoClaim
<1>2. \A r \in Runs, e \in Employees, c \in Claims : took[r][e][c] = 0
  BY DEF Init, NothingTaken
<1> QED
  BY <1>1, <1>2 DEF RInv, TakenOfOwner, RepaidIsRecorded

LEMMA StepRInv == IInv /\ IInv' /\ RInv /\ [Next]_vars => RInv'
<1> SUFFICES ASSUME IInv, IInv', RInv, [Next]_vars PROVE RInv'
  OBVIOUS
<1>1. CASE ClaimStep
  BY <1>1, ClaimsRecord
<1>2. ASSUME NEW r \in Runs, RunStep(r) PROVE RInv'
  BY <1>2, DraftsRecord, PayRecords, ReopenRecords DEF RunStep
<1>4. ASSUME NEW x \in stray, DeleteStray(x) PROVE RInv'
  BY <1>4, SameRecords DEF DeleteStray
<1>3. CASE UNCHANGED vars
  BY <1>3, SameRecords DEF vars
<1> QED
  BY <1>1, <1>2, <1>3, <1>4 DEF Next

-----------------------------------------------------------------------------
(* Every claim, run, entry and ledger entry has its type.                         *)
THEOREM PayrollTyped == Spec => []TypeOK
<1>1. IInv => TypeOK
  BY DEF IInv
<1> QED
  BY <1>1, PayrollInvariant, PTL

(* No advance or deduction is repaid beyond its amount, and its status says how   *)
(* much of it was, through runs, reopening and repayments by hand.                *)
THEOREM PayrollRepaid == Spec => []RepaidAsStatusSays
<1>1. IInv => RepaidAsStatusSays
  BY DEF IInv, ClaimsOK, ClaimOK, RepaidAsStatusSays
<1> QED
  BY <1>1, PayrollInvariant, PTL

(* What counts as repaid of an advance or deduction is what was entered by hand   *)
(* and what every paid run took, however often a run is paid and reopened.        *)
THEOREM PayrollRecorded == Spec => []RepaidIsRecorded
<1>1. RInv => RepaidIsRecorded
  BY DEF RInv
<1> QED
  BY <1>1, PayrollInvariant, InitRInv, StepRInv, PTL DEF Spec

(* What a paid run withheld was repaid by it.                                     *)
THEOREM PayrollWithheld == Spec => []WithheldIsRepaid
<1>1. IInv => WithheldIsRepaid
  BY DEF IInv
<1> QED
  BY <1>1, PayrollInvariant, PTL

(* The treasury pays a run once, and what its entries come to.                    *)
THEOREM PayrollPaidOnce == Spec => []PaidOnce
<1>1. IInv => PaidOnce
  BY DEF IInv
<1> QED
  BY <1>1, PayrollInvariant, PTL

(* A paid run has a posted payment in the ledger.                                 *)
THEOREM PayrollInLedger == Spec => []PaymentIsInLedger
<1>1. IInv => PaymentIsInLedger
  BY DEF IInv
<1> QED
  BY <1>1, PayrollInvariant, PTL
=================================================================================
