SPECIFICATION RaceSpec
CONSTANTS
  amal = amal
  tea = tea
  w1 = w1
  w2 = w2
  Users = {amal}
  Shifts = {1}
  Sales = {1}
  Products = {tea}
  MaxQty = 1
  BankSales = {}
  SendBeforePay = FALSE
  Workers = {w1, w2}
SYMMETRY Symmetry
CHECK_DEADLOCK FALSE
INVARIANT SettledOnce
