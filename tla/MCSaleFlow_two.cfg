SPECIFICATION Spec
CONSTANTS
  amal = amal
  badr = badr
  tea = tea
  cake = cake
  Users = {amal, badr}
  Shifts = {1, 2}
  Sales = {1, 2}
  Products = {tea}
  MaxQty = 2
  BankSales = {1}
  SendBeforePay = FALSE
SYMMETRY Symmetry
CHECK_DEADLOCK FALSE
INVARIANTS
  TypeOK
  StockFollowsOrder
  SettledOnce
  ReportStaysTrue
  NothingStranded
PROPERTY ImplementsOrder
