SPECIFICATION Spec
CONSTANTS
  main = main
  branch = branch
  p1 = p1
  p2 = p2
  Warehouses = {main, branch}
  Main = main
  Transfers = {1}
  Products = {p1, p2}
  MaxQty = 2
  Managed = {branch}
  StockBound <- Filled
  Overdraft <- Owed
  MaxBroken = 1
INVARIANTS
  TypeOK
  LineAccounted
  StockConserved
  NeverOverdrawn
  CompletedWhenAnswered
PROPERTY ImplementsTransfers
