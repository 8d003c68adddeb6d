SPECIFICATION FairSpec
CONSTANTS
  a1 = a1
  p1 = p1
  p2 = p2
  r1 = r1
  Jobs = {1, 2}
  Printers = {r1}
  PrinterOf <- mc_PrinterOf
  Agents = {a1}
  Programs = {p1, p2}
  Token <- mc_Token
  Batch = 2
  MaxOrders <- mc_MaxOrders
  MaxTroubles = 1
INVARIANTS
  TypeOK
  OncePerOrder
  ClaimedIsHeld
PROPERTIES
  JobsSettle
  ImplementsService
CHECK_DEADLOCK FALSE
