SPECIFICATION Spec
CONSTANTS
  shop = shop
  store = store
  p1 = p1
  p2 = p2
  None = None
  Purchases = {p1, p2}
  MaxLots = 3
  Places = {shop, store}
  SellingPlaces = {shop}
  Quantities = {1, 2}
  Costs = {1}
  MaxStock = 1
  MaxBreaks = 0
SYMMETRY Symmetry
PROPERTY LotsLeaveWithStock
CHECK_DEADLOCK FALSE
