CONSTANTS
  o1 = o1
  drinks = drinks
  grill = grill
  Sales = {o1}
  Sections = {drinks, grill}
  Defaults = {drinks, grill}
  General = grill
  Delivery = {o1}
  MustBeReady = {}
  SendBeforePay = FALSE
  MaxQty = 2
SPECIFICATION FairSpec
INVARIANTS TypeOK WholeOrderInKitchen NothingPrintedTwice
PROPERTY SentReachesKitchen
