CONSTANTS
  o1 = o1
  drinks = drinks
  grill = grill
  Sales = {o1}
  Sections = {drinks, grill}
  Defaults = {drinks, grill}
  General = grill
  Delivery = {}
  MustBeReady = {o1}
  SendBeforePay = TRUE
  MaxQty = 2
SPECIFICATION Spec
PROPERTY ServedWhenReady
