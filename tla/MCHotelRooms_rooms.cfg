SPECIFICATION HotelSpec
CONSTANTS
  r1 = r1
  r2 = r2
  Bookings = {1, 2}
  Rooms = {r1, r2}
  LastDay = 3
SYMMETRY Symmetry
CHECK_DEADLOCK FALSE
INVARIANTS
  HotelTypeOK
  StaysDisjoint
  NoGuestUnderMaintenance
  OccupiedIffLivedIn
