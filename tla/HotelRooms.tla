------------------------------- MODULE HotelRooms -------------------------------
(* Bookings and rooms of the hotel (modules/hotel/booking_service.py and          *)
(* availability.py): dates, states, the room a booking has, and what             *)
(* housekeeping makes of the rooms.  A request is one transaction.               *)
(*                                                                               *)
(* Days are numbers.  A stay covers the nights from checkIn up to, not           *)
(* including, checkOut.  Every form asks for a room, so every booking has one.   *)
EXTENDS Integers

CONSTANTS
  Bookings,   \* ids of hotel_bookings, a positive number each
  Rooms,
  LastDay     \* bound: the last day of the calendar

ASSUME HotelAssumption ==
  /\ Bookings \subseteq Nat \ {0}
  /\ LastDay \in Nat

VARIABLES
  kind,       \* HotelBooking.record_kind, "NONE" for an id not given yet
  quote,      \* quotation_status
  state,      \* booking_status
  room,       \* room_id
  checkIn, checkOut,
  arrived,    \* the day a stay begins: that of the arrival, once there is one
  phys,       \* HotelRoom.physical_status; nothing sets the three others
  on,         \* HotelRoom.is_active
  displaced   \* history: guests whose room another booking's step made free

stay == <<room, checkIn, checkOut, arrived>>
rooms == <<phys, on>>
hvars == <<kind, quote, stay, state, rooms, displaced>>

Days == 0..LastDay
BookingStatus == {"PENDING", "CONFIRMED", "CHECKED_IN", "CHECKED_OUT", "CANCELLED", "NO_SHOW"}
PhysicalStatus == {"AVAILABLE", "OCCUPIED", "DIRTY", "MAINTENANCE"}

(* QUOTATION_NEXT_STATUSES, without CONVERTED. *)
NextQuotes == [
  DRAFT |-> {"SENT", "REJECTED"},
  SENT |-> {"UNDER_REVIEW", "ACCEPTED", "REJECTED", "EXPIRED"},
  UNDER_REVIEW |-> {"ACCEPTED", "REJECTED", "EXPIRED"},
  ACCEPTED |-> {}, REJECTED |-> {}, EXPIRED |-> {}, CONVERTED |-> {}]

-----------------------------------------------------------------------------
HotelInit ==
  /\ kind = [b \in Bookings |-> "NONE"]
  /\ quote = [b \in Bookings |-> "DRAFT"]
  /\ state = [b \in Bookings |-> "PENDING"]
  /\ room \in [Bookings -> Rooms]
  /\ checkIn = [b \in Bookings |-> 0]
  /\ checkOut = [b \in Bookings |-> 0]
  /\ arrived = [b \in Bookings |-> 0]
  /\ phys = [r \in Rooms |-> "AVAILABLE"]
  /\ on = [r \in Rooms |-> TRUE]
  /\ displaced = {}

Blocks(b) == state[b] \in {"CONFIRMED", "CHECKED_IN"}

ClearOfArrivals(b, r, first, last) ==                                \* mutant
  \A o \in Bookings \ {b} :
    (Blocks(o) /\ room[o] = r) => ~(checkIn[o] \in first .. last)

(* has_room_conflict, negated; another stay may end on the first day but not      *)
(* begin on the last.                                                            *)
Clear(b, r, first, last) ==
  \A o \in Bookings \ {b} :
    (Blocks(o) /\ room[o] = r) => ~(checkIn[o] <= last /\ checkOut[o] > first)

Ready(r) == phys[r] \notin {"MAINTENANCE", "DIRTY", "OCCUPIED"}

(* is_room_rentable *)
Rentable(r) == on[r] /\ Ready(r)

(* active_booking_for_room; any of them, if there are several. *)
GuestsOf(r) == {b \in Bookings : state[b] = "CHECKED_IN" /\ room[b] = r}

(* The other guests of the room that booking b has: b's own leaving it, moving or *)
(* not showing up makes the room free over them.                                 *)
Housemates(b) == GuestsOf(room[b]) \ {b}

IsBooking(b) == kind[b] = "BOOKING"

-----------------------------------------------------------------------------
(* Bookings and quotations. *)

(* create_booking, and confirm_booking when the form asks for it at once. *)
CreateBooking(b, r, first, last, confirmed) ==
  /\ kind[b] = "NONE"
  /\ first < last /\ Rentable(r) /\ Clear(b, r, first, last)
  /\ kind' = [kind EXCEPT ![b] = "BOOKING"]
  /\ state' = [state EXCEPT ![b] = IF confirmed THEN "CONFIRMED" ELSE "PENDING"]
  /\ room' = [room EXCEPT ![b] = r]
  /\ checkIn' = [checkIn EXCEPT ![b] = first]
  /\ checkOut' = [checkOut EXCEPT ![b] = last]
  /\ arrived' = [arrived EXCEPT ![b] = first]
  /\ UNCHANGED <<quote, rooms, displaced>>

(* A quotation takes any active room and looks for no conflict. *)
CreateQuotation(b, r, first, last) ==
  /\ kind[b] = "NONE"
  /\ first < last /\ on[r]
  /\ kind' = [kind EXCEPT ![b] = "QUOTATION"]
  /\ room' = [room EXCEPT ![b] = r]
  /\ checkIn' = [checkIn EXCEPT ![b] = first]
  /\ checkOut' = [checkOut EXCEPT ![b] = last]
  /\ arrived' = [arrived EXCEPT ![b] = first]
  /\ UNCHANGED <<quote, state, rooms, displaced>>

UpdateQuotation(b, q) ==
  /\ kind[b] = "QUOTATION" /\ q \in NextQuotes[quote[b]]
  /\ quote' = [quote EXCEPT ![b] = q]
  /\ UNCHANGED <<kind, stay, state, rooms, displaced>>

(* convert_quotation_to_booking; confirming it fails if it was cancelled. *)
ConvertQuotation(b, confirmed) ==
  /\ kind[b] = "QUOTATION" /\ quote[b] \in {"ACCEPTED", "UNDER_REVIEW", "SENT"}
  /\ Rentable(room[b]) /\ Clear(b, room[b], checkIn[b], checkOut[b])
  /\ confirmed => state[b] = "PENDING"
  /\ kind' = [kind EXCEPT ![b] = "BOOKING"]
  /\ quote' = [quote EXCEPT ![b] = "CONVERTED"]
  /\ state' = [state EXCEPT ![b] = IF confirmed THEN "CONFIRMED" ELSE @]
  /\ UNCHANGED <<stay, rooms, displaced>>

(* confirm_booking *)
Confirm(b) ==
  /\ IsBooking(b) /\ state[b] = "PENDING"
  /\ Clear(b, room[b], checkIn[b], checkOut[b])
  /\ state' = [state EXCEPT ![b] = "CONFIRMED"]
  /\ UNCHANGED <<kind, quote, stay, rooms, displaced>>

(* adjust_stay_dates: an earlier arrival, an earlier departure, or both. *)
AdjustStay(b, first, last) ==
  /\ IsBooking(b) /\ state[b] \in {"PENDING", "CONFIRMED"}
  /\ first < last /\ first <= checkIn[b] /\ last <= checkOut[b]
  /\ <<first, last>> # <<checkIn[b], checkOut[b]>>
  /\ Clear(b, room[b], first, last)
  /\ checkIn' = [checkIn EXCEPT ![b] = first]
  /\ checkOut' = [checkOut EXCEPT ![b] = last]
  /\ arrived' = [arrived EXCEPT ![b] = first]
  /\ UNCHANGED <<kind, quote, state, room, rooms, displaced>>

(* cancel_booking, of bookings and quotations; it frees a RESERVED room only,     *)
(* and no room is.                                                               *)
Cancel(b) ==
  /\ kind[b] # "NONE" /\ state[b] \notin {"CHECKED_OUT", "CANCELLED", "CHECKED_IN"}
  /\ state' = [state EXCEPT ![b] = "CANCELLED"]
  /\ UNCHANGED <<kind, quote, stay, rooms, displaced>>

(* mark_no_show *)
NoShow(b) ==
  /\ state[b] = "CONFIRMED"
  /\ state' = [state EXCEPT ![b] = "NO_SHOW"]
  /\ phys' = [phys EXCEPT ![room[b]] = "AVAILABLE"]
  /\ displaced' = displaced \cup Housemates(b)
  /\ UNCHANGED <<kind, quote, stay, on>>

-----------------------------------------------------------------------------
(* Guests. *)

(* check_in_booking, into any room; d: the day of the arrival, the planned one or *)
(* any the form gives.  The recorded check_in moves only to an earlier day.       *)
CheckIn(b, r, d) ==
  /\ IsBooking(b) /\ state[b] \in {"CONFIRMED", "PENDING"}
  /\ d < checkOut[b]
  /\ Clear(b, r, d, checkOut[b])
  /\ Rentable(r)
  /\ state' = [state EXCEPT ![b] = "CHECKED_IN"]
  /\ checkIn' = [checkIn EXCEPT ![b] = IF d < @ THEN d ELSE @]
  /\ arrived' = [arrived EXCEPT ![b] = d]
  /\ room' = [room EXCEPT ![b] = r]
  /\ phys' = [phys EXCEPT ![room[b]] = "AVAILABLE", ![r] = "OCCUPIED"]
  /\ displaced' = IF r = room[b] THEN displaced ELSE displaced \cup Housemates(b)
  /\ UNCHANGED <<kind, quote, checkOut, on>>

(* check_out_booking; d: the day of the departure, if it is an earlier one. *)
CheckOut(b, d) ==
  /\ state[b] = "CHECKED_IN"
  /\ d \in checkIn[b] + 1 .. checkOut[b]
  /\ state' = [state EXCEPT ![b] = "CHECKED_OUT"]
  /\ checkOut' = [checkOut EXCEPT ![b] = d]
  /\ phys' = [phys EXCEPT ![room[b]] = "DIRTY"]
  /\ displaced' = (displaced \ {b}) \cup Housemates(b)
  /\ UNCHANGED <<kind, quote, room, checkIn, arrived, on>>

(* extend_stay *)
ExtendStay(b, last) ==
  /\ Blocks(b) /\ last > checkOut[b]
  /\ Clear(b, room[b], checkIn[b], last)
  /\ checkOut' = [checkOut EXCEPT ![b] = last]
  /\ UNCHANGED <<kind, quote, state, room, checkIn, arrived, rooms, displaced>>

(* change_room: the state of the new room is not looked at. *)
ChangeRoom(b, r) ==
  /\ Blocks(b) /\ r # room[b]
  /\ Clear(b, r, checkIn[b], checkOut[b])
  /\ on[r]
  /\ room' = [room EXCEPT ![b] = r]
  /\ phys' = IF state[b] = "CONFIRMED" THEN [phys EXCEPT ![room[b]] = "AVAILABLE"]
             ELSE [phys EXCEPT ![room[b]] = "DIRTY", ![r] = "OCCUPIED"]
  /\ displaced' = (displaced \ {b}) \cup Housemates(b)
  /\ UNCHANGED <<kind, quote, state, checkIn, checkOut, arrived, on>>

-----------------------------------------------------------------------------
(* Rooms. *)

CleanAny(r) ==                                                       \* mutant
  /\ phys' = [phys EXCEPT ![r] = "AVAILABLE"]
  /\ UNCHANGED <<kind, quote, stay, state, on, displaced>>

(* mark_room_clean *)
Clean(r) ==
  /\ phys[r] = "DIRTY"
  /\ phys' = [phys EXCEPT ![r] = "AVAILABLE"]
  /\ UNCHANGED <<kind, quote, stay, state, on, displaced>>

MaintainBlind(r) ==                                                  \* mutant
  /\ on[r] /\ phys[r] \in {"AVAILABLE", "DIRTY"}
  /\ phys' = [phys EXCEPT ![r] = "MAINTENANCE"]
  /\ UNCHANGED <<kind, quote, stay, state, on, displaced>>

(* set_room_maintenance_status and mark_room_maintenance *)
Maintain(r) ==
  /\ on[r] /\ phys[r] \in {"AVAILABLE", "DIRTY"}
  /\ GuestsOf(r) = {}
  /\ phys' = [phys EXCEPT ![r] = "MAINTENANCE"]
  /\ UNCHANGED <<kind, quote, stay, state, on, displaced>>

MaintenanceOut(r) ==                                                 \* mutant
  /\ phys[r] = "MAINTENANCE"
  /\ phys' = [phys EXCEPT ![r] = "OUT_OF_SERVICE"]
  /\ UNCHANGED <<kind, quote, stay, state, on, displaced>>

(* mark_maintenance_complete *)
MaintenanceDone(r) ==
  /\ phys[r] = "MAINTENANCE"
  /\ phys' = [phys EXCEPT ![r] = "AVAILABLE"]
  /\ UNCHANGED <<kind, quote, stay, state, on, displaced>>

(* update_room *)
SetActive(r) ==
  /\ on' = [on EXCEPT ![r] = ~@]
  /\ UNCHANGED <<kind, quote, stay, state, phys, displaced>>

-----------------------------------------------------------------------------
Desk(b) ==
  \/ \E r \in Rooms, first, last \in Days :
       \/ \E confirmed \in BOOLEAN : CreateBooking(b, r, first, last, confirmed)
       \/ CreateQuotation(b, r, first, last)
  \/ \E q \in {"SENT", "UNDER_REVIEW", "ACCEPTED", "REJECTED", "EXPIRED"} : UpdateQuotation(b, q)
  \/ \E confirmed \in BOOLEAN : ConvertQuotation(b, confirmed)
  \/ Confirm(b) \/ Cancel(b) \/ NoShow(b)
  \/ \E first, last \in Days : AdjustStay(b, first, last)

Guest(b) ==
  \/ \E r \in Rooms, d \in Days : CheckIn(b, r, d)
  \/ \E d \in Days : CheckOut(b, d) \/ ExtendStay(b, d)
  \/ \E r \in Rooms : ChangeRoom(b, r)

Housekeeping(r) == Clean(r) \/ Maintain(r) \/ MaintenanceDone(r) \/ SetActive(r)

HotelNext ==
  \/ \E b \in Bookings : Desk(b) \/ Guest(b)
  \/ \E r \in Rooms : Housekeeping(r)

HotelSpec == HotelInit /\ [][HotelNext]_hvars

-----------------------------------------------------------------------------
(* Properties. *)

HotelTypeOK ==
  /\ kind \in [Bookings -> {"NONE", "BOOKING", "QUOTATION"}]
  /\ quote \in [Bookings -> DOMAIN NextQuotes]
  /\ state \in [Bookings -> BookingStatus]
  /\ room \in [Bookings -> Rooms]
  /\ checkIn \in [Bookings -> Days] /\ checkOut \in [Bookings -> Days]
  /\ arrived \in [Bookings -> Days]
  /\ phys \in [Rooms -> PhysicalStatus]
  /\ on \in [Rooms -> BOOLEAN]
  /\ displaced \subseteq Bookings

(* No room is given to two guests for the same night: the stays of two confirmed  *)
(* or checked-in bookings of one room, each from the arrival to the departure,    *)
(* follow one another.  bookings_overlap_stmt (availability.py:65) is asked by    *)
(* every operation that books, moves, lengthens or begins a stay.                 *)
StaysDisjoint ==
  \A b, o \in Bookings :
    (b # o /\ Blocks(b) /\ Blocks(o) /\ room[b] = room[o])
      => checkOut[b] <= arrived[o] \/ checkOut[o] <= arrived[b]

(* The room of a checked-in guest is never sent to maintenance, though a no-show  *)
(* or a change of room may already have marked it available                      *)
(* (booking_service.py:1877, where the booking is looked for a second time).      *)
NoGuestUnderMaintenance ==
  \A b \in Bookings : state[b] = "CHECKED_IN" => phys[room[b]] # "MAINTENANCE"

(* A room is marked occupied exactly while a guest lives in it: none is lost to   *)
(* the house after its guest has left it (nobody could let, clean or close it),   *)
(* and none is offered or cleaned over its guest, but for the guests whose room   *)
(* another booking made free: one that moved away from it, did not show up for    *)
(* it, or left it after them (booking_service.py:1304, 1465, 1578 and 1400).      *)
OccupiedIffLivedIn ==
  /\ \A r \in Rooms : phys[r] = "OCCUPIED" => GuestsOf(r) # {}
  /\ \A b \in Bookings \ displaced : state[b] = "CHECKED_IN" => phys[room[b]] = "OCCUPIED"
=================================================================================
