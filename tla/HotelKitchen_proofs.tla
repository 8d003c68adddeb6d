-------------------------- MODULE HotelKitchen_proofs --------------------------
(* What TLAPS proves about the hotel's stays and rooms (HotelRooms), for any      *)
(* bookings, rooms and calendar, and about the kitchen's tickets (Kitchen), for   *)
(* any orders, sections, policies and quantities.  The two share no state: they   *)
(* are proved one after the other.                                               *)
EXTENDS HotelRooms, Kitchen, FiniteSetTheorems, TLAPS

-----------------------------------------------------------------------------
(* HotelRooms.                                                                   *)

(* A stay never begins before the recorded day: a late arrival keeps that day, an *)
(* early one moves it.                                                           *)
Begun == \A b \in Bookings : checkIn[b] <= arrived[b]

(* An id not given yet is that of a row of default values. *)
Fresh == \A b \in Bookings : kind[b] = "NONE" => state[b] = "PENDING"

HotelInv == HotelTypeOK /\ Fresh /\ Begun /\ StaysDisjoint /\ NoGuestUnderMaintenance

-----------------------------------------------------------------------------
(* The initial states satisfy the invariant. *)
LEMMA InitInv == HotelInit => HotelInv
  BY HotelAssumption DEF HotelInit, HotelInv, HotelTypeOK, Fresh, Begun, StaysDisjoint, NoGuestUnderMaintenance,
     Days, BookingStatus, PhysicalStatus, NextQuotes, Blocks

(* Every step keeps the types; create_booking to update_room. *)
LEMMA TypeKept == HotelTypeOK /\ [HotelNext]_hvars => HotelTypeOK'
<1> SUFFICES ASSUME HotelTypeOK, [HotelNext]_hvars PROVE HotelTypeOK'
  OBVIOUS
<1> USE DEF HotelTypeOK
<1>1. CASE UNCHANGED hvars
  BY <1>1 DEF hvars, stay, rooms
<1>2. ASSUME NEW b \in Bookings, Desk(b) PROVE HotelTypeOK'
  <2>1. CASE \E r \in Rooms, first, last \in Days, confirmed \in BOOLEAN :
               CreateBooking(b, r, first, last, confirmed)
    BY <2>1 DEF CreateBooking, rooms, BookingStatus
  <2>2. CASE \E r \in Rooms, first, last \in Days : CreateQuotation(b, r, first, last)
    BY <2>2 DEF CreateQuotation, rooms
  <2>3. CASE \E q \in {"SENT", "UNDER_REVIEW", "ACCEPTED", "REJECTED", "EXPIRED"} : UpdateQuotation(b, q)
    BY <2>3 DEF UpdateQuotation, stay, rooms, NextQuotes
  <2>4. CASE \E confirmed \in BOOLEAN : ConvertQuotation(b, confirmed)
    BY <2>4 DEF ConvertQuotation, stay, rooms, NextQuotes, BookingStatus
  <2>5. CASE Confirm(b)
    BY <2>5 DEF Confirm, stay, rooms, BookingStatus
  <2>6. CASE Cancel(b)
    BY <2>6 DEF Cancel, stay, rooms, BookingStatus
  <2>7. CASE NoShow(b)
    BY <2>7 DEF NoShow, stay, BookingStatus, PhysicalStatus, Housemates, GuestsOf
  <2>8. CASE \E first, last \in Days : AdjustStay(b, first, last)
    BY <2>8 DEF AdjustStay, rooms
  <2> QED
    BY <1>2, <2>1, <2>2, <2>3, <2>4, <2>5, <2>6, <2>7, <2>8 DEF Desk
<1>3. ASSUME NEW b \in Bookings, Guest(b) PROVE HotelTypeOK'
  <2>1. CASE \E r \in Rooms, d \in Days : CheckIn(b, r, d)
    BY <2>1 DEF CheckIn, BookingStatus, PhysicalStatus, Housemates, GuestsOf
  <2>2. CASE \E d \in Days : CheckOut(b, d)
    BY <2>2 DEF CheckOut, BookingStatus, PhysicalStatus, Housemates, GuestsOf
  <2>3. CASE \E d \in Days : ExtendStay(b, d)
    BY <2>3 DEF ExtendStay, rooms
  <2>4. CASE \E r \in Rooms : ChangeRoom(b, r)
    BY <2>4 DEF ChangeRoom, PhysicalStatus, Housemates, GuestsOf
  <2> QED
    BY <1>3, <2>1, <2>2, <2>3, <2>4 DEF Guest
<1>4. ASSUME NEW r \in Rooms, Housekeeping(r) PROVE HotelTypeOK'
  <2>1. CASE SetActive(r)
    <3>1. on' \in [Rooms -> BOOLEAN]
      BY <2>1, Zenon DEF SetActive
    <3> QED
      BY <2>1, <3>1 DEF SetActive, stay
  <2> QED
    BY <1>4, <2>1 DEF Housekeeping, Clean, Maintain, MaintenanceDone, stay, PhysicalStatus
<1> QED
  BY <1>1, <1>2, <1>3, <1>4 DEF HotelNext

(* An id is used before its state changes. *)
LEMMA FreshKept == HotelTypeOK /\ Fresh /\ [HotelNext]_hvars => Fresh'
<1> SUFFICES ASSUME HotelTypeOK, Fresh, [HotelNext]_hvars PROVE Fresh'
  OBVIOUS
<1> USE DEF HotelTypeOK, Fresh
<1>1. CASE UNCHANGED hvars
  BY <1>1 DEF hvars
<1>2. ASSUME NEW b \in Bookings, Desk(b) PROVE Fresh'
  <2>1. CASE \E r \in Rooms, first, last \in Days, confirmed \in BOOLEAN :
               CreateBooking(b, r, first, last, confirmed)
    BY <2>1 DEF CreateBooking
  <2>2. CASE \E r \in Rooms, first, last \in Days :
               CreateQuotation(b, r, first, last) \/ AdjustStay(b, first, last)
    BY <2>2 DEF CreateQuotation, AdjustStay
  <2>3. CASE \E q \in {"SENT", "UNDER_REVIEW", "ACCEPTED", "REJECTED", "EXPIRED"} : UpdateQuotation(b, q)
    BY <2>3 DEF UpdateQuotation
  <2>4. CASE \E confirmed \in BOOLEAN : ConvertQuotation(b, confirmed)
    BY <2>4 DEF ConvertQuotation
  <2>5. CASE Confirm(b) \/ Cancel(b) \/ NoShow(b)
    BY <2>5 DEF Confirm, Cancel, NoShow, IsBooking
  <2> QED
    BY <1>2, <2>1, <2>2, <2>3, <2>4, <2>5 DEF Desk
<1>3. ASSUME NEW b \in Bookings, Guest(b) PROVE Fresh'
  BY <1>3 DEF Guest, CheckIn, CheckOut, ExtendStay, ChangeRoom, IsBooking, Blocks
<1>4. ASSUME NEW r \in Rooms, Housekeeping(r) PROVE Fresh'
  BY <1>4 DEF Housekeeping, Clean, Maintain, MaintenanceDone, SetActive
<1> QED
  BY <1>1, <1>2, <1>3, <1>4 DEF HotelNext

-----------------------------------------------------------------------------
(* A booking is alone in what changes. *)
Only(b) ==
  \A o \in Bookings \ {b} :
    /\ state'[o] = state[o] /\ room'[o] = room[o]
    /\ checkIn'[o] = checkIn[o] /\ checkOut'[o] = checkOut[o] /\ arrived'[o] = arrived[o]

(* A booking that took only nights has_room_conflict found free leaves the stays  *)
(* apart; the others count from the recorded day, which is no later than the real *)
(* one.                                                                          *)
LEMMA FreeNights ==
  ASSUME HotelTypeOK, HotelTypeOK', Begun, StaysDisjoint, NEW b \in Bookings, Only(b),
         NEW first \in Int, first <= arrived'[b],
         Clear(b, room'[b], first, checkOut'[b])
  PROVE  StaysDisjoint'
<1> SUFFICES ASSUME NEW p \in Bookings, NEW o \in Bookings, p # o,
                    Blocks(p)', Blocks(o)', room'[p] = room'[o]
             PROVE  checkOut'[p] <= arrived'[o] \/ checkOut'[o] <= arrived'[p]
  BY DEF StaysDisjoint
<1>0. \A c \in Bookings : checkIn[c] \in Int /\ checkOut[c] \in Int /\ arrived[c] \in Int
                          /\ checkOut'[c] \in Int /\ arrived'[c] \in Int
  BY HotelAssumption DEF HotelTypeOK, Days
<1>1. ASSUME NEW c \in Bookings \ {b}, Blocks(c)', room'[c] = room'[b]
      PROVE  checkOut'[b] <= arrived'[c] \/ checkOut'[c] <= arrived'[b]
  <2>1. Blocks(c) /\ room[c] = room'[b] /\ checkOut'[c] = checkOut[c] /\ arrived'[c] = arrived[c]
    BY <1>1 DEF Only, Blocks
  <2>2. ~(checkIn[c] <= checkOut'[b] /\ checkOut[c] > first)
    BY <2>1 DEF Clear
  <2> QED
    BY <1>0, <2>1, <2>2 DEF Begun
<1>2. CASE p = b
  BY <1>1, <1>2
<1>3. CASE o = b
  BY <1>1, <1>3
<1>4. CASE p # b /\ o # b
  BY <1>4 DEF Only, Blocks, StaysDisjoint
<1> QED
  BY <1>2, <1>3, <1>4

(* Giving up a room, or no longer counting, leaves them apart too. *)
LEMMA FewerStays ==
  ASSUME StaysDisjoint, NEW b \in Bookings, Only(b),
         Blocks(b)' => Blocks(b) /\ room'[b] = room[b] /\ checkOut'[b] = checkOut[b]
                       /\ arrived'[b] = arrived[b]
  PROVE  StaysDisjoint'
  BY DEF StaysDisjoint, Blocks, Only

-----------------------------------------------------------------------------
(* The reception keeps the invariant. *)
LEMMA DeskKeeps ==
  ASSUME HotelInv, HotelTypeOK', Fresh', NEW b \in Bookings, Desk(b)
  PROVE  HotelInv'
<1> USE DEF HotelInv
<1>0. checkIn[b] \in Int /\ checkOut[b] \in Int /\ Days \subseteq Int
  BY HotelAssumption DEF HotelTypeOK, Days
<1>1. CASE \E r \in Rooms, first, last \in Days, confirmed \in BOOLEAN :
             CreateBooking(b, r, first, last, confirmed)
  <2>1. PICK r \in Rooms, first \in Days, last \in Days, confirmed \in BOOLEAN :
             CreateBooking(b, r, first, last, confirmed)
    BY <1>1
  <2>2. Only(b) /\ room'[b] = r /\ checkOut'[b] = last /\ arrived'[b] = first /\ checkIn'[b] = first
    BY <2>1 DEF CreateBooking, Only, HotelTypeOK
  <2>3. StaysDisjoint'
    BY <1>0, <2>1, <2>2, FreeNights DEF CreateBooking
  <2>4. Begun'
    BY <1>0, <2>2 DEF Begun, Only
  <2>5. NoGuestUnderMaintenance'
    BY <2>1, <2>2 DEF CreateBooking, Only, NoGuestUnderMaintenance, HotelTypeOK, rooms
  <2> QED
    BY <2>3, <2>4, <2>5
<1>2. CASE \E r \in Rooms, first, last \in Days : CreateQuotation(b, r, first, last)
  <2>1. PICK r \in Rooms, first \in Days, last \in Days : CreateQuotation(b, r, first, last)
    BY <1>2
  <2>2. Only(b) /\ room'[b] = r /\ arrived'[b] = first /\ checkIn'[b] = first
        /\ UNCHANGED <<state, phys>> /\ state[b] = "PENDING"
    BY <2>1 DEF CreateQuotation, Only, HotelTypeOK, Fresh, rooms
  <2>3. StaysDisjoint'
    BY <2>2, FewerStays DEF Blocks
  <2>4. Begun' /\ NoGuestUnderMaintenance'
    BY <1>0, <2>2 DEF Begun, NoGuestUnderMaintenance, Only
  <2> QED
    BY <2>3, <2>4
<1>3. CASE \E q \in {"SENT", "UNDER_REVIEW", "ACCEPTED", "REJECTED", "EXPIRED"} : UpdateQuotation(b, q)
  BY <1>3 DEF UpdateQuotation, stay, rooms, Begun, StaysDisjoint, NoGuestUnderMaintenance, Blocks
<1>4. CASE \E confirmed \in BOOLEAN : ConvertQuotation(b, confirmed)
  <2>1. PICK confirmed \in BOOLEAN : ConvertQuotation(b, confirmed)
    BY <1>4
  <2>2. UNCHANGED stay /\ Only(b) /\ UNCHANGED phys /\ (state'[b] = "CHECKED_IN" => state[b] = "CHECKED_IN")
    BY <2>1 DEF ConvertQuotation, stay, rooms, Only, HotelTypeOK
  <2>3. StaysDisjoint'
    BY <1>0, <2>1, <2>2, FreeNights DEF ConvertQuotation, Begun, stay
  <2>4. Begun' /\ NoGuestUnderMaintenance'
    BY <2>2 DEF Begun, NoGuestUnderMaintenance, Only, stay
  <2> QED
    BY <2>3, <2>4
<1>5. CASE Confirm(b)
  <2>1. UNCHANGED stay /\ Only(b) /\ UNCHANGED phys /\ state'[b] = "CONFIRMED"
    BY <1>5 DEF Confirm, stay, rooms, Only, HotelTypeOK
  <2>2. StaysDisjoint'
    BY <1>0, <1>5, <2>1, FreeNights DEF Confirm, Begun, stay
  <2>3. Begun' /\ NoGuestUnderMaintenance'
    BY <2>1 DEF Begun, NoGuestUnderMaintenance, Only, stay
  <2> QED
    BY <2>2, <2>3
<1>6. CASE Cancel(b)
  <2>1. UNCHANGED stay /\ Only(b) /\ UNCHANGED phys /\ state'[b] = "CANCELLED"
    BY <1>6 DEF Cancel, stay, rooms, Only, HotelTypeOK
  <2>2. StaysDisjoint'
    BY <2>1, FewerStays DEF Blocks
  <2>3. Begun' /\ NoGuestUnderMaintenance'
    BY <2>1 DEF Begun, NoGuestUnderMaintenance, Only, stay
  <2> QED
    BY <2>2, <2>3
<1>7. CASE NoShow(b)
  <2>1. UNCHANGED stay /\ Only(b) /\ state'[b] = "NO_SHOW"
    BY <1>7 DEF NoShow, stay, Only, HotelTypeOK
  <2>2. StaysDisjoint'
    BY <2>1, FewerStays DEF Blocks
  <2>3. Begun'
    BY <2>1 DEF Begun, stay
  <2>4. NoGuestUnderMaintenance'
    BY <1>7, <2>1 DEF NoShow, NoGuestUnderMaintenance, Only, stay, HotelTypeOK
  <2> QED
    BY <2>2, <2>3, <2>4
<1>8. CASE \E first, last \in Days : AdjustStay(b, first, last)
  <2>1. PICK first \in Days, last \in Days : AdjustStay(b, first, last)
    BY <1>8
  <2>2. Only(b) /\ UNCHANGED <<room, state, phys>> /\ checkOut'[b] = last
        /\ arrived'[b] = first /\ checkIn'[b] = first
    BY <2>1 DEF AdjustStay, Only, HotelTypeOK, rooms
  <2>3. StaysDisjoint'
    BY <1>0, <2>1, <2>2, FreeNights DEF AdjustStay
  <2>4. Begun'
    BY <1>0, <2>2 DEF Begun, Only
  <2>5. NoGuestUnderMaintenance'
    BY <2>2 DEF NoGuestUnderMaintenance
  <2> QED
    BY <2>3, <2>4, <2>5
<1> QED
  BY <1>1, <1>2, <1>3, <1>4, <1>5, <1>6, <1>7, <1>8 DEF Desk

-----------------------------------------------------------------------------
(* Guests who arrive, leave, stay on or move keep it. *)
LEMMA GuestKeeps ==
  ASSUME HotelInv, HotelTypeOK', Fresh', NEW b \in Bookings, Guest(b)
  PROVE  HotelInv'
<1> USE DEF HotelInv
<1>0. checkIn[b] \in Int /\ checkOut[b] \in Int /\ arrived[b] \in Int /\ Days \subseteq Int
  BY HotelAssumption DEF HotelTypeOK, Days
<1>1. CASE \E r \in Rooms, d \in Days : CheckIn(b, r, d)
  <2>1. PICK r \in Rooms, d \in Days : CheckIn(b, r, d)
    BY <1>1
  <2>2. Only(b) /\ room'[b] = r /\ checkOut'[b] = checkOut[b] /\ arrived'[b] = d
        /\ checkIn'[b] \in Int /\ checkIn'[b] <= d
    BY <1>0, <2>1 DEF CheckIn, Only, HotelTypeOK
  <2>3. StaysDisjoint'
    BY <1>0, <2>1, <2>2, FreeNights DEF CheckIn
  <2>4. Begun'
    BY <1>0, <2>2 DEF Begun, Only
  <2>5. NoGuestUnderMaintenance'
    BY <2>1, <2>2 DEF CheckIn, Only, NoGuestUnderMaintenance, HotelTypeOK
  <2> QED
    BY <2>3, <2>4, <2>5
<1>2. CASE \E d \in Days : CheckOut(b, d)
  <2>1. PICK d \in Days : CheckOut(b, d)
    BY <1>2
  <2>2. Only(b) /\ state'[b] = "CHECKED_OUT" /\ UNCHANGED <<room, checkIn, arrived>>
    BY <2>1 DEF CheckOut, Only, HotelTypeOK
  <2>3. StaysDisjoint'
    BY <2>2, FewerStays DEF Blocks
  <2>4. Begun'
    BY <2>2 DEF Begun
  <2>5. NoGuestUnderMaintenance'
    BY <2>1, <2>2 DEF CheckOut, Only, NoGuestUnderMaintenance, HotelTypeOK
  <2> QED
    BY <2>3, <2>4, <2>5
<1>3. CASE \E d \in Days : ExtendStay(b, d)
  <2>1. PICK d \in Days : ExtendStay(b, d)
    BY <1>3
  <2>2. Only(b) /\ UNCHANGED <<room, state, checkIn, arrived, phys>> /\ checkOut'[b] = d
    BY <2>1 DEF ExtendStay, Only, HotelTypeOK, rooms
  <2>3. StaysDisjoint'
    BY <1>0, <2>1, <2>2, FreeNights DEF ExtendStay, Begun
  <2>4. Begun' /\ NoGuestUnderMaintenance'
    BY <2>2 DEF Begun, NoGuestUnderMaintenance
  <2> QED
    BY <2>3, <2>4
<1>4. CASE \E r \in Rooms : ChangeRoom(b, r)
  <2>1. PICK r \in Rooms : ChangeRoom(b, r)
    BY <1>4
  <2>2. Only(b) /\ UNCHANGED <<state, checkIn, checkOut, arrived>> /\ room'[b] = r
    BY <2>1 DEF ChangeRoom, Only, HotelTypeOK
  <2>3. StaysDisjoint'
    BY <1>0, <2>1, <2>2, FreeNights DEF ChangeRoom, Begun
  <2>4. Begun'
    BY <2>2 DEF Begun
  <2>5. NoGuestUnderMaintenance'
    BY <2>1, <2>2 DEF ChangeRoom, Only, NoGuestUnderMaintenance, HotelTypeOK, Blocks
  <2> QED
    BY <2>3, <2>4, <2>5
<1> QED
  BY <1>1, <1>2, <1>3, <1>4 DEF Guest

(* Housekeeping keeps it: it looks for a guest before a room goes to maintenance. *)
LEMMA HousekeepingKeeps ==
  ASSUME HotelInv, HotelTypeOK', Fresh', NEW r \in Rooms, Housekeeping(r)
  PROVE  HotelInv'
<1> USE DEF HotelInv
<1>1. UNCHANGED <<stay, state>>
  BY DEF Housekeeping, Clean, Maintain, MaintenanceDone, SetActive
<1>2. Begun' /\ StaysDisjoint'
  BY <1>1 DEF Begun, StaysDisjoint, Blocks, stay
<1>3. NoGuestUnderMaintenance'
  <2> SUFFICES ASSUME NEW b \in Bookings, state[b] = "CHECKED_IN", room[b] \in Rooms
               PROVE  phys'[room[b]] # "MAINTENANCE"
    BY <1>1 DEF NoGuestUnderMaintenance, stay, HotelTypeOK
  <2>1. phys[room[b]] # "MAINTENANCE"
    BY DEF NoGuestUnderMaintenance
  <2>2. CASE Maintain(r)
    BY <2>1, <2>2 DEF Maintain, GuestsOf, HotelTypeOK
  <2> QED
    BY <2>1, <2>2 DEF Housekeeping, Clean, MaintenanceDone, SetActive, HotelTypeOK
<1> QED
  BY <1>2, <1>3

(* The invariant is inductive. *)
LEMMA StepInv == HotelInv /\ [HotelNext]_hvars => HotelInv'
<1> SUFFICES ASSUME HotelInv, [HotelNext]_hvars PROVE HotelInv'
  OBVIOUS
<1>1. HotelTypeOK' /\ Fresh'
  BY TypeKept, FreshKept DEF HotelInv
<1>2. CASE UNCHANGED hvars
  BY <1>1, <1>2 DEF HotelInv, hvars, stay, rooms, Begun, StaysDisjoint, NoGuestUnderMaintenance, Blocks
<1> QED
  BY <1>1, <1>2, DeskKeeps, GuestKeeps, HousekeepingKeeps DEF HotelNext

(* The invariant holds always. *)
LEMMA Invariance == HotelSpec => []HotelInv
  BY InitInv, StepInv, PTL DEF HotelSpec

-----------------------------------------------------------------------------
(* Bookings and rooms keep their types: booking_models.py and models.py. *)
THEOREM HotelTyped == HotelSpec => []HotelTypeOK
  BY Invariance, PTL DEF HotelInv

(* Two stays never have a night of one room in common, for any hotel and calendar *)
(* (availability.py:57).                                                         *)
THEOREM HotelStays == HotelSpec => []StaysDisjoint
  BY Invariance, PTL DEF HotelInv

(* No room is sent to maintenance over its guest (booking_service.py:1854). *)
THEOREM HotelMaintenance == HotelSpec => []NoGuestUnderMaintenance
  BY Invariance, PTL DEF HotelInv

(* A room is marked occupied exactly while a guest lives in it, but for guests    *)
(* whose room a step of another booking made free.                               *)
LEMMA OccupiedKept ==
  ASSUME HotelTypeOK, Fresh, OccupiedIffLivedIn, HotelNext
  PROVE  OccupiedIffLivedIn'
<1> DEFINE Shown(r) == phys'[r] = "OCCUPIED" => \E b \in Bookings : state'[b] = "CHECKED_IN" /\ room'[b] = r
           Marked(b) == state'[b] = "CHECKED_IN" => phys'[room'[b]] = "OCCUPIED"
<1>0. /\ \A r \in Rooms : phys[r] = "OCCUPIED" => \E b \in Bookings : state[b] = "CHECKED_IN" /\ room[b] = r
      /\ \A b \in Bookings \ displaced : state[b] = "CHECKED_IN" => phys[room[b]] = "OCCUPIED"
  BY DEF OccupiedIffLivedIn, GuestsOf
<1>1. SUFFICES (\A r \in Rooms : Shown(r)) /\ (\A b \in Bookings \ displaced' : Marked(b))
  BY DEF OccupiedIffLivedIn, GuestsOf
<1>2. ASSUME NEW b \in Bookings, NoShow(b)
      PROVE  (\A r \in Rooms : Shown(r)) /\ (\A o \in Bookings \ displaced' : Marked(o))
  <2>1. /\ state[b] = "CONFIRMED" /\ room' = room
        /\ state' = [state EXCEPT ![b] = "NO_SHOW"]
        /\ phys' = [phys EXCEPT ![room[b]] = "AVAILABLE"]
        /\ displaced' = displaced \cup Housemates(b)
    BY <1>2 DEF NoShow, stay
  <2>2. ASSUME NEW r \in Rooms PROVE Shown(r)
    BY <1>0, <2>1 DEF HotelTypeOK
  <2>3. ASSUME NEW o \in Bookings \ displaced' PROVE Marked(o)
    <3>1. o \notin displaced /\ o \notin Housemates(b)
      BY <2>1, <2>3
    <3>2. CASE o = b
      BY <2>1, <3>2 DEF HotelTypeOK
    <3>3. CASE o # b /\ state[o] = "CHECKED_IN"
      BY <1>0, <2>1, <3>1, <3>3 DEF HotelTypeOK, Housemates, GuestsOf
    <3>4. CASE o # b /\ state[o] # "CHECKED_IN"
      BY <2>1, <3>4 DEF HotelTypeOK
    <3> QED BY <3>2, <3>3, <3>4
  <2> QED BY <2>2, <2>3
<1>3. ASSUME NEW b \in Bookings, NEW s \in Rooms, NEW d \in Days, CheckIn(b, s, d)
      PROVE  (\A r \in Rooms : Shown(r)) /\ (\A o \in Bookings \ displaced' : Marked(o))
  <2>1. /\ state[b] \in {"CONFIRMED", "PENDING"}
        /\ state' = [state EXCEPT ![b] = "CHECKED_IN"] /\ room' = [room EXCEPT ![b] = s]
        /\ phys' = [phys EXCEPT ![room[b]] = "AVAILABLE", ![s] = "OCCUPIED"]
        /\ displaced' = IF s = room[b] THEN displaced ELSE displaced \cup Housemates(b)
    BY <1>3 DEF CheckIn
  <2>2. state'[b] = "CHECKED_IN" /\ room'[b] = s /\ phys'[s] = "OCCUPIED"
    BY <2>1 DEF HotelTypeOK
  <2>3. ASSUME NEW r \in Rooms PROVE Shown(r)
    BY <1>0, <2>1, <2>2 DEF HotelTypeOK
  <2>4. ASSUME NEW o \in Bookings \ displaced' PROVE Marked(o)
    <3>1. CASE o = b
      BY <2>2, <3>1
    <3>2. CASE o # b
      BY <1>0, <2>1, <2>4, <3>2 DEF HotelTypeOK, Housemates, GuestsOf
    <3> QED BY <3>1, <3>2
  <2> QED BY <2>3, <2>4
<1>4. ASSUME NEW b \in Bookings, NEW d \in Days, CheckOut(b, d)
      PROVE  (\A r \in Rooms : Shown(r)) /\ (\A o \in Bookings \ displaced' : Marked(o))
  BY <1>0, <1>4 DEF CheckOut, HotelTypeOK, BookingStatus, PhysicalStatus, Housemates, GuestsOf
<1>5. ASSUME NEW b \in Bookings, NEW s \in Rooms, ChangeRoom(b, s)
      PROVE  (\A r \in Rooms : Shown(r)) /\ (\A o \in Bookings \ displaced' : Marked(o))
  <2>1. /\ s # room[b] /\ room' = [room EXCEPT ![b] = s] /\ state' = state
        /\ displaced' = (displaced \ {b}) \cup Housemates(b)
        /\ state[b] \in {"CONFIRMED", "CHECKED_IN"}
    BY <1>5 DEF ChangeRoom, Blocks
  <2>2. CASE state[b] = "CONFIRMED"
    <3>1. phys' = [phys EXCEPT ![room[b]] = "AVAILABLE"]
      BY <1>5, <2>2 DEF ChangeRoom
    <3> QED BY <1>0, <2>1, <2>2, <3>1 DEF HotelTypeOK, Housemates, GuestsOf
  <2>3. CASE state[b] = "CHECKED_IN"
    <3>1. phys' = [phys EXCEPT ![room[b]] = "DIRTY", ![s] = "OCCUPIED"]
      BY <1>5, <2>3 DEF ChangeRoom
    <3>2. state'[b] = "CHECKED_IN" /\ room'[b] = s /\ phys'[s] = "OCCUPIED"
      BY <2>1, <2>3, <3>1 DEF HotelTypeOK
    <3>3. ASSUME NEW r \in Rooms PROVE Shown(r)
      BY <1>0, <2>1, <3>1, <3>2 DEF HotelTypeOK
    <3>4. ASSUME NEW o \in Bookings \ displaced' PROVE Marked(o)
      <4>1. CASE o = b
        BY <3>2, <4>1
      <4>2. CASE o # b
        BY <1>0, <2>1, <3>1, <3>4, <4>2 DEF HotelTypeOK, Housemates, GuestsOf
      <4> QED BY <4>1, <4>2
    <3> QED BY <3>3, <3>4
  <2> QED BY <2>1, <2>2, <2>3
<1>6. ASSUME phys' = phys, displaced' = displaced,
             \A b \in Bookings : /\ state'[b] = "CHECKED_IN" <=> state[b] = "CHECKED_IN"
                                 /\ state[b] = "CHECKED_IN" => room'[b] = room[b]
      PROVE  (\A r \in Rooms : Shown(r)) /\ (\A o \in Bookings \ displaced' : Marked(o))
  BY <1>0, <1>6
<1>7. ASSUME NEW b \in Bookings, NEW r \in Rooms, NEW first \in Days, NEW last \in Days,
             \/ \E confirmed \in BOOLEAN : CreateBooking(b, r, first, last, confirmed)
             \/ CreateQuotation(b, r, first, last)
      PROVE  (\A s \in Rooms : Shown(s)) /\ (\A o \in Bookings \ displaced' : Marked(o))
  <2>1. phys' = phys /\ displaced' = displaced /\ state[b] = "PENDING"
    BY <1>7 DEF CreateBooking, CreateQuotation, rooms, Fresh
  <2>2. ASSUME NEW o \in Bookings
        PROVE  /\ state'[o] = "CHECKED_IN" <=> state[o] = "CHECKED_IN"
               /\ state[o] = "CHECKED_IN" => room'[o] = room[o]
    BY <1>7, <2>1 DEF CreateBooking, CreateQuotation, HotelTypeOK
  <2> QED BY <1>6, <2>1, <2>2
<1>8. ASSUME NEW b \in Bookings, Desk(b),
             ~NoShow(b),
             ~(\E r \in Rooms, first, last \in Days :
                 \/ \E confirmed \in BOOLEAN : CreateBooking(b, r, first, last, confirmed)
                 \/ CreateQuotation(b, r, first, last))
      PROVE  (\A s \in Rooms : Shown(s)) /\ (\A o \in Bookings \ displaced' : Marked(o))
  <2>1. \/ \E q \in {"SENT", "UNDER_REVIEW", "ACCEPTED", "REJECTED", "EXPIRED"} : UpdateQuotation(b, q)
        \/ \E confirmed \in BOOLEAN : ConvertQuotation(b, confirmed)
        \/ Confirm(b) \/ Cancel(b)
        \/ \E first, last \in Days : AdjustStay(b, first, last)
    BY <1>8 DEF Desk
  <2>2. phys' = phys /\ displaced' = displaced /\ room' = room
    BY <2>1 DEF UpdateQuotation, ConvertQuotation, Confirm, Cancel, AdjustStay, stay, rooms
  <2>3. ASSUME NEW o \in Bookings
        PROVE  state'[o] = "CHECKED_IN" <=> state[o] = "CHECKED_IN"
    BY <2>1 DEF UpdateQuotation, ConvertQuotation, Confirm, Cancel, AdjustStay, HotelTypeOK
  <2> QED BY <1>6, <2>2, <2>3
<1>9. ASSUME NEW b \in Bookings, NEW d \in Days, ExtendStay(b, d)
      PROVE  (\A s \in Rooms : Shown(s)) /\ (\A o \in Bookings \ displaced' : Marked(o))
  BY <1>6, <1>9 DEF ExtendStay, rooms
<1>10. ASSUME NEW r \in Rooms, Housekeeping(r)
       PROVE  (\A s \in Rooms : Shown(s)) /\ (\A o \in Bookings \ displaced' : Marked(o))
  <2>1. state' = state /\ room' = room /\ displaced' = displaced
    BY <1>10 DEF Housekeeping, Clean, Maintain, MaintenanceDone, SetActive, stay
  <2>2. ASSUME NEW s \in Rooms PROVE phys'[s] = "OCCUPIED" <=> phys[s] = "OCCUPIED"
    BY <1>10 DEF Housekeeping, Clean, Maintain, MaintenanceDone, SetActive, HotelTypeOK
  <2>3. \A o \in Bookings : room[o] \in Rooms
    BY DEF HotelTypeOK
  <2> QED BY <1>0, <2>1, <2>2, <2>3
<1>11. ASSUME NEW b \in Bookings, Guest(b)
       PROVE  (\A s \in Rooms : Shown(s)) /\ (\A o \in Bookings \ displaced' : Marked(o))
  BY <1>3, <1>4, <1>5, <1>9, <1>11 DEF Guest
<1>12. ASSUME NEW b \in Bookings, Desk(b)
       PROVE  (\A s \in Rooms : Shown(s)) /\ (\A o \in Bookings \ displaced' : Marked(o))
  BY <1>2, <1>7, <1>8, <1>12
<1> HIDE DEF Shown, Marked
<1> QED
  BY <1>10, <1>11, <1>12 DEF HotelNext

(* A room is marked occupied exactly while a guest lives in it, for any hotel and *)
(* however its bookings move, but for guests whose room another booking freed.   *)
THEOREM HotelOccupied == HotelSpec => []OccupiedIffLivedIn
<1>1. HotelInit => OccupiedIffLivedIn
  BY DEF HotelInit, OccupiedIffLivedIn, GuestsOf
<1>2. HotelInv /\ OccupiedIffLivedIn /\ [HotelNext]_hvars => OccupiedIffLivedIn'
  <2>1. CASE HotelNext
    BY <2>1, OccupiedKept DEF HotelInv
  <2>2. CASE UNCHANGED hvars
    BY <2>2 DEF hvars, stay, rooms, OccupiedIffLivedIn, GuestsOf
  <2> QED BY <2>1, <2>2
<1> QED
  BY <1>1, <1>2, Invariance, PTL DEF HotelSpec

-----------------------------------------------------------------------------
(* Kitchen.                                                                      *)

(* What is known of one order: a draft that was not sent has nothing in the     *)
(* kitchen; of one that was, every line counts as sent; a section without a     *)
(* ticket has no paper, and nothing is missed before there is a ticket.         *)
Quiet(s) ==
  status[s] = "DRAFT" /\ ~sent[s] =>
    /\ pending[s] = 0
    /\ \A c \in Sections : cooked[s][c] = 0 /\ tickets[s][c] = <<>>

AllSent(s) == sent[s] => \A c \in Sections : cooked[s][c] = qty[s][c]

Requests(s) == pending[s] <= (IF sent[s] THEN 1 ELSE 0) + (IF status[s] = "COMPLETED" THEN 1 ELSE 0)

Untold(s) ==
  /\ \A c \in Sections : tickets[s][c] = <<>> => printed[s][c] = 0
  /\ ~HasTicket(s) => \A c \in Sections : missed[s][c] = 0

Whole(s) ==
  s \notin overtaken /\ HasTicket(s) =>
    \A c \in Sections \ wasOff : printed[s][c] + missed[s][c] = qty[s][c]

Once(s) == \A c \in Sections : printed[s][c] <= qty[s][c]

Known(s) == Quiet(s) /\ AllSent(s) /\ Requests(s) /\ Untold(s) /\ Whole(s) /\ Once(s)

Open == \A c \in Sections \ wasOff : active[c]

IInv == TypeOK /\ Open /\ \A s \in Sales : Known(s)

-----------------------------------------------------------------------------
(* The creation of tickets: what it changes, and what is then true of s.        *)
Created(s) ==
  /\ tickets' \in [Sales -> [Sections -> Seq(TicketStatus)]]
  /\ printed' \in [Sales -> [Sections -> Nat]]
  /\ missed' \in [Sales -> [Sections -> 0..MaxQty]]
  /\ active' \in [Sections -> BOOLEAN]
  /\ \A t \in Sales \ {s} : /\ tickets'[t] = tickets[t] /\ printed'[t] = printed[t]
                            /\ missed'[t] = missed[t]
  /\ \A c \in Sections : active[c] => active'[c]
  /\ \A c \in Sections : Len(tickets'[s][c]) <= cooked[s][c] + 1
  /\ \A c \in Sections : tickets'[s][c] = <<>> => printed'[s][c] = 0
  /\ \/ \E c \in Sections : tickets'[s][c] # <<>>
     \/ \A c \in Sections : missed'[s][c] = 0
  /\ \A c \in Sections : printed'[s][c] <= qty[s][c]
  /\ s \notin overtaken /\ (\E c \in Sections : tickets'[s][c] # <<>>) =>
       \A c \in Sections \ wasOff : printed'[s][c] + missed'[s][c] = qty[s][c]

(* The tickets of some of the sections that have none, or of all of them.       *)
LEMMA SectionTicketsCreate ==
  ASSUME IInv, NEW s \in Sales, NEW made \in SUBSET Unticketed(s),
         made # {} \/ made = Unticketed(s), SectionTickets(s, made)
  PROVE  Created(s)
<1> USE KitchenAssumption
<1>0. /\ Known(s) /\ Open /\ TypeOK
      /\ qty[s] \in [Sections -> 0..MaxQty] /\ qty[s] \in [Sections -> Nat]
      /\ printed[s] \in [Sections -> Nat] /\ tickets[s] \in [Sections -> Seq(TicketStatus)]
      /\ missed[s] \in [Sections -> 0..MaxQty] /\ cooked[s] \in [Sections -> Nat]
  BY DEF IInv, TypeOK
<1> DEFINE T == [c \in Sections |-> IF c \in made THEN Append(tickets[s][c], "PENDING")
                                    ELSE tickets[s][c]]
           N == [c \in Sections |-> IF c \in made THEN printed[s][c] + qty[s][c] ELSE printed[s][c]]
           M == [c \in Sections |-> IF c \in made THEN 0
                                    ELSE IF c \in Unticketed(s) THEN qty[s][c] ELSE missed[s][c]]
<1>1. /\ tickets' = [tickets EXCEPT ![s] = T] /\ printed' = [printed EXCEPT ![s] = N]
      /\ missed' = [missed EXCEPT ![s] = M] /\ active' = active
  BY DEF SectionTickets
<1>2. ASSUME NEW c \in made
      PROVE  /\ c \in Sections /\ tickets[s][c] = <<>> /\ printed[s][c] = 0 /\ qty[s][c] > 0
             /\ Append(tickets[s][c], "PENDING") = <<"PENDING">>
  <2>1. c \in Sections /\ tickets[s][c] = <<>> /\ qty[s][c] > 0
    BY DEF Unticketed
  <2>2. printed[s][c] = 0
    BY <1>0, <2>1 DEF Known, Untold
  <2>3. Append(<<>>, "PENDING") = <<"PENDING">>
    OBVIOUS
  <2> QED BY <2>1, <2>2, <2>3
<1>3. <<"PENDING">> \in Seq(TicketStatus) /\ Len(<<"PENDING">>) = 1 /\ <<"PENDING">> # <<>>
  BY DEF TicketStatus
<1>4. T \in [Sections -> Seq(TicketStatus)] /\ \A c \in Sections : Len(T[c]) <= cooked[s][c] + 1
  <2>1. \A c \in Sections : Len(tickets[s][c]) <= cooked[s][c] + 1
    BY <1>0 DEF TypeOK
  <2>2. ASSUME NEW c \in Sections
        PROVE  T[c] \in Seq(TicketStatus) /\ Len(T[c]) <= cooked[s][c] + 1
    <3>1. CASE c \in made
      <4>1. T[c] = <<"PENDING">>
        BY <1>2, <3>1
      <4>2. cooked[s][c] \in Nat
        BY <1>0
      <4> HIDE DEF T
      <4> QED BY <1>3, <4>1, <4>2
    <3>2. CASE c \notin made
      BY <1>0, <2>1, <3>2
    <3> QED BY <3>1, <3>2
  <2> QED BY <2>2
<1>5. N \in [Sections -> Nat] /\ M \in [Sections -> 0..MaxQty]
  <2>1. N \in [Sections -> Nat]
    BY <1>0
  <2>2. ASSUME NEW c \in Sections PROVE M[c] \in 0..MaxQty
    <3>1. qty[s][c] \in 0..MaxQty /\ missed[s][c] \in 0..MaxQty /\ 0 \in 0..MaxQty
      BY <1>0
    <3> QED BY <3>1
  <2> QED BY <2>1, <2>2
<1>6. tickets'[s] = T /\ printed'[s] = N /\ missed'[s] = M
  BY <1>0, <1>1 DEF TypeOK
<1>7. \A c \in Sections : T[c] = <<>> => N[c] = 0
  BY <1>0, <1>2, <1>3 DEF Known, Untold
<1>8. ASSUME \A c \in Sections : T[c] = <<>> PROVE \A c \in Sections : M[c] = 0
  <2>1. made = {}
    BY <1>2, <1>3, <1>8
  <2>2. Unticketed(s) = {} /\ ~HasTicket(s)
    BY <1>8, <2>1 DEF HasTicket
  <2> QED BY <1>0, <2>1, <2>2 DEF Known, Untold
<1>9. \A c \in Sections : N[c] <= qty[s][c]
  <2>1. ASSUME NEW c \in Sections PROVE N[c] <= qty[s][c]
    <3>1. printed[s][c] <= qty[s][c] /\ qty[s][c] \in Nat
      BY <1>0 DEF Known, Once
    <3> QED BY <1>2, <3>1
  <2> QED BY <2>1
<1>10. ASSUME s \notin overtaken, NEW c \in Sections, c \notin wasOff
       PROVE  N[c] + M[c] = qty[s][c]
  <2>1. qty[s][c] \in Nat /\ printed[s][c] \in Nat /\ missed[s][c] \in Nat
    BY <1>0
  <2>2. CASE c \in made
    BY <1>2, <2>1, <2>2
  <2>3. CASE c \notin made /\ c \in Unticketed(s)
    <3>1. printed[s][c] = 0
      BY <1>0, <2>3 DEF Unticketed, Known, Untold
    <3> QED BY <2>1, <2>3, <3>1
  <2>4. CASE c \notin Unticketed(s)
    <3>1. c \notin made /\ N[c] = printed[s][c] /\ M[c] = missed[s][c]
      BY <2>4
    <3>2. CASE HasTicket(s)
      BY <1>0, <1>10, <3>1, <3>2 DEF Known, Whole
    <3>3. CASE ~HasTicket(s)
      <4>1. tickets[s][c] = <<>> /\ printed[s][c] = 0 /\ missed[s][c] = 0
        BY <1>0, <3>3 DEF Known, Untold, HasTicket
      <4>2. active[c]
        BY <1>0, <1>10 DEF Open
      <4>3. ~(qty[s][c] > 0)
        BY <2>4, <4>1, <4>2 DEF Unticketed
      <4>4. qty[s][c] = 0 /\ 0 + 0 = 0
        BY <2>1, <4>3
      <4> HIDE DEF N, M
      <4> QED BY <3>1, <4>1, <4>4
    <3> QED BY <3>2, <3>3
  <2> QED BY <2>2, <2>3, <2>4
<1> HIDE DEF T, N, M
<1>11. /\ tickets' \in [Sales -> [Sections -> Seq(TicketStatus)]]
       /\ printed' \in [Sales -> [Sections -> Nat]]
       /\ missed' \in [Sales -> [Sections -> 0..MaxQty]]
       /\ active' \in [Sections -> BOOLEAN]
       /\ \A t \in Sales \ {s} : /\ tickets'[t] = tickets[t] /\ printed'[t] = printed[t]
                                 /\ missed'[t] = missed[t]
  BY <1>0, <1>1, <1>4, <1>5 DEF TypeOK
<1> QED
  BY <1>1, <1>4, <1>6, <1>7, <1>8, <1>9, <1>10, <1>11 DEF Created

(* The whole of create_tickets_for_sale. *)
LEMMA CreateTicketsCreates ==
  ASSUME IInv, NEW s \in Sales, CreateTickets(s)
  PROVE  Created(s)
<1> DEFINE here == {c \in Sections : active[c] /\ qty[s][c] > 0}
<1> USE KitchenAssumption
<1>0. /\ Known(s) /\ Open /\ TypeOK
      /\ qty[s] \in [Sections -> 0..MaxQty] /\ qty[s] \in [Sections -> Nat]
      /\ printed[s] \in [Sections -> Nat] /\ tickets[s] \in [Sections -> Seq(TicketStatus)]
      /\ missed[s] \in [Sections -> 0..MaxQty] /\ cooked[s] \in [Sections -> Nat]
  BY DEF IInv, TypeOK
<1>1. CASE SectionTickets(s, Unticketed(s))
  BY <1>1, SectionTicketsCreate
<1>2. CASE here = {} /\ ~HasTicket(s) /\ GeneralTicket(s)
  <2> DEFINE T == [tickets[s] EXCEPT ![General] = <<"PENDING">>]
  <2>1. /\ tickets' = [tickets EXCEPT ![s] = T] /\ printed' = printed /\ missed' = missed
        /\ active' = [c \in Sections |-> c \in Defaults \/ active[c]]
    BY <1>2 DEF GeneralTicket
  <2>2. /\ General \in Sections
        /\ T \in [Sections -> Seq(TicketStatus)]
        /\ \A c \in Sections : Len(T[c]) <= cooked[s][c] + 1
        /\ T[General] # <<>>
        /\ \A c \in Sections : T[c] = <<>> => tickets[s][c] = <<>>
    BY <1>0 DEF TypeOK, TicketStatus
  <2>3. tickets'[s] = T
    BY <1>0, <2>1 DEF TypeOK
  <2>4. ASSUME NEW c \in Sections
        PROVE  printed[s][c] = 0 /\ missed[s][c] = 0 /\ (c \notin wasOff => qty[s][c] = 0)
    <3>1. c \notin wasOff => qty[s][c] = 0
      BY <1>0, <1>2, <2>4 DEF Open
    <3>2. printed[s][c] = 0 /\ missed[s][c] = 0
      BY <1>0, <1>2 DEF Known, Untold, HasTicket
    <3> QED BY <3>1, <3>2
  <2>5. active' \in [Sections -> BOOLEAN] /\ \A c \in Sections : active[c] => active'[c]
    BY <2>1, <1>0, Zenon DEF TypeOK
  <2> HIDE DEF T
  <2>6. /\ tickets' \in [Sales -> [Sections -> Seq(TicketStatus)]]
        /\ \A t \in Sales \ {s} : tickets'[t] = tickets[t]
    BY <1>0, <2>1, <2>2 DEF TypeOK
  <2>7. \A c \in Sections : printed'[s][c] <= qty[s][c]
    BY <1>0, <2>1 DEF Known, Once
  <2>8. \A c \in Sections \ wasOff : printed'[s][c] + missed'[s][c] = qty[s][c]
    BY <2>1, <2>4
  <2>9. /\ \A c \in Sections : printed'[s][c] = 0 /\ missed'[s][c] = 0
        /\ printed' \in [Sales -> [Sections -> Nat]]
        /\ missed' \in [Sales -> [Sections -> 0..MaxQty]]
        /\ \A t \in Sales \ {s} : printed'[t] = printed[t] /\ missed'[t] = missed[t]
    BY <1>0, <2>1, <2>4 DEF TypeOK
  <2> QED
    BY <2>2, <2>3, <2>5, <2>6, <2>7, <2>8, <2>9 DEF Created
<1>3. CASE UNCHANGED kitchen
  <2>1. \A c \in Sections : Len(tickets[s][c]) <= cooked[s][c] + 1
    BY <1>0 DEF TypeOK
  <2> QED
    BY <1>0, <1>3, <2>1 DEF Created, kitchen, TypeOK, Known, Untold, Whole, Once, HasTicket
<1> QED
  BY <1>1, <1>2, <1>3 DEF CreateTickets

(* The part of it that gets stuck. *)
LEMMA StuckTicketsCreate ==
  ASSUME IInv, NEW s \in Sales, StuckTickets(s)
  PROVE  Created(s)
  BY SectionTicketsCreate DEF StuckTickets

-----------------------------------------------------------------------------
(* An order whose rows do not change stays as it was. *)
LEMMA KnownStays ==
  ASSUME IInv, NEW t \in Sales,
         status'[t] = status[t], sent'[t] = sent[t], qty'[t] = qty[t], cooked'[t] = cooked[t],
         pending'[t] = pending[t], tickets'[t] = tickets[t], printed'[t] = printed[t], missed'[t] = missed[t],
         t \in overtaken => t \in overtaken',
         wasOff \subseteq wasOff'
  PROVE  Known(t)'
<1>1. Known(t)
  BY DEF IInv
<1> QED
  BY <1>1 DEF Known, Quiet, AllSent, Requests, Untold, Whole, Once, HasTicket

(* A step that changes the status of tickets and nothing else of the kitchen. *)
LEMMA TicketStepKeeps ==
  ASSUME IInv, NEW s \in Sales, NEW k \in TicketsOf(tickets, s), NEW st \in TicketStatus,
         tickets' = SetTicket(s, k, st),
         served' \in [Sales -> {"NOBODY", "KITCHEN", "CASHIER", "CUSTOMER"}],
         UNCHANGED <<order, pending, active, printed, missed, past>>
  PROVE  IInv'
<1> DEFINE c0 == k[1]
           i0 == k[2]
<1>0. /\ TypeOK /\ Open /\ Known(s)
      /\ c0 \in Sections /\ i0 \in 1..Len(tickets[s][c0])
      /\ tickets[s] \in [Sections -> Seq(TicketStatus)]
  BY DEF IInv, TicketsOf, TypeOK
<1> DEFINE Q == [tickets[s][c0] EXCEPT ![i0] = st]
<1>1. /\ tickets' = [tickets EXCEPT ![s] = [tickets[s] EXCEPT ![c0] = Q]]
      /\ status' = status /\ sent' = sent /\ qty' = qty /\ cooked' = cooked /\ printed' = printed /\ missed' = missed
      /\ pending' = pending /\ active' = active
      /\ wasOff' = wasOff /\ overtaken' = overtaken
  BY DEF SetTicket, order, past
<1>2. Q \in Seq(TicketStatus) /\ Len(Q) = Len(tickets[s][c0]) /\ Q # <<>> /\ tickets[s][c0] # <<>>
  <2> DEFINE R == tickets[s][c0]
  <2>1. R \in Seq(TicketStatus) /\ i0 \in 1..Len(R)
    BY <1>0
  <2>2. Q = [i \in 1..Len(R) |-> IF i = i0 THEN st ELSE R[i]]
    <3>1. R \in [1..Len(R) -> TicketStatus]
      BY <2>1
    <3> QED BY <2>1, <3>1
  <2> HIDE DEF R, Q
  <2>3. Len(R) \in Nat /\ \A i \in 1..Len(R) : R[i] \in TicketStatus
    BY <2>1
  <2>4. Q \in Seq(TicketStatus) /\ Len(Q) = Len(R)
    BY <2>2, <2>3
  <2> QED BY <2>1, <2>4 DEF R
<1> HIDE DEF Q, c0, i0
<1>3. /\ tickets' \in [Sales -> [Sections -> Seq(TicketStatus)]]
      /\ \A c \in Sections : Len(tickets'[s][c]) = Len(tickets[s][c])
      /\ \A c \in Sections : tickets'[s][c] = <<>> <=> tickets[s][c] = <<>>
      /\ \A t \in Sales \ {s} : tickets'[t] = tickets[t]
  BY <1>0, <1>1, <1>2 DEF TypeOK
<1>4. TypeOK'
  <2>1. \A t \in Sales, c \in Sections : Len(tickets'[t][c]) <= cooked[t][c] + 1
    BY <1>0, <1>3 DEF TypeOK
  <2> QED BY <1>0, <1>1, <1>3, <2>1 DEF TypeOK
<1>5. Known(s)'
  BY <1>0, <1>1, <1>3 DEF Known, Quiet, AllSent, Requests, Untold, Whole, Once, HasTicket
<1>6. \A t \in Sales \ {s} : Known(t)'
  BY <1>1, <1>3, KnownStays
<1>7. Open'
  BY <1>0, <1>1 DEF Open
<1> QED
  BY <1>4, <1>5, <1>6, <1>7 DEF IInv

(* A step of one request of s that creates its tickets: Send, FinishRequest or  *)
(* Repair.                                                                      *)
LEMMA CreateStepKeeps ==
  ASSUME IInv, NEW s \in Sales, Created(s),
         status' = status, qty' = qty, served' = served, wasOff' = wasOff, overtaken' = overtaken,
         sent' \in [Sales -> BOOLEAN],
         cooked' \in [Sales -> [Sections -> 0..MaxQty]],
         pending' \in [Sales -> 0..2],
         \A t \in Sales \ {s} : /\ sent'[t] = sent[t] /\ cooked'[t] = cooked[t]
                                /\ pending'[t] = pending[t],
         \A c \in Sections : cooked'[s][c] >= cooked[s][c],
         (Quiet(s) /\ AllSent(s) /\ Requests(s))',
         status[s] = "COMPLETED" \/ sent'[s]
  PROVE  IInv'
<1>0. TypeOK /\ Open /\ Known(s)
  BY DEF IInv
<1>1. TypeOK'
  <2>1. ASSUME NEW t \in Sales, NEW c \in Sections
        PROVE  Len(tickets'[t][c]) <= cooked'[t][c] + 1
    <3>1. CASE t = s
      <4>1. /\ Len(tickets'[s][c]) <= cooked[s][c] + 1 /\ cooked'[s][c] >= cooked[s][c]
            /\ cooked'[s][c] \in Int /\ cooked[s][c] \in Int
            /\ Len(tickets'[s][c]) \in Int
        BY <1>0, KitchenAssumption DEF Created, TypeOK
      <4> QED BY <3>1, <4>1
    <3>2. CASE t # s
      <4>1. tickets'[t] = tickets[t] /\ cooked'[t] = cooked[t]
        BY <3>2 DEF Created
      <4> QED BY <4>1, <1>0 DEF TypeOK
    <3> QED BY <3>1, <3>2
  <2> QED BY <1>0, <2>1 DEF TypeOK, Created
<1>2. Known(s)'
  <2>1. Untold(s)' /\ Whole(s)' /\ Once(s)'
    BY DEF Created, Untold, Whole, Once, HasTicket
  <2> QED BY <2>1 DEF Known
<1>3. ASSUME NEW t \in Sales \ {s} PROVE Known(t)'
  BY KnownStays DEF Created
<1>4. Open'
  BY <1>0 DEF Open, Created
<1> QED
  BY <1>1, <1>2, <1>3, <1>4 DEF IInv

(* The second transaction of a request, whole or stuck. *)
LEMMA SecondTransactionKeeps ==
  ASSUME IInv, NEW s \in Sales, Created(s),
         pending[s] > 0, pending' = [pending EXCEPT ![s] = @ - 1],
         status' = status, sent' = sent, qty' = qty, cooked' = cooked, served' = served,
         wasOff' = wasOff, overtaken' = overtaken
  PROVE  IInv'
<1> USE KitchenAssumption
<1>0. TypeOK /\ Known(s)
  BY DEF IInv
<1>1. /\ pending' \in [Sales -> 0..2] /\ pending'[s] = pending[s] - 1 /\ pending[s] \in 1..2
      /\ \A t \in Sales \ {s} : pending'[t] = pending[t]
  BY <1>0 DEF TypeOK
<1>2. status[s] = "COMPLETED" \/ sent[s]
  <2>1. status[s] \in SaleStatus
    BY <1>0 DEF TypeOK
  <2> QED BY <1>0, <2>1 DEF Known, Quiet, SaleStatus
<1>3. (Quiet(s) /\ AllSent(s) /\ Requests(s))'
  BY <1>0, <1>1, <1>2 DEF Known, Quiet, AllSent, Requests
<1>4. /\ sent' \in [Sales -> BOOLEAN] /\ cooked' \in [Sales -> [Sections -> 0..MaxQty]]
      /\ \A c \in Sections : cooked'[s][c] >= cooked[s][c]
  BY <1>0 DEF TypeOK
<1> QED BY <1>1, <1>2, <1>3, <1>4, CreateStepKeeps

(* The repair, whole or stuck. *)
LEMMA RepairKeeps ==
  ASSUME IInv, NEW s \in Sales, Created(s), sent[s],
         status' = status, sent' = sent, qty' = qty, cooked' = cooked, served' = served,
         pending' = pending, wasOff' = wasOff, overtaken' = overtaken
  PROVE  IInv'
<1> USE KitchenAssumption
<1>0. TypeOK /\ Known(s)
  BY DEF IInv
<1>1. (Quiet(s) /\ AllSent(s) /\ Requests(s))'
  BY <1>0 DEF Known, Quiet, AllSent, Requests
<1>2. /\ sent' \in [Sales -> BOOLEAN] /\ cooked' \in [Sales -> [Sections -> 0..MaxQty]]
      /\ pending' \in [Sales -> 0..2]
      /\ \A c \in Sections : cooked'[s][c] >= cooked[s][c]
  BY <1>0 DEF TypeOK
<1> QED BY <1>1, <1>2, CreateStepKeeps

-----------------------------------------------------------------------------
LEMMA KitchenInit == Init => IInv
<1> SUFFICES ASSUME Init PROVE IInv
  OBVIOUS
<1> USE KitchenAssumption
<1>1. <<>> \in Seq(TicketStatus) /\ Len(<<>>) = 0
  OBVIOUS
<1>2. TypeOK
  BY <1>1 DEF Init, TypeOK, Zero, SaleStatus
<1>3. ASSUME NEW s \in Sales PROVE Known(s)
  BY DEF Init, Known, Quiet, AllSent, Requests, Untold, Whole, Once, HasTicket, Zero
<1>4. Open
  BY DEF Init, Open
<1> QED
  BY <1>2, <1>3, <1>4 DEF IInv

LEMMA AddLineKeeps ==
  ASSUME IInv, NEW s \in Sales, NEW c \in Sections, NEW n \in 1..MaxQty, AddLine(s, c, n)
  PROVE  IInv'
<1> DEFINE q == [qty[s] EXCEPT ![c] = @ + n]
<1> USE KitchenAssumption
<1>0. /\ TypeOK /\ Open /\ Known(s)
      /\ qty[s] \in [Sections -> 0..MaxQty] /\ cooked[s] \in [Sections -> 0..MaxQty]
      /\ printed[s] \in [Sections -> Nat] /\ tickets[s] \in [Sections -> Seq(TicketStatus)]
      /\ missed[s] \in [Sections -> 0..MaxQty]
  BY DEF IInv, TypeOK
<1>1. /\ status[s] = "DRAFT" /\ status' = status /\ sent' = sent /\ served' = served
      /\ pending' = pending /\ active' = active /\ missed' = missed /\ wasOff' = wasOff
      /\ qty' = [qty EXCEPT ![s] = q]
      /\ overtaken' = IF sent[s] /\ ~HasTicket(s) THEN overtaken \cup {s} ELSE overtaken
  BY DEF AddLine
<1>2. q \in [Sections -> 0..MaxQty] /\ \A d \in Sections : q[d] >= qty[s][d]
  <2>1. qty[s][c] \in 0..MaxQty
    BY <1>0
  <2>n. qty[s][c] + n <= MaxQty
    BY DEF AddLine
  <2>2. qty[s][c] + n \in 0..MaxQty /\ qty[s][c] + n >= qty[s][c]
    BY <2>1, <2>n
  <2>3. qty[s] \in [Sections -> 0..MaxQty] /\ \A d \in Sections : qty[s][d] \in Int
    BY <1>0
  <2>4. q \in [Sections -> 0..MaxQty]
    BY <2>2, <2>3
  <2>5. ASSUME NEW d \in Sections PROVE q[d] >= qty[s][d]
    <3>1. q[d] = IF d = c THEN qty[s][c] + n ELSE qty[s][d]
      BY <2>3
    <3>2. qty[s][d] >= qty[s][d]
      BY <2>3
    <3> HIDE DEF q
    <3> QED BY <2>2, <3>1, <3>2
  <2> QED
    BY <2>4, <2>5
<1> HIDE DEF q
<1>3. qty' \in [Sales -> [Sections -> 0..MaxQty]] /\ qty'[s] = q /\ overtaken' \subseteq Sales
      /\ \A t \in Sales \ {s} : qty'[t] = qty[t]
  BY <1>0, <1>1, <1>2 DEF TypeOK
<1>4. CASE sent[s] /\ Supplement(s, q)
  <2> DEFINE here == {d \in Sections : q[d] > cooked[s][d] /\ active[d]}
             T == [d \in Sections |-> IF d \in here THEN Append(tickets[s][d], "PENDING")
                                      ELSE tickets[s][d]]
             N == [d \in Sections |-> IF d \in here THEN printed[s][d] + (q[d] - cooked[s][d])
                                      ELSE printed[s][d]]
  <2>1. /\ tickets' = [tickets EXCEPT ![s] = T] /\ printed' = [printed EXCEPT ![s] = N]
        /\ cooked' = [cooked EXCEPT ![s] = q]
    BY <1>4 DEF Supplement
  <2>2. /\ T \in [Sections -> Seq(TicketStatus)]
        /\ \A d \in Sections : Len(T[d]) <= q[d] + 1
    <3>1. "PENDING" \in TicketStatus
      BY DEF TicketStatus
    <3>2. ASSUME NEW d \in Sections
          PROVE  T[d] \in Seq(TicketStatus) /\ Len(T[d]) <= q[d] + 1
      <4>1. /\ tickets[s][d] \in Seq(TicketStatus) /\ Len(tickets[s][d]) <= cooked[s][d] + 1
            /\ cooked[s][d] = qty[s][d] /\ q[d] \in Int /\ qty[s][d] \in Int
            /\ Len(tickets[s][d]) \in Int /\ q[d] >= qty[s][d]
        BY <1>0, <1>2, <1>4 DEF TypeOK, Known, AllSent
      <4>2. /\ Append(tickets[s][d], "PENDING") \in Seq(TicketStatus)
            /\ Len(Append(tickets[s][d], "PENDING")) = Len(tickets[s][d]) + 1
        BY <3>1, <4>1
      <4> QED BY <4>1, <4>2
    <3> QED BY <3>2
  <2>3. N \in [Sections -> Nat]
    <3>1. \A d \in Sections : printed[s][d] \in Nat /\ q[d] \in Nat /\ cooked[s][d] \in Nat
      <4>1. printed[s] \in [Sections -> Nat] /\ cooked[s] \in [Sections -> 0..MaxQty]
        BY <1>0 DEF TypeOK
      <4>2. 0..MaxQty \subseteq Nat
        OBVIOUS
      <4> QED BY <1>2, <4>1, <4>2
    <3>2. ASSUME NEW d \in Sections PROVE N[d] \in Nat
      <4>1. CASE d \in here
        BY <3>1, <4>1
      <4>2. CASE d \notin here
        BY <3>1, <4>2
      <4> QED BY <4>1, <4>2
    <3> QED BY <3>2
  <2>13. ASSUME NEW d \in Sections PROVE Append(tickets[s][d], "PENDING") # <<>>
    <3>1. tickets[s][d] \in Seq(TicketStatus) /\ "PENDING" \in TicketStatus
      BY <1>0 DEF TicketStatus
    <3> QED BY <3>1
  <2>4. \A d \in Sections : T[d] = <<>> => tickets[s][d] = <<>> /\ N[d] = printed[s][d]
    BY <2>13
  <2>5. \A d \in Sections : tickets[s][d] # <<>> => T[d] # <<>>
    BY <2>13
  <2>6. /\ tickets'[s] = T /\ printed'[s] = N /\ cooked'[s] = q
        /\ tickets' \in [Sales -> [Sections -> Seq(TicketStatus)]]
        /\ printed' \in [Sales -> [Sections -> Nat]]
        /\ cooked' \in [Sales -> [Sections -> 0..MaxQty]]
        /\ \A t \in Sales \ {s} : tickets'[t] = tickets[t] /\ printed'[t] = printed[t] /\ cooked'[t] = cooked[t]
    <3> HIDE DEF T, N
    <3> QED BY <1>0, <1>2, <2>1, <2>2, <2>3 DEF TypeOK
  <2>7. ASSUME s \notin overtaken', NEW d \in Sections, d \notin wasOff
        PROVE  N[d] + missed[s][d] = q[d]
    <3>1. s \notin overtaken /\ HasTicket(s)
      BY <1>1, <1>4, <2>7
    <3>2. printed[s][d] + missed[s][d] = qty[s][d] /\ cooked[s][d] = qty[s][d] /\ active[d]
      BY <1>0, <1>4, <2>7, <3>1 DEF Known, Whole, AllSent, Open
    <3>3. d \in here <=> q[d] > qty[s][d]
      BY <3>2
    <3>4. /\ q[d] \in Nat /\ qty[s][d] \in Nat /\ q[d] >= qty[s][d]
          /\ printed[s][d] \in Nat /\ missed[s][d] \in Nat
      <4>1. /\ q[d] \in 0..MaxQty /\ qty[s][d] \in 0..MaxQty
            /\ printed[s][d] \in Nat /\ missed[s][d] \in 0..MaxQty
        BY <1>0, <1>2
      <4>2. q[d] >= qty[s][d]
        BY <1>2
      <4> QED BY <4>1, <4>2
    <3>5. CASE d \in here
      BY <3>2, <3>4, <3>5
    <3>6. CASE d \notin here
      BY <3>2, <3>3, <3>4, <3>6
    <3> QED BY <3>5, <3>6
  <2>8. \A d \in Sections : N[d] <= q[d]
    <3>1. ASSUME NEW d \in Sections
          PROVE  N[d] <= q[d]
      <4>1. cooked[s][d] = qty[s][d] /\ printed[s][d] <= qty[s][d]
        BY <1>0, <1>4 DEF Known, AllSent, Once
      <4>2. printed[s][d] \in Nat /\ qty[s][d] \in 0..MaxQty
        BY <1>0
      <4>3. q[d] \in 0..MaxQty /\ q[d] >= qty[s][d]
        BY <1>2
      <4> QED BY <4>1, <4>2, <4>3
    <3> QED BY <3>1
  <2> HIDE DEF T, N, here
  <2>9. TypeOK'
    <3>1. \A t \in Sales, d \in Sections : Len(tickets'[t][d]) <= cooked'[t][d] + 1
      BY <1>0, <2>2, <2>6 DEF TypeOK
    <3> QED BY <1>0, <1>1, <1>3, <2>6, <3>1 DEF TypeOK
  <2>10. Known(s)'
    <3>1. Quiet(s)' /\ AllSent(s)' /\ Requests(s)'
      BY <1>0, <1>1, <1>3, <1>4, <2>6 DEF Known, Quiet, AllSent, Requests
    <3>2. Untold(s)'
      BY <1>0, <1>1, <2>4, <2>5, <2>6 DEF Known, Untold, HasTicket
    <3>3. Whole(s)'
      BY <1>1, <1>3, <2>6, <2>7 DEF Whole
    <3>4. Once(s)'
      BY <1>1, <1>3, <2>6, <2>8 DEF Once
    <3> QED BY <3>1, <3>2, <3>3, <3>4 DEF Known
  <2>11. ASSUME NEW t \in Sales \ {s} PROVE Known(t)'
    BY <1>1, <1>3, <2>6, KnownStays
  <2>12. Open'
    BY <1>0, <1>1 DEF Open
  <2> QED BY <2>9, <2>10, <2>11, <2>12 DEF IInv
<1>5. CASE ~sent[s] /\ UNCHANGED <<cooked, tickets, printed>>
  <2>1. TypeOK'
    BY <1>0, <1>1, <1>3, <1>5 DEF TypeOK
  <2>2. Known(s)'
    <3>1. \A d \in Sections : tickets[s][d] = <<>> /\ printed[s][d] = 0 /\ missed[s][d] = 0
      BY <1>0, <1>1, <1>5 DEF Known, Quiet, Untold, HasTicket
    <3> QED BY <1>0, <1>1, <1>2, <1>3, <1>5, <3>1
            DEF Known, Quiet, AllSent, Requests, Untold, Whole, Once, HasTicket
  <2>3. ASSUME NEW t \in Sales \ {s} PROVE Known(t)'
    BY <1>1, <1>3, <1>5, KnownStays
  <2>4. Open'
    BY <1>0, <1>1 DEF Open
  <2> QED BY <2>1, <2>2, <2>3, <2>4 DEF IInv
<1> QED
  BY <1>4, <1>5 DEF AddLine, q

LEMMA StepKeeps == IInv /\ [Next]_vars => IInv'
<1> SUFFICES ASSUME IInv, [Next]_vars PROVE IInv'
  OBVIOUS
<1> USE KitchenAssumption
<1>0. TypeOK /\ Open /\ \A s \in Sales : Known(s)
  BY DEF IInv
<1>1. ASSUME NEW s \in Sales, NEW c \in Sections, NEW n \in 1..MaxQty, AddLine(s, c, n)
      PROVE  IInv'
  BY <1>1, AddLineKeeps
<1>2. ASSUME NEW s \in Sales, NEW c \in Sections, NEW n \in 1..MaxQty, ReduceLine(s, c, n)
      PROVE  IInv'
  <2>1. /\ status[s] = "DRAFT" /\ qty[s][c] - n >= cooked[s][c]
        /\ qty' = [qty EXCEPT ![s][c] = @ - n]
        /\ status' = status /\ sent' = sent /\ cooked' = cooked /\ served' = served
        /\ pending' = pending /\ tickets' = tickets /\ active' = active /\ printed' = printed /\ missed' = missed
        /\ wasOff' = wasOff /\ overtaken' = overtaken
    BY <1>2 DEF ReduceLine, kitchen, past
  <2>2. /\ qty[s][c] \in 0..MaxQty /\ cooked[s][c] \in 0..MaxQty /\ n \in Nat \ {0}
        /\ Known(s)
    BY <1>0 DEF TypeOK
  <2>3. ~sent[s]
    BY <2>1, <2>2 DEF Known, AllSent
  <2>4. qty' \in [Sales -> [Sections -> 0..MaxQty]] /\ \A t \in Sales \ {s} : qty'[t] = qty[t]
    <3>1. qty \in [Sales -> [Sections -> 0..MaxQty]]
      BY <1>0 DEF TypeOK
    <3>2. qty[s][c] - n \in 0..MaxQty
      BY <2>1, <2>2
    <3>3. [qty[s] EXCEPT ![c] = qty[s][c] - n] \in [Sections -> 0..MaxQty]
      BY <3>1, <3>2
    <3>4. qty' = [qty EXCEPT ![s] = [qty[s] EXCEPT ![c] = qty[s][c] - n]]
      BY <2>1
    <3> QED BY <3>1, <3>3, <3>4
  <2>5. TypeOK'
    BY <1>0, <2>1, <2>4 DEF TypeOK
  <2>6. Known(s)'
    <3>1. \A d \in Sections : tickets[s][d] = <<>> /\ printed[s][d] = 0 /\ missed[s][d] = 0
      BY <2>1, <2>2, <2>3 DEF Known, Quiet, Untold, HasTicket
    <3>2. qty'[s] \in [Sections -> 0..MaxQty]
      BY <2>4
    <3> HIDE DEF TypeOK
    <3> QED BY <2>1, <2>2, <2>3, <3>1, <3>2
            DEF Known, Quiet, AllSent, Requests, Untold, Whole, Once, HasTicket
  <2>7. ASSUME NEW t \in Sales \ {s} PROVE Known(t)'
    BY <2>1, <2>4, KnownStays
  <2>8. Open'
    BY <1>0, <2>1 DEF Open
  <2> QED BY <2>5, <2>6, <2>7, <2>8 DEF IInv
<1>3. ASSUME NEW s \in Sales, Send(s) PROVE IInv'
  <2>1. /\ status[s] = "DRAFT" /\ ~sent[s]
        /\ sent' = [sent EXCEPT ![s] = TRUE] /\ cooked' = [cooked EXCEPT ![s] = qty[s]]
        /\ status' = status /\ qty' = qty /\ served' = served
        /\ wasOff' = wasOff /\ overtaken' = overtaken
    BY <1>3 DEF Send
  <2>2. /\ sent' \in [Sales -> BOOLEAN] /\ sent'[s]
        /\ cooked' \in [Sales -> [Sections -> 0..MaxQty]] /\ cooked'[s] = qty[s]
        /\ \A t \in Sales \ {s} : sent'[t] = sent[t] /\ cooked'[t] = cooked[t]
    BY <1>0, <2>1 DEF TypeOK
  <2>3. /\ pending[s] = 0 /\ \A c \in Sections : cooked[s][c] = 0 /\ tickets[s][c] = <<>>
        /\ \A c \in Sections : printed[s][c] = 0 /\ missed[s][c] = 0
        /\ ~HasTicket(s)
    BY <1>0, <2>1 DEF Known, Quiet, Untold, HasTicket
  <2>4. \A c \in Sections : cooked'[s][c] >= cooked[s][c]
    BY <1>0, <2>2, <2>3 DEF TypeOK
  <2>5. CASE CreateTickets(s) /\ UNCHANGED pending
    <3>1. Created(s)
      BY <2>5, CreateTicketsCreates
    <3>2. (Quiet(s) /\ AllSent(s) /\ Requests(s))'
      BY <2>1, <2>2, <2>3, <2>5 DEF Quiet, AllSent, Requests
    <3>3. /\ pending' \in [Sales -> 0..2] /\ \A t \in Sales \ {s} : pending'[t] = pending[t]
      BY <1>0, <2>5 DEF TypeOK
    <3> QED BY <2>1, <2>2, <2>4, <3>1, <3>2, <3>3, CreateStepKeeps
  <2>6. CASE pending' = [pending EXCEPT ![s] = @ + 1] /\ UNCHANGED kitchen
    <3>1. Created(s)
      BY <1>0, <2>3, <2>6 DEF Created, kitchen, TypeOK
    <3>2. /\ pending' \in [Sales -> 0..2] /\ pending'[s] = 1
          /\ \A t \in Sales \ {s} : pending'[t] = pending[t]
      BY <1>0, <2>3, <2>6 DEF TypeOK
    <3>3. (Quiet(s) /\ AllSent(s) /\ Requests(s))'
      BY <2>1, <2>2, <3>2 DEF Quiet, AllSent, Requests
    <3> QED BY <2>1, <2>2, <2>4, <3>1, <3>2, <3>3, CreateStepKeeps
  <2> QED BY <1>3, <2>5, <2>6 DEF Send
<1>4. ASSUME NEW s \in Sales, Pay(s) PROVE IInv'
  <2>1. /\ status[s] = "DRAFT" /\ status' = [status EXCEPT ![s] = "COMPLETED"]
        /\ pending' = [pending EXCEPT ![s] = @ + 1]
        /\ sent' = sent /\ qty' = qty /\ cooked' = cooked /\ served' = served
        /\ tickets' = tickets /\ active' = active /\ printed' = printed /\ missed' = missed
        /\ wasOff' = wasOff /\ overtaken' = overtaken
    BY <1>4 DEF Pay, kitchen, past
  <2>2. /\ status' \in [Sales -> SaleStatus] /\ status'[s] = "COMPLETED"
        /\ pending[s] \in 0..1 /\ pending'[s] = pending[s] + 1
        /\ pending' \in [Sales -> 0..2]
        /\ \A t \in Sales \ {s} : status'[t] = status[t] /\ pending'[t] = pending[t]
    <3>1. pending[s] \in 0..1
      <4>1. pending[s] \in 0..2 /\ Requests(s) /\ status[s] # "COMPLETED"
        BY <1>0, <2>1 DEF Known, TypeOK
      <4> QED BY <4>1 DEF Requests
    <3> QED BY <1>0, <2>1, <3>1 DEF TypeOK, SaleStatus
  <2>3. TypeOK'
    BY <1>0, <2>1, <2>2 DEF TypeOK
  <2>4. Known(s)'
    <3>1. Requests(s)' /\ Quiet(s)' /\ AllSent(s)'
      BY <1>0, <2>1, <2>2 DEF Known, Requests, Quiet, AllSent
    <3>2. Untold(s)' /\ Whole(s)' /\ Once(s)'
      BY <1>0, <2>1 DEF Known, Untold, Whole, Once, HasTicket
    <3> QED BY <3>1, <3>2 DEF Known
  <2>5. ASSUME NEW t \in Sales \ {s} PROVE Known(t)'
    BY <2>1, <2>2, KnownStays
  <2>6. Open'
    BY <1>0, <2>1 DEF Open
  <2> QED BY <2>3, <2>4, <2>5, <2>6 DEF IInv
<1>5. ASSUME NEW s \in Sales, FinishRequest(s) PROVE IInv'
  <2>1. /\ pending[s] > 0 /\ pending' = [pending EXCEPT ![s] = @ - 1]
        /\ status' = status /\ sent' = sent /\ qty' = qty /\ cooked' = cooked /\ served' = served
        /\ wasOff' = wasOff /\ overtaken' = overtaken
    BY <1>5 DEF FinishRequest, order
  <2>2. Created(s)
    BY <1>5, CreateTicketsCreates DEF FinishRequest
  <2> QED BY <2>1, <2>2, SecondTransactionKeeps
<1>12. ASSUME NEW s \in Sales, FinishRequestStuck(s) PROVE IInv'
  <2>1. /\ pending[s] > 0 /\ pending' = [pending EXCEPT ![s] = @ - 1]
        /\ status' = status /\ sent' = sent /\ qty' = qty /\ cooked' = cooked /\ served' = served
        /\ wasOff' = wasOff /\ overtaken' = overtaken
    BY <1>12 DEF FinishRequestStuck, order, past
  <2>2. Created(s)
    BY <1>12, StuckTicketsCreate DEF FinishRequestStuck
  <2> QED BY <2>1, <2>2, SecondTransactionKeeps
<1>6. ASSUME NEW s \in Sales, LoseRequest(s) PROVE IInv'
  <2>1. /\ pending[s] > 0 /\ pending' = [pending EXCEPT ![s] = @ - 1]
        /\ status' = status /\ sent' = sent /\ qty' = qty /\ cooked' = cooked /\ served' = served
        /\ tickets' = tickets /\ active' = active /\ printed' = printed /\ missed' = missed
        /\ wasOff' = wasOff /\ overtaken' = overtaken
    BY <1>6 DEF LoseRequest, order, kitchen, past
  <2>2. /\ pending' \in [Sales -> 0..2] /\ pending'[s] = pending[s] - 1 /\ pending[s] \in 1..2
        /\ \A t \in Sales \ {s} : pending'[t] = pending[t]
    BY <1>0, <2>1 DEF TypeOK
  <2>3. TypeOK'
    BY <1>0, <2>1, <2>2 DEF TypeOK
  <2>4. Known(s)'
    <3>1. Requests(s)' /\ Quiet(s)' /\ AllSent(s)'
      BY <1>0, <2>1, <2>2 DEF Known, Requests, Quiet, AllSent
    <3>2. Untold(s)' /\ Whole(s)' /\ Once(s)'
      BY <1>0, <2>1 DEF Known, Untold, Whole, Once, HasTicket
    <3> QED BY <3>1, <3>2 DEF Known
  <2>5. ASSUME NEW t \in Sales \ {s} PROVE Known(t)'
    BY <2>1, <2>2, KnownStays
  <2>6. Open'
    BY <1>0, <2>1 DEF Open
  <2> QED BY <2>3, <2>4, <2>5, <2>6 DEF IInv
<1>7. ASSUME NEW s \in Sales, Repair(s) PROVE IInv'
  <2>1. /\ sent[s]
        /\ status' = status /\ sent' = sent /\ qty' = qty /\ cooked' = cooked /\ served' = served
        /\ pending' = pending /\ wasOff' = wasOff /\ overtaken' = overtaken
    BY <1>7 DEF Repair, order
  <2>2. Created(s)
    BY <1>7, CreateTicketsCreates DEF Repair
  <2> QED BY <2>1, <2>2, RepairKeeps
<1>13. ASSUME NEW s \in Sales, RepairStuck(s) PROVE IInv'
  <2>1. /\ sent[s]
        /\ status' = status /\ sent' = sent /\ qty' = qty /\ cooked' = cooked /\ served' = served
        /\ pending' = pending /\ wasOff' = wasOff /\ overtaken' = overtaken
    BY <1>13 DEF RepairStuck, order, past
  <2>2. Created(s)
    BY <1>13, StuckTicketsCreate DEF RepairStuck
  <2> QED BY <2>1, <2>2, RepairKeeps
<1>8. ASSUME NEW s \in Sales, MarkServed(s) \/ ConfirmReceipt(s) PROVE IInv'
  <2>1. /\ served' \in [Sales -> {"NOBODY", "KITCHEN", "CASHIER", "CUSTOMER"}]
        /\ status' = status /\ sent' = sent /\ qty' = qty /\ cooked' = cooked
        /\ pending' = pending /\ tickets' = tickets /\ active' = active /\ printed' = printed /\ missed' = missed
        /\ wasOff' = wasOff /\ overtaken' = overtaken
    BY <1>0, <1>8 DEF MarkServed, ConfirmReceipt, order, kitchen, past, TypeOK
  <2>2. TypeOK'
    BY <1>0, <2>1 DEF TypeOK
  <2>3. ASSUME NEW t \in Sales PROVE Known(t)'
    BY <2>1, KnownStays
  <2>4. Open'
    BY <1>0, <2>1 DEF Open
  <2> QED BY <2>2, <2>3, <2>4 DEF IInv
<1>9. ASSUME NEW s \in Sales, NEW k \in TicketsOf(tickets, s),
             Advance(s, k) \/ Reject(s, k) \/ Reset(s, k)
      PROVE  IInv'
  <2> DEFINE old == tickets[s][k[1]][k[2]]
  <2>1. old \in TicketStatus
    BY <1>0 DEF TicketsOf, TypeOK
  <2>2. After(old) \in TicketStatus /\ "CANCELLED" \in TicketStatus /\ "PENDING" \in TicketStatus
    BY <2>1 DEF After, TicketStatus
  <2>3. served' \in [Sales -> {"NOBODY", "KITCHEN", "CASHIER", "CUSTOMER"}]
    BY <1>0, <1>9 DEF Advance, Reject, Reset, SyncServed, TypeOK
  <2>4. UNCHANGED <<order, pending, active, printed, missed, past>>
    BY <1>9 DEF Advance, Reject, Reset
  <2>5. \E st \in TicketStatus : tickets' = SetTicket(s, k, st)
    BY <1>9, <2>2 DEF Advance, Reject, Reset
  <2> QED BY <2>3, <2>4, <2>5, TicketStepKeeps
<1>10. ASSUME NEW c \in Sections, NEW opened \in BOOLEAN, SaveSection(c, opened) PROVE IInv'
  <2>1. /\ active' = [active EXCEPT ![c] = opened]
        /\ wasOff' = IF opened THEN wasOff ELSE wasOff \cup {c}
        /\ status' = status /\ sent' = sent /\ qty' = qty /\ cooked' = cooked /\ served' = served
        /\ pending' = pending /\ tickets' = tickets /\ printed' = printed /\ missed' = missed
        /\ overtaken' = overtaken
    BY <1>10 DEF SaveSection, order
  <2>2. wasOff \subseteq wasOff' /\ wasOff' \subseteq Sections /\ active' \in [Sections -> BOOLEAN]
    BY <1>0, <2>1 DEF TypeOK
  <2>3. TypeOK'
    BY <1>0, <2>1, <2>2 DEF TypeOK
  <2>4. ASSUME NEW t \in Sales PROVE Known(t)'
    BY <2>1, <2>2, KnownStays
  <2>5. Open'
    BY <1>0, <2>1, <2>2 DEF Open, TypeOK
  <2> QED BY <2>3, <2>4, <2>5 DEF IInv
<1>11. CASE UNCHANGED vars
  BY <1>0, <1>11 DEF vars, order, kitchen, past, IInv, TypeOK, Open, Known, Quiet, AllSent,
                     Requests, Untold, Whole, Once, HasTicket
<1> QED
  BY <1>1, <1>2, <1>3, <1>4, <1>5, <1>6, <1>7, <1>8, <1>9, <1>10, <1>11, <1>12, <1>13 DEF Next

LEMMA KitchenInvariant == Spec => []IInv
  BY KitchenInit, StepKeeps, PTL DEF Spec

(* Every order, ticket, section and history variable keeps its type, and no     *)
(* section has more tickets of an order than its quantity explains.             *)
THEOREM KitchenTyped == Spec => []TypeOK
<1>1. IInv => TypeOK
  BY DEF IInv
<1> QED
  BY <1>1, KitchenInvariant, PTL

(* Once an order has a ticket, the papers of every section that was always      *)
(* active ask for what the order sells of it, whichever handler printed them    *)
(* and whatever failed, but for the lines that a creation of tickets which got  *)
(* stuck had not come to (kds/service.py:325-358).                              *)
THEOREM KitchenToldAll == Spec => []WholeOrderInKitchen
<1>1. IInv => WholeOrderInKitchen
  BY DEF IInv, Known, Whole, WholeOrderInKitchen
<1> QED
  BY <1>1, KitchenInvariant, PTL

(* The papers of an order never ask a section for more than the order sells of  *)
(* it, however often their creation got stuck and was run again.                *)
THEOREM KitchenPrintedOnce == Spec => []NothingPrintedTwice
<1>1. IInv => NothingPrintedTwice
  BY DEF IInv, Known, Once, NothingPrintedTwice
<1> QED
  BY <1>1, KitchenInvariant, PTL

(* Half of a set that has members has members. *)
LEMMA ServedTicketExists ==
  ASSUME NEW t, NEW s, AllTicketsServed(t, s)
  PROVE  WithStatus(t, s, "SERVED") # {}
<1>1. IsFiniteSet(TicketsOf(t, s))
  <2>1. MaxQty + 1 \in Int /\ 1 \in Int
    BY KitchenAssumption
  <2>2. IsFiniteSet(1 .. MaxQty + 1)
    BY <2>1, FS_Interval
  <2>3. IsFiniteSet(Sections \X (1 .. MaxQty + 1))
    BY <2>2, KitchenAssumption, FS_Product
  <2> QED BY <2>3, FS_Subset DEF TicketsOf
<1>2. Cardinality(TicketsOf(t, s)) \in Nat /\ Cardinality(TicketsOf(t, s)) # 0
  BY <1>1, FS_CardinalityType, FS_EmptySet DEF AllTicketsServed
<1>3. Cardinality({}) = 0
  BY FS_EmptySet
<1> QED
  BY <1>2, <1>3 DEF AllTicketsServed

(* No order is marked served by the kitchen or the cashier before one of its    *)
(* tickets is.                                                                  *)
THEOREM KitchenServes == Spec => NotServedUnprepared
<1> DEFINE P == \A s \in Sales :
               served[s] = "NOBODY" /\ served'[s] \in {"KITCHEN", "CASHIER"}
                 => WithStatus(tickets', s, "SERVED") # {}
<1>1. ASSUME IInv, [Next]_vars PROVE [P]_vars
  <2> SUFFICES ASSUME Next, NEW s \in Sales, served[s] = "NOBODY",
                      served'[s] \in {"KITCHEN", "CASHIER"}
               PROVE  AllTicketsServed(tickets', s)
    BY <1>1, ServedTicketExists
  <2>0. served \in [Sales -> {"NOBODY", "KITCHEN", "CASHIER", "CUSTOMER"}]
    BY <1>1 DEF IInv, TypeOK
  <2>1. ASSUME NEW d \in Sales, MarkServed(d) PROVE AllTicketsServed(tickets', s)
    <3>1. s = d /\ tickets' = tickets
      BY <2>0, <2>1 DEF MarkServed, kitchen
    <3> QED BY <2>1, <3>1 DEF MarkServed
  <2>2. ASSUME NEW d \in Sales, NEW k, Advance(d, k) \/ Reject(d, k)
        PROVE  AllTicketsServed(tickets', s)
    BY <2>0, <2>2 DEF Advance, Reject, SyncServed
  <2>3. ASSUME NEW d \in Sales, ConfirmReceipt(d) PROVE FALSE
    BY <2>0, <2>3 DEF ConfirmReceipt
  <2>4. served' # served
    OBVIOUS
  <2>5. \E d \in Sales :
          \/ MarkServed(d) \/ ConfirmReceipt(d)
          \/ \E k \in TicketsOf(tickets, d) : Advance(d, k) \/ Reject(d, k)
    <3>1. ASSUME NEW d \in Sales, Send(d) \/ Pay(d) PROVE served' = served
      BY <3>1 DEF Send, Pay
    <3>2. ASSUME NEW d \in Sales,
                 FinishRequest(d) \/ FinishRequestStuck(d) \/ LoseRequest(d) \/ Repair(d) \/ RepairStuck(d)
          PROVE  served' = served
      BY <3>2 DEF FinishRequest, FinishRequestStuck, LoseRequest, Repair, RepairStuck
    <3>3. ASSUME NEW d \in Sales, NEW k, Reset(d, k) PROVE served' = served
      BY <3>3 DEF Reset
    <3>4. ASSUME NEW d \in Sales, NEW c, NEW n, AddLine(d, c, n) \/ ReduceLine(d, c, n)
          PROVE  served' = served
      BY <3>4 DEF AddLine, ReduceLine
    <3>5. ASSUME NEW c, NEW b, SaveSection(c, b) PROVE served' = served
      BY <3>5 DEF SaveSection
    <3> QED
      BY <2>4, <3>1, <3>2, <3>3, <3>4, <3>5 DEF Next
  <2> QED
    BY <2>1, <2>2, <2>3, <2>5
<1> QED
  BY <1>1, KitchenInvariant, PTL DEF Spec, NotServedUnprepared
================================================================================
