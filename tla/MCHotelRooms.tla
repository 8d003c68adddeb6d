----------------------------- MODULE MCHotelRooms -----------------------------
(* Instances of HotelRooms for TLC. *)
EXTENDS HotelRooms, TLC

CONSTANTS r1, r2

Symmetry == Permutations({r1, r2} \cap Rooms)
===============================================================================
