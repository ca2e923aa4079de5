------------------------------- MODULE MCRooms -------------------------------
(* RoomBookings on small instances. *)
EXTENDS RoomBookings, TLC

Symmetry == Permutations(RoomId) \cup Permutations(BookingId) \cup Permutations(Number)
=============================================================================
