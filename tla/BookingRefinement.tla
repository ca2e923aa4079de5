--------------------------- MODULE BookingRefinement ---------------------------
(* The bookings of a property, seen as the calendar that they promise. *)
EXTENDS RoomBookings

\* What a row says: whether its nights are still wanted, and which they are.
EntryState(status) == IF status \in Active THEN "open" ELSE status

NightsOf(row) ==
    IF row.status = "none" THEN {} ELSE {row.room} \X (row.stay[1] .. row.stay[2] - 1)

EntryOf(row) == [state |-> EntryState(row.status), nights |-> NightsOf(row)]

Entries == [b \in BookingId |-> EntryOf(bookings[b])]

Calendar == INSTANCE BookingCalendar WITH entry <- Entries

\* Served one request at a time, the rooms' handlers keep the calendar: what one
\* has checked is still true when it commits, so every commit is one step of it.
ImplementsCalendar == Calendar!Spec
=============================================================================
