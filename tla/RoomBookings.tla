----------------------------- MODULE RoomBookings -----------------------------
(***************************************************************************)
(* The rooms of one property and their bookings                            *)
(* (app/api/v1/endpoints/rooms.py); rooms a channel manager owns are in    *)
(* ChannelSync.  Every handler reads, checks and then commits, without     *)
(* locks: slot[k] is what the handler serving request k has loaded.  Time  *)
(* is counted in days; a stay is the days from check_in up to check_out.   *)
(***************************************************************************)
EXTENDS Integers, FiniteSets, Functions, Rows

CONSTANTS
    RoomId,     \* rows of rooms
    Number,     \* room numbers
    BookingId,  \* rows of bookings
    Slot,       \* slots for requests served at the same time
    LastDay,    \* bound: stays end by this day
    Manual      \* statuses that staff give rooms by hand

ASSUME RoomsAssumption ==
    /\ LastDay \in Nat /\ Manual \subseteq {"available", "occupied", "maintenance"}
    /\ Null \notin Number /\ Null \notin RoomId /\ Null \notin BookingId

VARIABLES
    rooms,      \* the table rooms; number Null is no row
    bookings,   \* the table bookings; status "none" is no row
    slot        \* the handlers

rvars == <<rooms, bookings, slot>>

Stay == {s \in (0 .. LastDay) \X (0 .. LastDay) : s[1] < s[2]}
RoomStatus == {"available", "occupied", "maintenance"}
BookingStatus == {"booked", "checked_in", "completed", "cancelled"}
Active == {"booked", "checked_in"}
Finished == {"completed", "cancelled"}

Room == [number : Number \cup {Null}, status : RoomStatus, deleted : BOOLEAN]
Booking == [status : BookingStatus \cup {"none"}, room : RoomId \cup {Null},
            stay : Stay \cup {Null}]
Handler == [pc      : {"idle", "create", "update", "checkin", "checkout", "cancel", "regenerate"},
            booking : BookingId \cup {Null},
            rows    : SUBSET RoomId,                   \* rooms it has loaded
            vacant  : BOOLEAN,                         \* the room was available then
            numbers : SUBSET Number,                   \* numbers that the property is to have
            stay    : Stay \cup {Null},                \* requested dates
            status  : BookingStatus \cup {Null},       \* requested status
            loaded  : Booking]                         \* the booking as it was read

RTypeOK ==
    /\ rooms \in [RoomId -> Room]
    /\ bookings \in [BookingId -> Booking]
    /\ slot \in [Slot -> Handler]

NoRoom == [number |-> Null, status |-> "available", deleted |-> FALSE]
NoBooking == [status |-> "none", room |-> Null, stay |-> Null]
Free == [pc |-> "idle", booking |-> Null, rows |-> {}, vacant |-> TRUE, numbers |-> {},
         stay |-> Null, status |-> Null, loaded |-> NoBooking]

RInit ==
    /\ rooms = [r \in RoomId |-> NoRoom]
    /\ bookings = [b \in BookingId |-> NoBooking]
    /\ slot = [k \in Slot |-> Free]

Live(r) == rooms[r].number # Null /\ ~rooms[r].deleted
Unused == {r \in RoomId : rooms[r].number = Null}
IsActive(b) == bookings[b].status \in Active

-----------------------------------------------------------------------------
(* Overlaps and numbers. *)

\* Mutant: only stays that begin inside the new one are found.
OverlapsInside(s, t) == s[1] =< t[1] /\ t[1] < s[2]

Overlaps(s, t) == s[1] < t[2] /\ t[1] < s[2]

\* _find_overlap: the active bookings of room r whose stay overlaps.
Overlapping(r, stay) ==
    {b \in BookingId : /\ IsActive(b)
                       /\ bookings[b].room = r
                       /\ Overlaps(bookings[b].stay, stay)}

\* uq_room_number counts soft-deleted rows too.
Taken == {rooms[r].number : r \in RoomId \ Unused}

Finish(k) == slot' = [slot EXCEPT ![k] = Free]
Begin(k, h) == slot[k].pc = "idle" /\ slot' = [slot EXCEPT ![k] = h]

-----------------------------------------------------------------------------
(* POST /rooms/{property}/bookings *)

CreateChecks(k, r, stay) ==
    /\ Live(r)
    /\ rooms[r].status = "available"
    /\ Overlapping(r, stay) = {}
    /\ Begin(k, [Free EXCEPT !.pc = "create", !.rows = {r}, !.stay = stay])
    /\ UNCHANGED <<rooms, bookings>>

CreateSaves(k) ==
    /\ slot[k].pc = "create"
    /\ \E b \in BookingId, r \in slot[k].rows :
          /\ bookings[b].status = "none"
          /\ bookings' = [bookings EXCEPT ![b] =
                            [status |-> "booked", room |-> r, stay |-> slot[k].stay]]
          /\ rooms' = [rooms EXCEPT ![r].status = "occupied"]
    /\ Finish(k)

(* PUT /rooms/bookings/{id}: dates, status or both *)

UpdateChecks(k, b, stay, status) ==
    LET old == bookings[b]
        after == IF status = Null THEN old.status ELSE status
    IN  /\ old.status \in Active
        /\ stay # Null /\ after \in Active => Overlapping(old.room, stay) \subseteq {b}
        /\ Begin(k, [Free EXCEPT !.pc = "update", !.booking = b, !.stay = stay,
                                 !.status = status, !.loaded = old])
        /\ UNCHANGED <<rooms, bookings>>

\* A date or a status equal to the one that was loaded is not written.
Changed(new, old, now) == IF new = old THEN now ELSE new

\* Mutant: a status the client left out is written as NULL.
UpdateSavesNull(k) ==
    /\ slot[k].pc = "update"
    /\ bookings' = [bookings EXCEPT ![slot[k].booking].status = slot[k].status]
    /\ Finish(k)
    /\ UNCHANGED rooms

UpdateSaves(k) ==
    LET me  == slot[k]
        old == me.loaded
        now == bookings[me.booking]
        stay == IF me.stay = Null THEN now.stay
                ELSE <<Changed(me.stay[1], old.stay[1], now.stay[1]),
                       Changed(me.stay[2], old.stay[2], now.stay[2])>>
        status == IF me.status = Null THEN now.status
                  ELSE Changed(me.status, old.status, now.status)
    IN  /\ me.pc = "update"
        /\ bookings' = IF stay[1] < stay[2]      \* check_booking_dates
                       THEN [bookings EXCEPT ![me.booking].stay = stay,
                                             ![me.booking].status = status]
                       ELSE bookings
        /\ Finish(k)
        /\ UNCHANGED rooms

(* PUT /rooms/bookings/{id}/checkin, /checkout, /cancel *)

CheckinChecks(k, b) ==
    /\ bookings[b].status = "booked"
    /\ Begin(k, [Free EXCEPT !.pc = "checkin", !.booking = b])
    /\ UNCHANGED <<rooms, bookings>>

CheckinSaves(k) ==
    /\ slot[k].pc = "checkin"
    /\ bookings' = [bookings EXCEPT ![slot[k].booking].status = "checked_in"]
    /\ Finish(k)
    /\ UNCHANGED rooms

\* A handler that will end booking b, with the room it loaded.
Ending(pc, b) == [Free EXCEPT !.pc = pc, !.booking = b, !.rows = {bookings[b].room},
                              !.vacant = rooms[bookings[b].room].status = "available"]

CheckoutChecks(k, b) ==
    /\ bookings[b].status = "checked_in"
    /\ Begin(k, Ending("checkout", b))
    /\ UNCHANGED <<rooms, bookings>>

\* Mutant: a finished booking may be cancelled.
CancelChecksAny(k, b) ==
    /\ bookings[b].status # "none"
    /\ Begin(k, Ending("cancel", b))
    /\ UNCHANGED <<rooms, bookings>>

CancelChecks(k, b) ==
    /\ bookings[b].status \in Active
    /\ Begin(k, Ending("cancel", b))
    /\ UNCHANGED <<rooms, bookings>>

\* Both end the booking and free the room, whoever else is booked into it;
\* a room that was available when it was loaded is not written.
EndSaves(k) ==
    LET me == slot[k]
    IN  /\ me.pc \in {"checkout", "cancel"}
        /\ bookings' = [bookings EXCEPT ![me.booking].status =
                          IF me.pc = "checkout" THEN "completed" ELSE "cancelled"]
        /\ rooms' = [r \in RoomId |-> IF r \in me.rows /\ ~me.vacant
                                      THEN [rooms[r] EXCEPT !.status = "available"] ELSE rooms[r]]
        /\ Finish(k)

-----------------------------------------------------------------------------
(* Rooms. *)

\* POST /rooms/{property}: a number of a live room is refused by the handler,
\* one of a deleted room by the unique constraint.
CreateRoom(n, status) ==
    /\ n \notin Taken
    /\ \E r \in Unused : rooms' = [rooms EXCEPT ![r] = [number |-> n, status |-> status,
                                                        deleted |-> FALSE]]
    /\ UNCHANGED <<bookings, slot>>

\* PUT /rooms/{id} and bulk-status set the status whatever the bookings say.
SetStatus(S, status) ==
    /\ S # {} /\ \A r \in S : Live(r)
    /\ rooms' = [r \in RoomId |-> IF r \in S THEN [rooms[r] EXCEPT !.status = status] ELSE rooms[r]]
    /\ UNCHANGED <<bookings, slot>>

\* PUT /rooms/{id} with a number relies on the unique constraint alone.
Renumber(r, n) ==
    /\ Live(r)
    /\ n \notin Taken
    /\ rooms' = [rooms EXCEPT ![r].number = n]
    /\ UNCHANGED <<bookings, slot>>

\* DELETE /rooms/{id} does not look at the bookings.
DeleteRoom(r) ==
    /\ Live(r)
    /\ rooms' = [rooms EXCEPT ![r].deleted = TRUE]
    /\ UNCHANGED <<bookings, slot>>

\* PUT /properties/{id} sets num_rooms and room_number_start at any time: what
\* they stand for when a handler loads the property is some set of numbers.
Numbering == SUBSET Number \ {{}}

\* Mutant: only guests who have arrived block it.
RegenerateChecksGuests(k, numbers) ==
    /\ ~ \E b \in BookingId : bookings[b].status = "checked_in"
    /\ Begin(k, [Free EXCEPT !.pc = "regenerate", !.rows = {r \in RoomId : Live(r)}, !.numbers = numbers])
    /\ UNCHANGED <<rooms, bookings>>

\* POST /rooms/{property}/regenerate, blocked by any active booking.
RegenerateChecks(k, numbers) ==
    /\ ~ \E b \in BookingId : IsActive(b)
    /\ Begin(k, [Free EXCEPT !.pc = "regenerate", !.rows = {r \in RoomId : Live(r)}, !.numbers = numbers])
    /\ UNCHANGED <<rooms, bookings>>

\* The rooms it loaded are soft-deleted and new rows inserted in one commit,
\* which uq_room_number refuses when a number was ever used before.  (Bound:
\* it cannot finish when too few rows are unused.)
RegenerateSaves(k) ==
    LET me == slot[k]
    IN  /\ me.pc = "regenerate"
        /\ IF me.numbers \cap Taken # {}
           THEN UNCHANGED rooms
           ELSE \E row \in Injection(me.numbers, Unused) :
                  rooms' = [r \in RoomId |->
                              IF \E n \in me.numbers : row[n] = r
                              THEN [number |-> CHOOSE n \in me.numbers : row[n] = r,
                                    status |-> "available", deleted |-> FALSE]
                              ELSE IF r \in me.rows THEN [rooms[r] EXCEPT !.deleted = TRUE]
                              ELSE rooms[r]]
        /\ Finish(k)
        /\ UNCHANGED bookings

Abandon(k) ==
    /\ slot[k].pc # "idle"
    /\ Finish(k)
    /\ UNCHANGED <<rooms, bookings>>

RNext ==
    \/ \E k \in Slot :
          \/ \E r \in RoomId, stay \in Stay : CreateChecks(k, r, stay)
          \/ \E b \in BookingId :
                \/ \E stay \in Stay \cup {Null}, status \in BookingStatus \cup {Null} :
                      UpdateChecks(k, b, stay, status)
                \/ CheckinChecks(k, b) \/ CheckoutChecks(k, b) \/ CancelChecks(k, b)
          \/ \E numbers \in Numbering : RegenerateChecks(k, numbers)
          \/ CreateSaves(k) \/ UpdateSaves(k) \/ CheckinSaves(k) \/ EndSaves(k)
          \/ RegenerateSaves(k)
          \/ Abandon(k)
    \/ \E r \in RoomId :
          \/ \E n \in Number : Renumber(r, n)
          \/ DeleteRoom(r)
    \/ \E n \in Number, status \in Manual : CreateRoom(n, status)
    \/ \E S \in SUBSET RoomId, status \in Manual : SetStatus(S, status)

RSpec == RInit /\ [][RNext]_rvars

-----------------------------------------------------------------------------
(* Properties.  They need one request at a time (Slot has one element): the   *)
(* handlers check and then act without a lock.                                *)

\* A room is never booked or occupied twice for the same day, by whichever
\* sequence of creations, date changes and status changes ("Overlaps are
\* blocked on create"; _find_overlap is "shared by create and update").
NoDoubleBooking ==
    \A a, b \in BookingId :
        a # b /\ IsActive(a) /\ IsActive(b) /\ bookings[a].room = bookings[b].room
        => ~Overlaps(bookings[a].stay, bookings[b].stay)

\* A completed or cancelled booking never changes again ("Cannot update a
\* 'completed' booking").
FinishedStaysFinished ==
    [][\A b \in BookingId : bookings[b].status \in Finished => bookings'[b] = bookings[b]]_rvars

\* Regenerating takes no room away from a guest: a room with an active booking
\* only disappears when it is deleted by itself ("Blocked if any room has an
\* active booking").
RegenerateSparesGuests ==
    [][\A b \in BookingId :
          /\ IsActive(b) /\ Live(bookings[b].room)
          /\ \E r \in RoomId : ~Live(r) /\ rooms'[r].number # Null /\ ~rooms'[r].deleted
          => ~rooms'[bookings[b].room].deleted]_rvars
=============================================================================
