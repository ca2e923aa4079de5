-------------------------- MODULE RoomBookingsProofs --------------------------
(***************************************************************************)
(* Served one request at a time, the bookings of a property are safe for   *)
(* any number of rooms, bookings and days: no room is booked twice, what   *)
(* is finished stays finished, and regenerating takes no room away.        *)
(***************************************************************************)
EXTENDS BookingRefinement, TLAPS

\* Requests about the property are served one after the other.
OneAtATime == \A j, k \in Slot : j = k

\* A booking is of some room, for some days.
BookingsInFull ==
    \A b \in BookingId : bookings[b].status # "none" => bookings[b].room \in RoomId /\ bookings[b].stay \in Stay

After(me) == IF me.status = Null THEN me.loaded.status ELSE me.status

\* What a handler has checked still holds when it commits.
CheckHolds(me) ==
    /\ me.pc = "create" => me.stay \in Stay /\ \A r \in me.rows : Overlapping(r, me.stay) = {}
    /\ me.pc = "update" =>
          /\ me.booking \in BookingId /\ IsActive(me.booking)
          /\ me.loaded = bookings[me.booking]
          /\ me.stay # Null /\ After(me) \in Active => Overlapping(me.loaded.room, me.stay) \subseteq {me.booking}
    /\ me.pc \in {"checkin", "checkout", "cancel"} => me.booking \in BookingId /\ IsActive(me.booking)
    /\ me.pc = "regenerate" => \A b \in BookingId : ~IsActive(b)

BookingHandlers == \A k \in Slot : CheckHolds(slot[k])

BInv == RTypeOK /\ BookingsInFull /\ NoDoubleBooking /\ BookingHandlers

-----------------------------------------------------------------------------
(* How the invariant survives a step. *)

LEMMA FreeHandlerOK == Free \in Handler /\ CheckHolds(Free)
BY DEF Free, Handler, CheckHolds, NoBooking, Booking

\* Two stays overlap or not, whichever is named first.
LEMMA OverlapSymmetric ==
    ASSUME NEW s \in Stay, NEW t \in Stay
    PROVE  Overlaps(s, t) <=> Overlaps(t, s)
BY DEF Overlaps, Stay

\* A step that only begins or ends a request keeps the invariant if what the
\* handler remembers was checked.
LEMMA BookingHandlerStep ==
    ASSUME BInv, NEW k \in Slot, NEW h \in Handler, CheckHolds(h),
           slot' = [slot EXCEPT ![k] = h], UNCHANGED <<rooms, bookings>>
    PROVE  BInv'
<1>1. RTypeOK'
  BY DEF BInv, RTypeOK
<1>2. BookingsInFull' /\ NoDoubleBooking'
  BY DEF BInv, BookingsInFull, NoDoubleBooking, IsActive
<1>3. BookingHandlers'
  <2>1. ASSUME NEW m \in Handler, CheckHolds(m) PROVE CheckHolds(m)'
    BY <2>1 DEF CheckHolds, Overlapping, IsActive, After
  <2>2. ASSUME NEW j \in Slot PROVE CheckHolds(slot'[j])
    BY <2>2 DEF BInv, RTypeOK, BookingHandlers
  <2> QED
    BY <1>1, <2>1, <2>2 DEF BookingHandlers, RTypeOK, CheckHolds, Overlapping, IsActive, After
<1> QED
  BY <1>1, <1>2, <1>3 DEF BInv

\* The only handler commits.
LEMMA BookingCommits ==
    ASSUME BInv, OneAtATime, NEW k \in Slot, slot' = [slot EXCEPT ![k] = Free],
           rooms' \in [RoomId -> Room], bookings' \in [BookingId -> Booking],
           BookingsInFull', NoDoubleBooking'
    PROVE  BInv'
<1>1. RTypeOK'
  BY FreeHandlerOK DEF BInv, RTypeOK
<1>2. ASSUME NEW j \in Slot PROVE CheckHolds(slot[j])'
  <2>1. slot'[j] = Free
    BY DEF OneAtATime, BInv, RTypeOK
  <2> QED
    BY <2>1 DEF CheckHolds, Free
<1> QED
  BY <1>1, <1>2 DEF BInv, BookingHandlers

\* A commit writes one booking: a new one, or one that is active and keeps its
\* room, and no other active one of the room overlaps with it while it is active.
Writes(b, new) ==
    /\ new.status # "none" /\ new.room \in RoomId /\ new.stay \in Stay
    /\ new.status \in Active => Overlapping(new.room, new.stay) \subseteq {b}
    /\ IF bookings[b].status = "none" THEN new.status = "booked"
       ELSE IsActive(b) /\ new.room = bookings[b].room
    /\ bookings' = [bookings EXCEPT ![b] = new]

OneIsWritten == \E b \in BookingId, new \in Booking : Writes(b, new)

\* Such a commit keeps the bookings apart.
LEMMA OneBookingChanges ==
    ASSUME BInv, OneIsWritten
    PROVE  /\ bookings' \in [BookingId -> Booking]
           /\ BookingsInFull'
           /\ NoDoubleBooking'
<1> PICK b \in BookingId, new \in Booking : Writes(b, new)
  BY DEF OneIsWritten
<1> USE DEF Writes
<1>1. bookings' \in [BookingId -> Booking]
  BY DEF BInv, RTypeOK
<1>2. \A c \in BookingId : bookings'[c] = IF c = b THEN new ELSE bookings[c]
  BY DEF BInv, RTypeOK
<1>3. BookingsInFull'
  BY <1>2 DEF BInv, BookingsInFull
<1>4. ASSUME NEW c \in BookingId, c # b, IsActive(c), bookings[c].room = new.room, new.status \in Active
      PROVE  ~Overlaps(bookings[c].stay, new.stay) /\ ~Overlaps(new.stay, bookings[c].stay)
  <2>1. c \notin Overlapping(new.room, new.stay)
    BY <1>4
  <2>2. bookings[c].stay \in Stay
    BY <1>4 DEF IsActive, Active, BInv, BookingsInFull
  <2> QED
    BY <1>4, <2>1, <2>2, OverlapSymmetric DEF Overlapping
<1>5. NoDoubleBooking'
  <2>1. SUFFICES ASSUME NEW c \in BookingId, NEW d \in BookingId, c # d, IsActive(c)', IsActive(d)',
                        bookings'[c].room = bookings'[d].room
                 PROVE  ~Overlaps(bookings'[c].stay, bookings'[d].stay)
    BY DEF NoDoubleBooking
  <2>2. CASE c # b /\ d # b
    BY <1>2, <2>1, <2>2 DEF BInv, NoDoubleBooking, IsActive
  <2>3. CASE c = b
    BY <1>2, <1>4, <2>1, <2>3 DEF IsActive
  <2>4. CASE d = b
    BY <1>2, <1>4, <2>1, <2>4 DEF IsActive
  <2> QED
    BY <2>2, <2>3, <2>4
<1> QED
  BY <1>1, <1>3, <1>5

\* Rooms may be edited at any time.
LEMMA RoomStep ==
    ASSUME BInv, rooms' \in [RoomId -> Room], UNCHANGED <<bookings, slot>>
    PROVE  BInv'
BY DEF BInv, RTypeOK, BookingsInFull, NoDoubleBooking, BookingHandlers, CheckHolds, Overlapping, IsActive, After

-----------------------------------------------------------------------------
(* What a handler remembers when it begins. *)

LEMMA BeginCreate ==
    ASSUME BInv, NEW k \in Slot, NEW r \in RoomId, NEW stay \in Stay, CreateChecks(k, r, stay)
    PROVE  BInv'
<1> DEFINE h == [Free EXCEPT !.pc = "create", !.rows = {r}, !.stay = stay]
<1>1. h \in Handler /\ CheckHolds(h)
  BY FreeHandlerOK DEF CreateChecks, Handler, Free, CheckHolds
<1> QED
  BY <1>1, BookingHandlerStep DEF CreateChecks, Begin

LEMMA BeginUpdate ==
    ASSUME BInv, NEW k \in Slot, NEW b \in BookingId, NEW stay \in Stay \cup {Null},
           NEW status \in BookingStatus \cup {Null}, UpdateChecks(k, b, stay, status)
    PROVE  BInv'
<1> DEFINE h == [Free EXCEPT !.pc = "update", !.booking = b, !.stay = stay,
                             !.status = status, !.loaded = bookings[b]]
<1>1. h \in Handler
  BY FreeHandlerOK DEF Handler, Free, BInv, RTypeOK
<1>2. CheckHolds(h)
  BY DEF UpdateChecks, Free, CheckHolds, IsActive, After
<1> QED
  BY <1>1, <1>2, BookingHandlerStep DEF UpdateChecks, Begin

LEMMA BeginCheckin ==
    ASSUME BInv, NEW k \in Slot, NEW b \in BookingId, CheckinChecks(k, b)
    PROVE  BInv'
<1> DEFINE h == [Free EXCEPT !.pc = "checkin", !.booking = b]
<1>1. h \in Handler /\ CheckHolds(h)
  BY FreeHandlerOK DEF CheckinChecks, Handler, Free, CheckHolds, IsActive, Active
<1> QED
  BY <1>1, BookingHandlerStep DEF CheckinChecks, Begin

LEMMA BeginEnding ==
    ASSUME BInv, NEW k \in Slot, NEW b \in BookingId, CheckoutChecks(k, b) \/ CancelChecks(k, b)
    PROVE  BInv'
<1>1. IsActive(b) /\ bookings[b].room \in RoomId
  BY DEF CheckoutChecks, CancelChecks, IsActive, Active, BInv, BookingsInFull
<1>2. ASSUME NEW pc \in {"checkout", "cancel"} PROVE Ending(pc, b) \in Handler /\ CheckHolds(Ending(pc, b))
  BY <1>1, FreeHandlerOK DEF Ending, Handler, Free, CheckHolds
<1>3. PICK pc \in {"checkout", "cancel"} : Begin(k, Ending(pc, b)) /\ UNCHANGED <<rooms, bookings>>
  BY DEF CheckoutChecks, CancelChecks
<1> QED
  BY <1>2, <1>3, BookingHandlerStep DEF Begin

LEMMA BeginRegenerate ==
    ASSUME BInv, NEW k \in Slot, NEW numbers \in Numbering, RegenerateChecks(k, numbers)
    PROVE  BInv'
<1> DEFINE h == [Free EXCEPT !.pc = "regenerate", !.rows = {r \in RoomId : Live(r)}, !.numbers = numbers]
<1>1. h \in Handler /\ CheckHolds(h)
  BY FreeHandlerOK DEF RegenerateChecks, Numbering, Handler, Free, CheckHolds
<1> QED
  BY <1>1, BookingHandlerStep DEF RegenerateChecks, Begin

-----------------------------------------------------------------------------
(* Commits. *)

LEMMA CreateWrites ==
    ASSUME BInv, NEW k \in Slot, CreateSaves(k)
    PROVE  OneIsWritten
<1> DEFINE me == slot[k]
<1>1. PICK b \in BookingId, r \in me.rows :
        /\ bookings[b].status = "none"
        /\ bookings' = [bookings EXCEPT ![b] = [status |-> "booked", room |-> r, stay |-> me.stay]]
  BY DEF CreateSaves
<1>2. me \in Handler /\ me.stay \in Stay /\ r \in RoomId /\ Overlapping(r, me.stay) = {}
  BY DEF CreateSaves, BInv, RTypeOK, BookingHandlers, CheckHolds, Handler
<1> DEFINE new == [status |-> "booked", room |-> r, stay |-> me.stay]
<1>3. new \in Booking /\ Writes(b, new)
  BY <1>1, <1>2 DEF Booking, BookingStatus, Writes
<1> QED
  BY <1>3 DEF OneIsWritten

\* Alone, an update writes what the client sent; where it sent nothing the
\* booking stays as it is.
LEMMA UpdateWrites ==
    ASSUME BInv, NEW k \in Slot, UpdateSaves(k), bookings' # bookings
    PROVE  OneIsWritten
<1> DEFINE me == slot[k]
           now == bookings[me.booking]
           stay == IF me.stay = Null THEN now.stay ELSE me.stay
           new == [now EXCEPT !.stay = stay, !.status = After(me)]
<1>1. /\ me \in Handler /\ me.booking \in BookingId /\ IsActive(me.booking) /\ me.loaded = now
      /\ me.stay # Null /\ After(me) \in Active => Overlapping(now.room, me.stay) \subseteq {me.booking}
  BY DEF UpdateSaves, BInv, RTypeOK, BookingHandlers, CheckHolds
<1>2. now \in Booking /\ now.room \in RoomId /\ now.stay \in Stay /\ now.status \in Active
  BY <1>1 DEF BInv, RTypeOK, BookingsInFull, IsActive, Active
<1>3. stay \in Stay
  BY <1>1, <1>2 DEF Handler
<1>4. stay = IF me.stay = Null THEN now.stay
             ELSE <<Changed(me.stay[1], now.stay[1], now.stay[1]), Changed(me.stay[2], now.stay[2], now.stay[2])>>
  BY <1>1, <1>2, <1>3 DEF Changed, Stay, Handler
<1>5. After(me) = IF me.status = Null THEN now.status ELSE Changed(me.status, now.status, now.status)
  BY <1>1 DEF After, Changed
<1>6. bookings' = [bookings EXCEPT ![me.booking].stay = stay, ![me.booking].status = After(me)]
  BY <1>1, <1>4, <1>5 DEF UpdateSaves
<1>7. bookings' = [bookings EXCEPT ![me.booking] = new]
  BY <1>1, <1>6 DEF BInv, RTypeOK, Booking
<1>8. After(me) \in BookingStatus /\ After(me) # "none"
  BY <1>1, <1>2 DEF After, Handler, BookingStatus, Active
<1>9. new \in Booking /\ new.status = After(me) /\ new.stay = stay /\ new.room = now.room
  BY <1>2, <1>3, <1>8 DEF Booking
<1>10. After(me) \in Active => Overlapping(now.room, stay) \subseteq {me.booking}
  <2>1. CASE me.stay # Null
    BY <1>1, <2>1
  <2>2. CASE me.stay = Null
    BY <1>1, <1>2, <2>2, OverlapSymmetric DEF BInv, NoDoubleBooking, Overlapping
  <2> QED
    BY <2>1, <2>2
<1>11. bookings[me.booking].status # "none"
  BY <1>2 DEF Active
<1>12. Writes(me.booking, new)
  <2> HIDE DEF new
  <2> QED
    BY <1>1, <1>2, <1>3, <1>7, <1>8, <1>9, <1>10, <1>11 DEF Writes
<1> QED
  BY <1>1, <1>9, <1>12 DEF OneIsWritten

\* A handler that gives its booking another status.
LEMMA StatusWrites ==
    ASSUME BInv, NEW b \in BookingId, IsActive(b), NEW status \in BookingStatus,
           bookings' = [bookings EXCEPT ![b].status = status]
    PROVE  OneIsWritten
<1> DEFINE new == [bookings[b] EXCEPT !.status = status]
<1>1. /\ bookings[b] \in Booking /\ bookings[b].room \in RoomId /\ bookings[b].stay \in Stay
      /\ bookings[b].status # "none" /\ bookings' = [bookings EXCEPT ![b] = new]
  BY DEF BInv, RTypeOK, BookingsInFull, IsActive, Active
<1>2. new \in Booking /\ new.status = status /\ new.stay = bookings[b].stay /\ new.room = bookings[b].room
  BY <1>1 DEF Booking
<1>3. status # "none" /\ Overlapping(new.room, new.stay) \subseteq {b}
  BY <1>1, <1>2, OverlapSymmetric DEF BInv, NoDoubleBooking, Overlapping, BookingStatus
<1>4. Writes(b, new)
  <2> HIDE DEF new
  <2> QED
    BY <1>1, <1>2, <1>3 DEF Writes
<1> QED
  BY <1>2, <1>4 DEF OneIsWritten

LEMMA CheckinWrites ==
    ASSUME BInv, NEW k \in Slot, CheckinSaves(k)
    PROVE  OneIsWritten
<1>1. slot[k].booking \in BookingId /\ IsActive(slot[k].booking)
  BY DEF CheckinSaves, BInv, BookingHandlers, CheckHolds
<1> QED
  BY <1>1, StatusWrites DEF CheckinSaves, BookingStatus

LEMMA EndWrites ==
    ASSUME BInv, NEW k \in Slot, EndSaves(k)
    PROVE  OneIsWritten
<1> DEFINE status == IF slot[k].pc = "checkout" THEN "completed" ELSE "cancelled"
<1>1. slot[k].booking \in BookingId /\ IsActive(slot[k].booking)
  BY DEF EndSaves, BInv, BookingHandlers, CheckHolds
<1>2. status \in BookingStatus /\ bookings' = [bookings EXCEPT ![slot[k].booking].status = status]
  BY DEF EndSaves, BookingStatus
<1> HIDE DEF status
<1> QED
  BY <1>1, <1>2, StatusWrites

\* A commit that writes a booking keeps the invariant.
LEMMA WriteCommits ==
    ASSUME BInv, OneAtATime, NEW k \in Slot, CreateSaves(k) \/ UpdateSaves(k) \/ CheckinSaves(k) \/ EndSaves(k)
    PROVE  BInv'
<1>1. rooms' \in [RoomId -> Room]
  <2>1. CASE CreateSaves(k)
    <3>1. PICK r \in slot[k].rows : rooms' = [rooms EXCEPT ![r].status = "occupied"]
      BY <2>1 DEF CreateSaves
    <3>2. rooms \in [RoomId -> Room]
      BY DEF BInv, RTypeOK
    <3>3. [rooms[r] EXCEPT !.status = "occupied"] \in Room
      <4>1. rooms[r] \in Room
        BY <3>2 DEF BInv, RTypeOK, Handler
      <4> QED
        BY <4>1 DEF Room, RoomStatus
    <3> QED
      BY <3>1, <3>2, <3>3
  <2>2. CASE EndSaves(k)
    BY <2>2 DEF EndSaves, BInv, RTypeOK, Room, RoomStatus
  <2> QED
    BY <2>1, <2>2 DEF UpdateSaves, CheckinSaves, BInv, RTypeOK
<1>2. bookings' = bookings \/ OneIsWritten
  BY CreateWrites, UpdateWrites, CheckinWrites, EndWrites
<1>3. bookings' \in [BookingId -> Booking] /\ BookingsInFull' /\ NoDoubleBooking'
  BY <1>2, OneBookingChanges DEF BInv, RTypeOK, BookingsInFull, NoDoubleBooking, IsActive
<1> QED
  BY <1>1, <1>3, BookingCommits DEF CreateSaves, UpdateSaves, CheckinSaves, EndSaves, Finish

LEMMA RegenerateCommits ==
    ASSUME BInv, OneAtATime, NEW k \in Slot, RegenerateSaves(k)
    PROVE  BInv'
<1> DEFINE me == slot[k]
<1>1. rooms' \in [RoomId -> Room]
  <2>1. CASE rooms' = rooms
    BY <2>1 DEF BInv, RTypeOK
  <2>2. CASE rooms' # rooms
    <3>1. PICK row \in Injection(me.numbers, Unused) :
            rooms' = [r \in RoomId |->
                        IF \E n \in me.numbers : row[n] = r
                        THEN [number |-> CHOOSE n \in me.numbers : row[n] = r, status |-> "available", deleted |-> FALSE]
                        ELSE IF r \in me.rows THEN [rooms[r] EXCEPT !.deleted = TRUE] ELSE rooms[r]]
      BY <2>2 DEF RegenerateSaves
    <3>2. ASSUME NEW r \in RoomId, \E n \in me.numbers : row[n] = r
          PROVE  (CHOOSE n \in me.numbers : row[n] = r) \in Number
      BY <3>2 DEF BInv, RTypeOK, Handler
    <3>3. ASSUME NEW r \in RoomId PROVE rooms'[r] \in Room
      BY <3>1, <3>2, <3>3 DEF BInv, RTypeOK, Room, RoomStatus
    <3> QED
      BY <3>1, <3>3
  <2> QED
    BY <2>1, <2>2
<1> QED
  BY <1>1, BookingCommits DEF RegenerateSaves, Finish, BInv, RTypeOK, BookingsInFull, NoDoubleBooking, IsActive

-----------------------------------------------------------------------------
(* The invariant. *)

LEMMA Initially == RInit => BInv
<1> SUFFICES ASSUME RInit PROVE BInv
  OBVIOUS
<1>1. RTypeOK
  BY FreeHandlerOK DEF RInit, RTypeOK, NoRoom, Room, RoomStatus, NoBooking, Booking
<1>2. BookingsInFull /\ NoDoubleBooking
  BY DEF RInit, NoBooking, BookingsInFull, NoDoubleBooking, IsActive, Active
<1>3. BookingHandlers
  BY FreeHandlerOK DEF RInit, BookingHandlers
<1> QED
  BY <1>1, <1>2, <1>3 DEF BInv

\* A request begins.
Begins(k) ==
    \/ \E r \in RoomId, stay \in Stay : CreateChecks(k, r, stay)
    \/ \E b \in BookingId :
          \/ \E stay \in Stay \cup {Null}, status \in BookingStatus \cup {Null} : UpdateChecks(k, b, stay, status)
          \/ CheckinChecks(k, b) \/ CheckoutChecks(k, b) \/ CancelChecks(k, b)
    \/ \E numbers \in Numbering : RegenerateChecks(k, numbers)

\* A request commits or is given up.
Ends(k) ==
    CreateSaves(k) \/ UpdateSaves(k) \/ CheckinSaves(k) \/ EndSaves(k) \/ RegenerateSaves(k) \/ Abandon(k)

\* A request that is one statement.
RoomEdit ==
    \/ \E r \in RoomId : (\E n \in Number : Renumber(r, n)) \/ DeleteRoom(r)
    \/ \E n \in Number, status \in Manual : CreateRoom(n, status)
    \/ \E S \in SUBSET RoomId, status \in Manual : SetStatus(S, status)

LEMMA NextSteps == RNext <=> (\E k \in Slot : Begins(k) \/ Ends(k)) \/ RoomEdit
BY DEF RNext, Begins, Ends, RoomEdit

LEMMA RoomEditStep ==
    ASSUME BInv, RoomEdit
    PROVE  BInv'
<1>1. rooms' \in [RoomId -> Room]
  <2>1. ASSUME NEW r \in RoomId, NEW n \in Number, Renumber(r, n) PROVE rooms' \in [RoomId -> Room]
    BY <2>1 DEF Renumber, BInv, RTypeOK, Room
  <2>2. ASSUME NEW r \in RoomId, DeleteRoom(r) PROVE rooms' \in [RoomId -> Room]
    BY <2>2 DEF DeleteRoom, BInv, RTypeOK, Room
  <2>3. ASSUME NEW n \in Number, NEW status \in Manual, CreateRoom(n, status) PROVE rooms' \in [RoomId -> Room]
    BY <2>3, RoomsAssumption DEF CreateRoom, RoomStatus, Unused, BInv, RTypeOK, Room
  <2>4. ASSUME NEW S \in SUBSET RoomId, NEW status \in Manual, SetStatus(S, status) PROVE rooms' \in [RoomId -> Room]
    BY <2>4, RoomsAssumption DEF SetStatus, RoomStatus, BInv, RTypeOK, Room
  <2> QED
    BY <2>1, <2>2, <2>3, <2>4 DEF RoomEdit
<1>2. UNCHANGED <<bookings, slot>>
  BY DEF RoomEdit, Renumber, DeleteRoom, CreateRoom, SetStatus
<1> QED
  BY <1>1, <1>2, RoomStep

LEMMA Step ==
    ASSUME BInv, OneAtATime, [RNext]_rvars
    PROVE  BInv'
<1>1. ASSUME NEW k \in Slot, Begins(k) PROVE BInv'
  BY <1>1, BeginCreate, BeginUpdate, BeginCheckin, BeginEnding, BeginRegenerate DEF Begins
<1>2. ASSUME NEW k \in Slot, Abandon(k) PROVE BInv'
  BY <1>2, FreeHandlerOK, BookingHandlerStep DEF Abandon, Finish
<1>3. ASSUME NEW k \in Slot, Ends(k) PROVE BInv'
  BY <1>2, <1>3, WriteCommits, RegenerateCommits DEF Ends
<1>4. CASE UNCHANGED rvars
  BY <1>4, RoomStep DEF rvars, BInv, RTypeOK
<1> QED
  BY <1>1, <1>3, <1>4, RoomEditStep, NextSteps

\* Bookings are complete and apart, and what a handler has checked still holds.
THEOREM BookingInvariance == ASSUME OneAtATime PROVE RSpec => []BInv
<1>1. BInv /\ [RNext]_rvars => BInv'
  BY Step
<1> QED
  BY <1>1, Initially, PTL DEF RSpec

\* Rooms, bookings and what handlers remember keep their types.
THEOREM BookingTypeCorrect == ASSUME OneAtATime PROVE RSpec => []RTypeOK
<1>1. BInv => RTypeOK
  BY DEF BInv
<1> QED
  BY <1>1, BookingInvariance, PTL

\* No room is booked twice for a day, whatever is created, moved, extended
\* and given another status.
THEOREM BookedOnce == ASSUME OneAtATime PROVE RSpec => []NoDoubleBooking
<1>1. BInv => NoDoubleBooking
  BY DEF BInv
<1> QED
  BY <1>1, BookingInvariance, PTL

\* What changes bookings.
LEMMA WhoBooks ==
    ASSUME [RNext]_rvars
    PROVE  UNCHANGED bookings \/ \E k \in Slot : CreateSaves(k) \/ UpdateSaves(k) \/ CheckinSaves(k) \/ EndSaves(k)
BY NextSteps DEF rvars, Begins, Ends, RoomEdit, CreateChecks, UpdateChecks, CheckinChecks, CheckoutChecks, CancelChecks,
   RegenerateChecks, RegenerateSaves, Abandon, Renumber, DeleteRoom, CreateRoom, SetStatus

LEMMA BookingsChange ==
    ASSUME BInv, [RNext]_rvars
    PROVE  UNCHANGED bookings \/ OneIsWritten
BY WhoBooks, CreateWrites, UpdateWrites, CheckinWrites, EndWrites

\* A finished booking is final.
THEOREM FinishedForGood == ASSUME OneAtATime PROVE RSpec => FinishedStaysFinished
<1>1. ASSUME BInv, [RNext]_rvars, NEW b \in BookingId, bookings[b].status \in Finished
      PROVE  bookings'[b] = bookings[b]
  BY <1>1, BookingsChange DEF OneIsWritten, Writes, IsActive, Active, Finished, BInv, RTypeOK
<1>2. BInv /\ [RNext]_rvars =>
        [\A b \in BookingId : bookings[b].status \in Finished => bookings'[b] = bookings[b]]_rvars
  BY <1>1
<1> QED
  BY <1>2, BookingInvariance, PTL DEF RSpec, FinishedStaysFinished

\* Regenerating takes no room from a guest.
THEOREM GuestsKeepTheirRooms == ASSUME OneAtATime PROVE RSpec => RegenerateSparesGuests
<1> DEFINE Spared(b) == /\ IsActive(b) /\ Live(bookings[b].room)
                        /\ \E r \in RoomId : ~Live(r) /\ rooms'[r].number # Null /\ ~rooms'[r].deleted
                        => ~rooms'[bookings[b].room].deleted
<1>1. ASSUME BInv, [RNext]_rvars, NEW b \in BookingId PROVE Spared(b)
  <2>1. SUFFICES ASSUME IsActive(b), Live(bookings[b].room),
                        NEW r \in RoomId, ~Live(r), rooms'[r].number # Null, ~rooms'[r].deleted
                 PROVE  ~rooms'[bookings[b].room].deleted
    OBVIOUS
  <2>2. bookings[b].room \in RoomId
    BY <1>1, <2>1 DEF BInv, BookingsInFull, IsActive, Active
  <2>3. ASSUME NEW k \in Slot, Begins(k) \/ Ends(k) PROVE ~rooms'[bookings[b].room].deleted
    <3>1. ~RegenerateSaves(k)
      BY <1>1, <2>1 DEF RegenerateSaves, BInv, BookingHandlers, CheckHolds
    <3>2. CASE rooms' = rooms
      BY <2>1, <3>2 DEF Live
    <3>3. CASE CreateSaves(k)
      BY <1>1, <2>1, <2>2, <3>3 DEF CreateSaves, Live, BInv, RTypeOK, Room
    <3>4. CASE EndSaves(k)
      BY <1>1, <2>1, <2>2, <3>4 DEF EndSaves, Live, BInv, RTypeOK, Room
    <3> QED
      BY <2>3, <3>1, <3>2, <3>3, <3>4 DEF Begins, Ends, CreateChecks, UpdateChecks, CheckinChecks, CheckoutChecks,
         CancelChecks, RegenerateChecks, UpdateSaves, CheckinSaves, Abandon
  <2>4. CASE RoomEdit
    <3>1. ASSUME NEW q \in RoomId, DeleteRoom(q) PROVE FALSE
      BY <1>1, <2>1, <3>1 DEF DeleteRoom, Live, BInv, RTypeOK, Room
    <3> QED
      BY <1>1, <2>1, <2>2, <2>4, <3>1 DEF RoomEdit, Renumber, CreateRoom, Unused, SetStatus, Live, BInv, RTypeOK, Room
  <2>5. CASE UNCHANGED rvars
    BY <2>1, <2>5 DEF rvars, Live
  <2> QED
    BY <1>1, <2>3, <2>4, <2>5, NextSteps
<1>2. BInv /\ [RNext]_rvars => [\A b \in BookingId : Spared(b)]_rvars
  BY <1>1
<1> QED
  BY <1>2, BookingInvariance, PTL DEF RSpec, RegenerateSparesGuests

-----------------------------------------------------------------------------
(* The calendar that the bookings promise. *)

\* Two stays overlap just if they share a night.
LEMMA NightsShared ==
    ASSUME NEW s \in Stay, NEW t \in Stay
    PROVE  Overlaps(s, t) <=> (s[1] .. s[2] - 1) \cap (t[1] .. t[2] - 1) # {}
<1>1. s[1] \in Int /\ s[2] \in Int /\ t[1] \in Int /\ t[2] \in Int /\ s[1] < s[2] /\ t[1] < t[2]
  BY RoomsAssumption DEF Stay
<1>2. ASSUME Overlaps(s, t) PROVE \E d \in s[1] .. s[2] - 1 : d \in t[1] .. t[2] - 1
  <2>1. CASE s[1] < t[1]
    BY <1>1, <1>2, <2>1 DEF Overlaps
  <2>2. CASE t[1] =< s[1]
    BY <1>1, <1>2, <2>2 DEF Overlaps
  <2> QED
    BY <1>1, <2>1, <2>2
<1>3. ASSUME NEW d \in s[1] .. s[2] - 1, d \in t[1] .. t[2] - 1 PROVE Overlaps(s, t)
  BY <1>1, <1>3 DEF Overlaps
<1> QED
  BY <1>2, <1>3

LEMMA EntryReads ==
    ASSUME BInv, NEW c \in BookingId
    PROVE  /\ Entries[c] = EntryOf(bookings[c])
           /\ Entries[c].state = EntryState(bookings[c].status)
           /\ Entries[c].nights = NightsOf(bookings[c])
           /\ Entries[c].state = "open" <=> IsActive(c)
           /\ IsActive(c) => Entries[c].nights =
                {bookings[c].room} \X (bookings[c].stay[1] .. bookings[c].stay[2] - 1)
<1>1. Entries[c] = EntryOf(bookings[c])
  BY DEF Entries
<1>2. Entries[c].state = EntryState(bookings[c].status) /\ Entries[c].nights = NightsOf(bookings[c])
  BY <1>1 DEF EntryOf
<1>3. EntryState(bookings[c].status) = "open" <=> IsActive(c)
  BY DEF EntryState, IsActive, Active, BInv, RTypeOK, Booking, BookingStatus
<1>4. IsActive(c) => NightsOf(bookings[c]) =
        {bookings[c].room} \X (bookings[c].stay[1] .. bookings[c].stay[2] - 1)
  BY DEF NightsOf, IsActive, Active
<1> QED
  BY <1>1, <1>2, <1>3, <1>4

LEMMA CalendarMoves ==
    ASSUME BInv, NEW b \in BookingId, NEW new \in Booking, Writes(b, new)
    PROVE  [Calendar!Next]_Entries
<1> DEFINE from == new.stay[1]
           to == new.stay[2]
           N == Calendar!Nights(new.room, from, to)
<1>1. /\ new.status \in BookingStatus /\ new.room \in RoomId
      /\ from \in 0 .. LastDay /\ to \in 0 .. LastDay /\ from < to
  BY DEF Writes, Booking, Stay
<1>2. Entries' = [Entries EXCEPT ![b] = [state |-> EntryState(new.status), nights |-> N]]
  BY DEF Entries, EntryOf, NightsOf, Calendar!Nights, Writes, BInv, RTypeOK
<1>3. ASSUME new.status \in Active PROVE Calendar!FreeFor(b, N)
  <2>1. SUFFICES ASSUME NEW c \in BookingId \ {b}, Entries[c].state = "open"
                 PROVE  Entries[c].nights \cap N = {}
    BY DEF Calendar!FreeFor
  <2>2. IsActive(c) /\ Entries[c].nights = {bookings[c].room} \X (bookings[c].stay[1] .. bookings[c].stay[2] - 1)
    BY <2>1, EntryReads
  <2>3. bookings[c].stay \in Stay /\ new.stay \in Stay
    BY <2>2 DEF IsActive, Active, BInv, BookingsInFull, Writes
  <2>4. bookings[c].room = new.room => ~Overlaps(bookings[c].stay, new.stay)
    BY <1>3, <2>1, <2>2 DEF Writes, Overlapping
  <2> QED
    BY <2>2, <2>3, <2>4, NightsShared DEF Calendar!Nights
<1>4. Entries' = Entries \/ Entries'[b] # Entries[b]
  <2>1. Entries = [c \in BookingId |-> Entries[c]]
    BY DEF Entries
  <2> QED
    BY <1>2, <2>1
<1>5. CASE Entries'[b] # Entries[b] /\ bookings[b].status = "none"
  <2>1. new.status \in Active /\ EntryState(new.status) = "open" /\ Entries[b].state = "none"
    BY <1>5, EntryReads DEF Writes, EntryState, Active
  <2>2. Calendar!Book(b, N)
    BY <1>2, <1>3, <2>1 DEF Calendar!Book, Calendar!Enter
  <2> HIDE DEF N
  <2>3. N = Calendar!Nights(new.room, from, to)
    BY DEF N
  <2> QED
    BY <1>1, <1>5, <2>2, <2>3 DEF Calendar!Next
<1>6. CASE Entries'[b] # Entries[b] /\ bookings[b].status # "none"
  <2>1. Entries[b].state = "open" /\ \A n \in Entries[b].nights : n[1] = new.room
    BY <1>6, EntryReads DEF Writes
  <2>2. Calendar!Move(b, N) \/ \E how \in Calendar!Closed : Calendar!Close(b, N, how)
    <3>1. CASE new.status \in Active
      BY <1>2, <1>3, <2>1, <3>1 DEF Calendar!Move, Calendar!Enter, EntryState
    <3>2. CASE new.status \notin Active
      BY <1>1, <1>2, <2>1, <3>2 DEF Calendar!Close, Calendar!Enter, Calendar!Closed, BookingStatus, Active, EntryState
    <3> QED
      BY <3>1, <3>2
  <2> HIDE DEF N
  <2>3. N = Calendar!Nights(new.room, from, to)
    BY DEF N
  <2> QED
    BY <1>1, <1>6, <2>1, <2>2, <2>3 DEF Calendar!Next
<1> QED
  BY <1>4, <1>5, <1>6

\* For any number of rooms, bookings and days: served one request at a time,
\* the rooms' handlers implement the calendar.  Every commit that writes a
\* booking is one step of it, every other step leaves it alone.
THEOREM CalendarImplemented == ASSUME OneAtATime PROVE RSpec => ImplementsCalendar
<1>1. RInit => Calendar!Init
  BY DEF RInit, NoBooking, Calendar!Init, Entries, EntryOf, EntryState, NightsOf, Active
<1>2. BInv /\ [RNext]_rvars => [Calendar!Next]_Entries
  <2>1. SUFFICES ASSUME BInv, [RNext]_rvars PROVE [Calendar!Next]_Entries
    OBVIOUS
  <2>2. CASE UNCHANGED bookings
    BY <2>2 DEF Entries
  <2> QED
    BY <2>1, <2>2, BookingsChange, CalendarMoves DEF OneIsWritten
<1> QED
  BY <1>1, <1>2, BookingInvariance, PTL DEF RSpec, ImplementsCalendar, Calendar!Spec
=============================================================================
