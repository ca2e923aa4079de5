----------------------------- MODULE BookingCalendar -----------------------------
(***************************************************************************)
(* What a property's bookings promise whoever books: an entry is made,     *)
(* moved and closed in one step each, it keeps its room, nobody else has   *)
(* one of its nights while it is open, and once closed it is final.        *)
(***************************************************************************)
EXTENDS Integers

CONSTANTS RoomId, BookingId, LastDay

VARIABLE entry     \* entry[b]: [state, nights]

Closed == {"completed", "cancelled"}

Nights(r, from, to) == {r} \X (from .. to - 1)

Init == entry = [b \in BookingId |-> [state |-> "none", nights |-> {}]]

\* No open entry but b has one of the nights N.
FreeFor(b, N) ==
    \A c \in BookingId \ {b} : entry[c].state = "open" => entry[c].nights \cap N = {}

Enter(b, state, N) == entry' = [entry EXCEPT ![b] = [state |-> state, nights |-> N]]

Book(b, N) ==
    /\ entry[b].state = "none"
    /\ FreeFor(b, N)
    /\ Enter(b, "open", N)

Move(b, N) ==
    /\ entry[b].state = "open"
    /\ FreeFor(b, N)
    /\ Enter(b, "open", N)

\* Dates may be put right as the entry is closed, whoever else has the nights.
Close(b, N, how) ==
    /\ entry[b].state = "open"
    /\ Enter(b, how, N)

\* Some entry changes, for nights of one room.
Next ==
    \E b \in BookingId :
        /\ entry'[b] # entry[b]
        /\ \E r \in RoomId, from, to \in 0 .. LastDay :
              LET N == Nights(r, from, to)
              IN  /\ from < to
                  /\ \/ Book(b, N)
                     \/ /\ \A n \in entry[b].nights : n[1] = r
                        /\ Move(b, N) \/ \E how \in Closed : Close(b, N, how)

Spec == Init /\ [][Next]_entry
=============================================================================
