\* Two requests at once, for one room.
CONSTANTS
    Null = Null
    RoomId = {r1}
    Number = {n101}
    BookingId = {b1, b2}
    Slot = {k1, k2}
    LastDay = 2
    Manual = {"available", "occupied", "maintenance"}
SPECIFICATION RSpec
INVARIANT NoDoubleBooking
