\* Two requests of the same user at once, so that their steps interleave.
CONSTANTS
    None = None
    User = {u1}
    Req = {q1, q2}
    RecId = {r1, r2, r3}
    StatusText = {"break"}
    Radius = {1}
    Location <- MCLocation
    STALE_SHIFT_HOURS = 1
    MAX_SHIFT_HOURS = 1
    MAX_PLAUSIBLE_HOURS = 2
    MAX_ACCURACY = 3
    Horizon = 3
    RequestsPerUser = 2
SYMMETRY Symmetry
SPECIFICATION Spec
INVARIANTS
    HoursMatchPunches
    ClosedShiftPaidXorReviewed
PROPERTY ClosedShiftsStayClosed
