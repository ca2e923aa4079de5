\* What the comment on STALE_SHIFT_HOURS says of auto_closed records, with two
\* punch requests of one user served at the same time.
CONSTANTS
    None = None
    User = {u1}
    Req = {q1, q2}
    RecId = {r1, r2, r3}
    StatusText = {}
    Radius = {1}
    Location <- MCLocation
    STALE_SHIFT_HOURS = 1
    MAX_SHIFT_HOURS = 1
    MAX_PLAUSIBLE_HOURS = 2
    MAX_ACCURACY = 3
    Horizon = 3
    RequestsPerUser = 2
SPECIFICATION Spec
INVARIANT AutoClosedHasNoHours
