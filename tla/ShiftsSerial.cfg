\* Each user waits for the answer to a punch before sending the next one.
CONSTANTS
    None = None
    s1 = s1
    m1 = m1
    User = {s1, m1}
    Req = {q1}
    RecId = {r1, r2}
    StatusText = {"break"}
    Radius = {1}
    Location <- MCLocation
    STALE_SHIFT_HOURS = 2
    MAX_SHIFT_HOURS = 1
    MAX_PLAUSIBLE_HOURS = 3
    MAX_ACCURACY = 3
    Horizon = 4
    RequestsPerUser = 1
    CorrId = {c1}
    CReq = {k1}
    Admin = {"Tenant Admin"}
    Career <- LeavingManager
SYMMETRY Symmetry
SPECIFICATION CorrSpec
INVARIANTS
    ShiftsDisjoint
    TotalsWithinElapsed
PROPERTY ImplementsLedger
