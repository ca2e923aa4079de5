\* Two correction requests served at once, for one shift.
CONSTANTS
    None = None
    s1 = s1
    m1 = m1
    User = {s1, m1}
    Req = {q1}
    RecId = {r1}
    StatusText = {}
    Radius = {1}
    Location <- MCLocation
    STALE_SHIFT_HOURS = 1
    MAX_SHIFT_HOURS = 1
    MAX_PLAUSIBLE_HOURS = 3
    MAX_ACCURACY = 3
    Horizon = 2
    RequestsPerUser = 1
    CorrId = {c1, c2}
    CReq = {k1, k2}
    Admin = {"Tenant Admin"}
    Career <- PromotedStaff
SPECIFICATION FairCorrSpec
INVARIANTS
    OnePendingPerShift
    ApprovedClaimIsPaid
    ReviewerEntitled
    
PROPERTIES
    DecisionsAreFinal
    EveryHandlerFinishes
