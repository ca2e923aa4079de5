\* One request at a time about rooms, with two rooms and two bookings and stays
\* within two days, and about the geofence, with a user of the feed; two
\* requests at a time everywhere else.
CONSTANTS
    Null = Null
    RoomId = {k1, k2}
    Number = {k1, k2}
    BookingId = {k1, k2}
    Slot = {c1}
    LastDay = 2
    Manual = {"available"}
    Desk = {k1, k2}
    MaxStock = 2
    Amount = {1}
    Reorder = {Null, 1}
    Employee = {m1, a1}
    Login = {m1}
    Shift = {c1}
    Request = {q1}
    Posted = {"scheduled", "covered"}
    Moment = {1, 2}
    Department = {c1}
    Works <- OneDepartment
    Match <- NoMatch
    Suggested = 1
    Opening = {"assigned"}
    MaxEdits = 1
    Staff = {m1, a1}
    MaxComments = 1
    Category = {c1}
    StaffStatus = {"in_progress"}
    Assignee = {"nobody", "colleague"}
    MaxProofs = 3
    MaxVersions = 1
    User = {m1, a1}
    Admin = {"Tenant Admin", "Co Admin"}
    Career <- FixedCareer
    PropId = {k1, k2}
    Server = {c1}
    Reader = {q1}
    Looking = TRUE
    Proposable <- OnePlace
    Editable = {}
    Ext = {"x", "y"}
    Listing <- Alphabetical
    Stamp = {"t"}
    GuestStay <- TwoStays
    Early <- NoneOrBoth
    Provider = {"channex", "cloudbeds", "little_hotelier", "mews", "siteminder"}
    Ahead = 2
    INTERVAL_DAYS = 2
    PAGE_SIZE = 1
    Horizon = 1
    MaxChanges = 1
    q1 = q1
    m1 = m1
    a1 = a1
    c1 = c1
SYMMETRY Symmetry
SPECIFICATION FSpec
CHECK_DEADLOCK FALSE
INVARIANTS
    TypesOK
    NoDoubleBooking
    StockIsExplained
    CoveredHasReplacement
    AssigneeHasRow
    ProofsPerReview
    UnreadRequestsArePending
PROPERTIES
    ImplementsCalendar
    RegenerateSparesGuests
    AlarmsAnswered
    SyncCatchesUp
