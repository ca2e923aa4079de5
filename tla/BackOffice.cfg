\* Two requests at a time: about one KRA assignee, whose assignment may end and
\* be made again, one document, one tenant's plan, one account, one email.
CONSTANTS
    None = None
    User = {u1}
    AssignId = {a1, a2}
    Slot = {s1, s2}
    LastDay = 1
    Skew = {0}
    WeekLength = 2
    Worked = {0}
    MaxPeriods = 1
    Criterion = {"kra", "task"}
    m1 = m1
    m2 = m2
    Uploader = m2
    Desk = {s1, s2}
    Null = None
    Member = {m1, m2}
    Owner = {m2}
    Assigner = {m1, m2}
    Reviewer = {m1}
    Signer = {m1}
    Plan = {"starter", "pro"}
    Price <- PlanPrice
    Checkout = {m1, m2}
    LastRow = 3
    SuperAdmin = TRUE
    MaxCodes = 3
    Property = {m1, m2}
    MaxRequests = 2
    MaxTenants = 1
    Employee = {s1, s2}
    Kra = "kra"
    Weight <- EvenWeight
    Full = 1
    TaskPeriod = {1}
    Entered = {1}
    Deducted = {0}
    Outcome = {"on_time"}
    Author = {m1, m2}
    Manager = {m1}
    FormPeriod = {1}
    MaxForms = 2
SYMMETRY Symmetry
SPECIFICATION BSpec
CONSTRAINTS
    AnnouncedLast
    SignedApart
CHECK_DEADLOCK FALSE
INVARIANTS
    TypesOK
    NoticesAreDeserved
    NoSelfApproval
    RanksFollowScores
    ComplianceWithinDays
    SessionsAreVerified
    ApprovedMadeTheAccount
PROPERTIES
    WorkNeverUndone
    PlanLostForCause
