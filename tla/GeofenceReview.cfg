\* Two requests for one property served at once; nobody looks at the feed.
CONSTANTS
    Null = Null
    m1 = m1
    a1 = a1
    User = {m1, a1}
    Admin = {"Tenant Admin", "Co Admin"}
    Career <- MCCareer
    PropId = {c1, c2}
    Server = {k1, k2}
    Reader = {}
    Looking = FALSE
    Proposable <- MCProposable
    Editable <- MCEditable
SYMMETRY Symmetry
SPECIFICATION GSpec
INVARIANTS
    OnePendingRequest
    
PROPERTIES
    DecisionsAreFinal
    DecidedByAnAdmin
