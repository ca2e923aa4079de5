\* Two integrations of one property, one sync at a time.
CONSTANTS
    None = None
    Integration = {i1, i2}
    RoomId = {r1, r2}
    Name = {"a1", "A1", "b1"}
    Norm <- MCNorm
    ExtId = {"e1", "e2"}
    Fetch <- MCFetch
    Run = {k1}
    LogId = {l1}
SYMMETRY Symmetry
SPECIFICATION CSpec
INVARIANTS
    PlansApplyCleanly
PROPERTY RoomsChangeHandsWhenReleased
