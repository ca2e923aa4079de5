\* One integration and one room are enough to link it to two fetched rooms.
CONSTANTS
    None = None
    Integration = {i1}
    RoomId = {r1, r2}
    Name = {"a1", "A1", "b1"}
    Norm <- MCNorm
    ExtId = {"e1", "e2"}
    Fetch <- MCFetch
    Run = {k1}
    LogId = {l1}
SPECIFICATION CSpec
INVARIANT LinkedOnce
