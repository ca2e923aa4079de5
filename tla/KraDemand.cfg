\* One request at a time over four days about one assignment, with a backlog that outlasts several calls.
CONSTANTS
    None = None
    User = {u1}
    AssignId = {a1}
    Slot = {s1}
    LastDay = 3
    Skew <- MCSkew
    WeekLength = 2
    Worked = {0}
    MaxPeriods = 1
SPECIFICATION KSpec
PROPERTIES
    GapIsNotMissedWork
    BacklogFills
