SPECIFICATION CoverSpec
CONSTANTS
    Jobs = {j1, j2}
    DailyLimit = 1
    MaxCrashes = 1
    Refs = {r1, r2}
    Holders = {h1, h2}
    Requests = {q1, q2}
    Quota = 1
    MaxFaults = 1
    None = None
INVARIANTS
    CoversStand
PROPERTIES
    EveryCoverJobEnds
CHECK_DEADLOCK FALSE
