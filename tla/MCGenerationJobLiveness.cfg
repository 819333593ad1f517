SPECIFICATION FairSpec
CONSTANTS
    Slots = {s1}
    Reapers = {w1}
    Count = 2
    MaxCrashes = 1
    MaxRestarts = 1
PROPERTIES
    JobsEndHonestly
CHECK_DEADLOCK FALSE
