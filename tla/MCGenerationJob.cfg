SPECIFICATION Spec
CONSTANTS
    Slots = {s1, s2}
    Reapers = {w1}
    Count = 1
    MaxCrashes = 1
    MaxRestarts = 0
SYMMETRY Symmetry
INVARIANTS
    OutcomeIsBacked
PROPERTIES
    HeartbeatWins
    NoTakeAfterTheEnd
CHECK_DEADLOCK FALSE
