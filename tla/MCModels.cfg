SPECIFICATION AllSpec
CONSTANTS
    small = small
    other = other
    large = large
    Modes = {small, other, large}
    Sizes <- MCSizes
    Budget = 4
    Users = {u1, u2}
    MaxForeign = 1
    MaxFaults = 2
    Downloads = {d1, d2}
    Loads = {l1}
    None = None
PROPERTIES
    ImplementsModelSlots
    PlansStayTrue
    EveryModelJobEnds
CHECK_DEADLOCK FALSE
