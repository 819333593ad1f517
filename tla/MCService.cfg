SPECIFICATION Spec
CONSTANTS
    Writers = {w1, w2}
    MaxSeq = 3
    PageSize = 1
    MaxDrops = 2
    Builders = {b1, b2}
    Snaps = {s1, s2, s3}
    Takes = {t1, t2}
    Quota = 2
    MaxEdits = 1
    NumTakes = 3
    ScanLimit = 2
    PlayableLimit = 2
    Users = {u1}
    MaxSessions = 2
    MaxRows = 3
    Clis <- MCClis
    Strict = {"grok"}
    Shapes <- MCShapes
    MaxRenewals = 2
    MaxCells = 2
    Requests = {q1, q2}
    Clients = {c1, c2}
    Slots = {l1}
    MaxOpen = 1
    ConnTicks = 2
    LeaseTicks = 4
    MaxTabFaults = 2
    Runs = {r1, r2}
    Values = {v1, v2}
    MaxLines = 2
    MaxEnvEdits = 1
    MaxFresh = 2
    Blank = Blank
    Public = Public
    Empty = Empty
    None = None
    Refused = Refused
SYMMETRY Sym
INVARIANTS
    NoEventMissed
    StreamsAreTrue
    PoolIsWhole
    StreamsWithinLimit
    MirrorIsTrue
PROPERTIES
    RevokedStaysRevoked
    SecretsStand
CHECK_DEADLOCK FALSE
