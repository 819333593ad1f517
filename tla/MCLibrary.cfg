SPECIFICATION Spec
CONSTANTS
    Words = {w1, w2}
    Params = {p1, p2}
    Savers = {s1, s2}
    Jobs = {j1}
    MaxVersions = 2
    MaxTakes = 2
    N = 2
    Anchors = {1}
    MaxShares = 1
    RetentionDays = 0
    FinalDays = 0
    MaxDay = 2
    Covered = {"album", "song"}
    MaxPos = 4
    AlbumIds = {a1, a2}
    SongIds = {g1, g2}
    Titles = {"t"}
    MaxCounter = 3
    Window = 1
    MaxNow = 3
    EntryIds = {e1, e2, e3}
    Items <- MCItems
    Keys = {1, 2}
    Limit = 1
    MaxEdits = 2
    Texts = {x1, x2}
    Songs = {o1}
    NTurns = 3
    Budgets = {1, 3}
    MaxConversations = 1
    MaxFaults = 1
    None = None
    Gone = Gone
    Keep = Keep
SYMMETRY Sym
INVARIANTS
    WordsStand
    PublicIsTrue
    
    SteadyHitsShownOnce
PROPERTIES
    TrashIsTrue
    OthersStand
CHECK_DEADLOCK FALSE
