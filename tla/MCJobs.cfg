SPECIFICATION AllSpec
CONSTANTS
    Takes = {t1}
    MaxReports = 3
    Chunks = 2
    MaxReconnects = 2
    MaxDrops = 3
    MaxCrashes = 1
    MaxDiskErrors = 2
    Jobs = {j1}
    Reconcilers = {r1, r2}
    Original = a0
    None = none
    MaxDeaths = 2
    Texts = {a, b}
    Songs = {s1}
    Signals = {"music", "acestep"}
    Grace = 2
    QueuedAge = 3
    FullQueue = 4
    MaxStops = 2
INVARIANTS
    NoTerminalEventMissed
    TakeArrivesWhole
    NoFileLeftBehind
PROPERTIES
    DeliveryEnds
    VoiceIsWhole
    EveryTrainingEnds
    EveryTurnEnds
    VerdictsAreRight
    EveryTakeIsScored
CHECK_DEADLOCK FALSE
