SPECIFICATION AllSpec
CONSTANTS
    Gens = {g1}
    Loras = {l1}
    MaxTakes = 2
    MaxWorkerCrashes = 1
    MaxMusicCrashes = 1
    NoHold = NoHold
    Nobody = Nobody
    None = None
INVARIANTS
    HoldExcludesTakes
    TrainingKeepsItsHold
    TakesKeepTheirChild
PROPERTIES
    WorkersComeFree
CHECK_DEADLOCK FALSE
