SPECIFICATION AllSpec
CONSTANTS
    Jobs = {j1, j2}
    Reconcilers = {r1}
    Original = a0
    None = none
    MaxCancels = 1
    MaxCrashes = 1
    MaxDiskErrors = 1
    Users = {u1, u2}
    Requests = {q1, q2}
    Scorings = {x1, x2}
    Gens = {g1, g2}
    Scorers = {"text", "audiobox"}
    MaxScoringFaults = 1
    Rows = {1, 2, 3}
    MaxQueue = 2
    EnvLimit = 1
    Overrides = {2}
    Voices = {1, 2}
    Trainings = {1, 2}
    Samples = {1, 2}
    MaxVoices = 1
    MaxSamples = 2
    MinSamples = 0
    MaxQueued = 1
    MaxDeaths = 1
SYMMETRY Symmetry
INVARIANTS
    LimitsHold
PROPERTIES
    RecoveredIsRecorded
    ScoresAreSound
CHECK_DEADLOCK FALSE
