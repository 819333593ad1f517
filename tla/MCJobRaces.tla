---- MODULE MCJobRaces ----
(* Jobs that get in each other's way, checked side by side (a behaviour works  *)
(* on one of them): two trainings of one voice (LoraTraining, extended here),  *)
(* the jobs that score takes through one child, the admission of jobs under    *)
(* limits, and requests about voices and about their samples.                  *)
EXTENDS LoraTraining, TLC

CONSTANTS Users, Requests, Scorings, Gens, Scorers, MaxScoringFaults,
          Rows, MaxQueue, EnvLimit, Overrides,
          Voices, Trainings, Samples, MaxVoices, MaxSamples, MinSamples, MaxQueued, MaxDeaths

VARIABLES part,
          scoring, verdict, pipeLock, child, tainted, rows, transcript, present, takeLock, faults,
          admitted, req, lock, setting,
          voice, sample, sampleFile, training, asked, capacityLock, deaths

S == INSTANCE Scoring WITH Jobs <- Scorings, MaxFaults <- MaxScoringFaults,
                           job <- scoring, rowLock <- takeLock
L == INSTANCE JobLimits WITH job <- admitted
V == INSTANCE VoiceSamples WITH Owners <- Users, MaxFaults <- MaxDeaths, file <- sampleFile,
                                req <- asked, lock <- capacityLock, faults <- deaths

(* What the proofs assume of the constants holds here. *)
ASSUME PartConstants == L!LimitConstants /\ V!SampleConstants /\ S!ScoringConstants

\* Trainings are interchangeable, and so are requests.
Symmetry == Permutations(Jobs) \cup Permutations(Requests)

scoringVars == <<scoring, verdict, pipeLock, child, tainted, rows, transcript, present, takeLock, faults>>
limitVars == <<admitted, req, lock, setting>>
voiceVars == <<voice, sample, sampleFile, training, asked, capacityLock, deaths>>
allVars == <<part, vars, scoringVars, limitVars, voiceVars>>

(* A part's choices of an initial state are made only where it runs; the       *)
(* verdict is on one take, and one user has limits of his own.                 *)
AllInit ==
    /\ part \in {"training", "scoring", "limits", "voices", "samples"}
    /\ Init /\ (part # "training" => final = Original)
    /\ S!Init /\ verdict.gen = CHOOSE g \in Gens : TRUE
    /\ part # "scoring" => \A j \in Scorings : scoring[j].gen = verdict.gen
    /\ L!Init /\ \A u \in Users \ {CHOOSE v \in Users : TRUE} : setting[u] = None
    /\ part # "limits" => \A u \in DOMAIN setting : setting[u] = None
    /\ V!Init

(* Many voices with no samples asked of them, ... *)
OnlyVoices == deaths' = deaths /\ \A q \in Requests : asked'[q].sample = None
(* ... and one voice of one user with its samples and a process that may die. *)
OneVoice ==
    /\ \A v \in Voices \ {CHOOSE w \in Voices : TRUE} : voice'[v] = voice[v]
    /\ \A q \in Requests : asked'[q].owner \in {None, CHOOSE u \in Users : TRUE}

AllNext ==
    \/ part = "training" /\ Next /\ UNCHANGED <<part, scoringVars, limitVars, voiceVars>>
    \/ part = "scoring" /\ S!Next /\ UNCHANGED <<part, vars, limitVars, voiceVars>>
    \/ part = "limits" /\ L!Next /\ UNCHANGED <<part, vars, scoringVars, voiceVars>>
    \/ part = "voices" /\ V!Next /\ OnlyVoices /\ UNCHANGED <<part, vars, scoringVars, limitVars>>
    \/ part = "samples" /\ V!Next /\ OneVoice /\ UNCHANGED <<part, vars, scoringVars, limitVars>>

AllSpec == AllInit /\ [][AllNext]_allVars

(* The scoring jobs alone, with a database that refuses progress updates. *)
RefusedProgressSpec ==
    /\ AllInit /\ part = "scoring"
    /\ [][S!NextWithRefusedProgress /\ UNCHANGED <<part, vars, limitVars, voiceVars>>]_allVars

(* The trainings alone. *)
TrainingSpec ==
    /\ AllInit /\ part = "training"
    /\ [][Next /\ UNCHANGED <<part, scoringVars, limitVars, voiceVars>>]_allVars

-----------------------------------------------------------------------------
(* A score is stored under the take it was measured on (Scoring). *)
ScoresAreOfTheirTake == S!ScoresAreOfTheirTake
(* Nor does a child with an abandoned scorer serve a request, nor does a       *)
(* writer of a take's scores drop what another stored (Scoring).               *)
ScoresAreSound ==
    /\ [](ScoresAreOfTheirTake /\ S!TaintedChildServesNobody)
    /\ S!NoScoreLost
(* No user, and not all together, hold more jobs than allowed (JobLimits), nor *)
(* more voices and waiting trainings; a sample's row never lacks its file      *)
(* (VoiceSamples).                                                             *)
LimitsHold == L!LimitsHold /\ V!CapacityHolds /\ V!SamplesAreWhole
====
