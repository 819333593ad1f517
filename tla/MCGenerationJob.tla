-------------------------- MODULE MCGenerationJob --------------------------
(* Small instances of GenerationJob for TLC.                                *)
EXTENDS GenerationJob, TLC

Symmetry == Permutations(Slots) \cup Permutations(Reapers)

(* A job ends, and on the way its progress never falls, no more takes than     *)
(* asked for are made, a failed take is known to the job and a take that ran   *)
(* out of memory stays visible.                                                *)
JobsEndHonestly ==
    /\ EveryJobEnds
    /\ ProgressNeverFalls
    /\ OomStaysVisible
    /\ [](TakesWithinCount /\ FailureIsKnown)
=============================================================================
