--------------------------- MODULE GpuHoldProofs ---------------------------
(***************************************************************************)
(* TLAPS proofs about GpuHold, for every number of jobs, takes and crashes. *)
(***************************************************************************)
EXTENDS GpuHold, FiniteSetTheorems, TLAPS

\* gpu_hold_generation_tasks is exactly the takes on the GPU.
TasksTracked == generationTasks = {t \in Tasks : task[t] \in {"rendering", "rendered"}}

\* A handler between /generate's hold test and the recording of its task has
\* the admission lock.
LockOwned == \A t \in Tasks : task[t] = "acquiring" => admissionLock = t

\* A training that started has its token in gpu_hold_handover_tokens until the
\* last step of its cleanup.
ClaimsTracked ==
    \A l \in Loras :
        train[l] \in {"training", "stopping", "stopped", "released"} => l \in handoverTokens

\* A dead worker runs nothing.
NothingRunsWhenDown ==
    ~up => /\ admissionLock = Nobody
           /\ \A t \in Tasks : task[t] \notin {"received", "acquiring", "rendering", "rendered"}
           /\ \A l \in Loras : train[l] \in {"none", "rejected", "ended", "lost"}

\* Takes are posted in order and once: no task exists for a take the job has
\* not posted yet.
SeriesOrder ==
    \A g \in Gens : \A k \in 1 .. MaxTakes :
        \/ k > take[g]
        \/ k = take[g] /\ gen[g] \in {"absent", "queued", "admitted", "loaded"}
        => task[<<g, k>>] = "none"

\* A LoRA run submits its training once.
SubmittedOnce ==
    \A l \in Loras :
        lora[l] \in {"waiting", "picked", "reserved", "loaded"} => train[l] = "none"

\* The inductive invariant.
IInv ==
    /\ TypeOK
    /\ HoldExcludesTakes
    /\ TasksTracked
    /\ LockOwned
    /\ TrainingKeepsItsHold
    /\ ClaimsTracked
    /\ NothingRunsWhenDown
    /\ SeriesOrder
    /\ SubmittedOnce
-----------------------------------------------------------------------------
\* The initial states satisfy the invariant.
LEMMA InitIInv == Init => IInv
  BY GpuHoldAssumption, NobodyAssumption
  DEF Init, IInv, TypeOK, HoldExcludesTakes, TasksTracked, LockOwned, TrainingKeepsItsHold,
      ClaimsTracked, NothingRunsWhenDown, SeriesOrder, SubmittedOnce, Tasks, GenStates,
      LoraStates, TaskStates, TrainStates

\* Every step of the music worker, the ACE-Step worker and Redis keeps it.
LEMMA NextIInv == IInv /\ [Next]_vars => IInv'
  <1> SUFFICES ASSUME IInv, [Next]_vars PROVE IInv'
    OBVIOUS
  <1> USE GpuHoldAssumption, NobodyAssumption
  <1> USE DEF IInv, TypeOK, HoldExcludesTakes, TasksTracked, LockOwned, TrainingKeepsItsHold,
          ClaimsTracked, NothingRunsWhenDown, SeriesOrder, SubmittedOnce, GenStates, LoraStates, TaskStates, TrainStates,
          redisVars, genVars, crashVars, workerVars, cacheVars, Admitted
  <1>1. ASSUME NEW g \in Gens, CreateGeneration(g) PROVE IInv'
    BY <1>1 DEF CreateGeneration, Tasks
  <1>2. ASSUME NEW g \in Gens, AdmitGeneration(g) PROVE IInv'
    BY <1>2 DEF AdmitGeneration, AdmitGenerationAllowed, Tasks
  <1>3. ASSUME NEW g \in Gens, EnsureLoaded(g) PROVE IInv'
    BY <1>3 DEF EnsureLoaded, Tasks
  <1>4. ASSUME NEW g \in Gens, SubmitGeneration(g) PROVE IInv'
    BY <1>4 DEF SubmitGeneration, Tasks
  <1>5. ASSUME NEW g \in Gens, GenerationAccepted(g) PROVE IInv'
    BY <1>5 DEF GenerationAccepted, Tasks
  <1>6. ASSUME NEW g \in Gens, ReloadAfterNotLoaded(g) PROVE IInv'
    <2>1. TypeOK'
      BY <1>6 DEF ReloadAfterNotLoaded, Tasks
    <2>2. (HoldExcludesTakes /\ TasksTracked)'
      BY <1>6 DEF ReloadAfterNotLoaded, Tasks
    <2>3. (LockOwned /\ NothingRunsWhenDown)'
      BY <1>6 DEF ReloadAfterNotLoaded, Tasks
    <2>4. (TrainingKeepsItsHold /\ ClaimsTracked /\ SubmittedOnce)'
      BY <1>6 DEF ReloadAfterNotLoaded, Tasks
    <2>5. SeriesOrder'
      BY <1>6 DEF ReloadAfterNotLoaded, Tasks
    <2> QED
      BY <2>1, <2>2, <2>3, <2>4, <2>5
  <1>7. ASSUME NEW g \in Gens, NextTake(g) PROVE IInv'
    BY <1>7 DEF NextTake, MoreTakes, Tasks
  <1>8. ASSUME NEW g \in Gens, EndGeneration(g) PROVE IInv'
    BY <1>8 DEF EndGeneration, Tasks
  <1>9. ASSUME NEW l \in Loras, PickLoraWorker(l) PROVE IInv'
    BY <1>9 DEF PickLoraWorker, SetLora
  <1>10. ASSUME NEW l \in Loras, ReserveHold(l) PROVE IInv'
    BY <1>10 DEF ReserveHold, ReserveAllowed, SetLora
  <1>11. ASSUME NEW l \in Loras, ReserveRefused(l) PROVE IInv'
    BY <1>11 DEF ReserveRefused, SetLora
  <1>12. ASSUME NEW l \in Loras, LoadTrainingModel(l) PROVE IInv'
    BY <1>12 DEF LoadTrainingModel, SetLora
  <1>13. ASSUME NEW l \in Loras, SubmitTraining(l) PROVE IInv'
    BY <1>13 DEF SubmitTraining, SetLora
  <1>14. ASSUME NEW l \in Loras, TrainingAccepted(l) PROVE IInv'
    BY <1>14 DEF TrainingAccepted, SetLora
  <1>15. ASSUME NEW l \in Loras, LoraCallFails(l) PROVE IInv'
    BY <1>15 DEF LoraCallFails, SetLora
  <1>16. ASSUME NEW l \in Loras, ProbeHandover(l) PROVE IInv'
    BY <1>16 DEF ProbeHandover, SetLora
  <1>17. ASSUME NEW l \in Loras, ReleaseLoraHold(l) PROVE IInv'
    BY <1>17 DEF ReleaseLoraHold, ReleaseAllowed, SetLora
  <1>18. ASSUME NEW l \in Loras, EndLora(l) PROVE IInv'
    BY <1>18 DEF EndLora, SetLora
  <1>19. ASSUME NEW t \in Tasks, CheckHold(t) PROVE IInv'
    <2>1. TypeOK'
      BY <1>19 DEF CheckHold, GenerateAllowed, SetTask
    <2>2. (HoldExcludesTakes /\ TasksTracked)'
      BY <1>19 DEF CheckHold, GenerateAllowed, SetTask
    <2>3. (LockOwned /\ NothingRunsWhenDown)'
      BY <1>19 DEF CheckHold, GenerateAllowed, SetTask
    <2>4. (TrainingKeepsItsHold /\ ClaimsTracked /\ SubmittedOnce)'
      BY <1>19 DEF CheckHold, GenerateAllowed, SetTask
    <2>5. SeriesOrder'
      BY <1>19 DEF CheckHold, GenerateAllowed, SetTask, Tasks
    <2> QED
      BY <2>1, <2>2, <2>3, <2>4, <2>5
  <1>20. ASSUME NEW t \in Tasks, AcquireForTake(t) PROVE IInv'
    <2>1. TypeOK'
      BY <1>20 DEF AcquireForTake, SetTask
    <2>2. (HoldExcludesTakes /\ TasksTracked)'
      BY <1>20 DEF AcquireForTake, SetTask
    <2>3. (LockOwned /\ NothingRunsWhenDown)'
      BY <1>20 DEF AcquireForTake, SetTask
    <2>4. (TrainingKeepsItsHold /\ ClaimsTracked /\ SubmittedOnce)'
      BY <1>20 DEF AcquireForTake, SetTask
    <2>5. SeriesOrder'
      BY <1>20 DEF AcquireForTake, SetTask, Tasks
    <2> QED
      BY <2>1, <2>2, <2>3, <2>4, <2>5
  <1>21. ASSUME NEW t \in Tasks, ReleaseTakeModel(t) PROVE IInv'
    BY <1>21 DEF ReleaseTakeModel, SetTask
  <1>22. ASSUME NEW t \in Tasks, DiscardTask(t) PROVE IInv'
    BY <1>22 DEF DiscardTask, SetTask
  <1>23. ASSUME NEW l \in Loras, AcquireForTraining(l) PROVE IInv'
    BY <1>23 DEF AcquireForTraining, SetTrain
  <1>24. ASSUME NEW l \in Loras, RenewForTraining(l) PROVE IInv'
    BY <1>24 DEF RenewForTraining, CleanUpSetup, SetTrain
  <1>25. ASSUME NEW l \in Loras, ClaimHandover(l) PROVE IInv'
    BY <1>25 DEF ClaimHandover, ClaimAllowed, CleanUpSetup, SetTrain
  <1>26. ASSUME NEW l \in Loras, EndTraining(l) PROVE IInv'
    BY <1>26 DEF EndTraining, SetTrain
  <1>27. ASSUME NEW l \in Loras, ReleaseAndStop(l) PROVE IInv'
    BY <1>27 DEF ReleaseAndStop, ChildAfterRelease, SetTrain
  <1>28. ASSUME NEW l \in Loras, ReleaseTrainingHold(l) PROVE IInv'
    BY <1>28 DEF ReleaseTrainingHold, ReleasePhases, SetTrain
  <1>29. ASSUME NEW l \in Loras, ReleaseHandover(l) PROVE IInv'
    BY <1>29 DEF ReleaseHandover, SetTrain
  <1>30. ASSUME NEW l \in Loras, ExpireHold(l) PROVE IInv'
    BY <1>30 DEF ExpireHold
  <1>31. CASE WorkerCrash
    <2>1. TypeOK'
      <3>1. task' \in [Tasks -> TaskStates] /\ train' \in [Loras -> TrainStates]
        BY <1>31 DEF WorkerCrash
      <3>2. workerCrashes' \in 0 .. MaxWorkerCrashes
        BY <1>31 DEF WorkerCrash
      <3>3. up' \in BOOLEAN
        BY <1>31, Zenon DEF WorkerCrash
      <3>4. /\ admissionLock' \in Tasks \cup {Nobody}
            /\ generationTasks' \subseteq Tasks /\ handoverTokens' \subseteq Loras
            /\ child' \in {"none", "clean", "trained"} /\ inUse' \in Int
        BY <1>31 DEF WorkerCrash
      <3> QED
        BY <3>1, <3>2, <3>3, <3>4, <1>31 DEF WorkerCrash
    <2>2. (HoldExcludesTakes /\ TasksTracked)'
      BY <1>31 DEF WorkerCrash
    <2>3. (LockOwned /\ NothingRunsWhenDown)'
      BY <1>31 DEF WorkerCrash
    <2>4. (TrainingKeepsItsHold /\ ClaimsTracked /\ SubmittedOnce)'
      BY <1>31 DEF WorkerCrash
    <2>5. SeriesOrder'
      BY <1>31 DEF WorkerCrash, Tasks
    <2> QED
      BY <2>1, <2>2, <2>3, <2>4, <2>5
  <1>32. CASE WorkerStart
    BY <1>32 DEF WorkerStart
  <1>33. CASE MusicCrash
    BY <1>33 DEF MusicCrash
  <1>34. CASE UNCHANGED vars
    BY <1>34 DEF vars
  <1> QED
    BY <1>1, <1>2, <1>3, <1>4, <1>5, <1>6, <1>7, <1>8, <1>9, <1>10, <1>11, <1>12,
       <1>13, <1>14, <1>15, <1>16, <1>17, <1>18, <1>19, <1>20, <1>21, <1>22, <1>23, <1>24,
       <1>25, <1>26, <1>27, <1>28, <1>29, <1>30, <1>31, <1>32, <1>33, <1>34
    DEF Next, GenerationStep, LoraStep, TakeStep, TrainStep

\* So it holds in every reachable state.
LEMMA IInvCorrect == Spec => []IInv
  BY InitIInv, NextIInv, PTL DEF Spec

\* Type correctness of the state shared by Redis and the two processes.
THEOREM TypeCorrect == Spec => []TypeOK
  BY IInvCorrect, PTL DEF IInv

\* While a hold exists, no take is on the GPU and none is about to be
\* (_WorkerRoutes.generate under gpu_hold_admission_lock, reserve_gpu_hold).
THEOREM HoldExclusion == Spec => []HoldExcludesTakes
  BY IInvCorrect, PTL DEF IInv

\* A training loses its hold by expiry only, not by what another request or the
\* coordinator does (gpu_hold_handover_tokens, release_gpu_hold).
THEOREM HoldKept == Spec => []TrainingKeepsItsHold
  BY IInvCorrect, PTL DEF IInv

\* A training whose hold has not lapsed has the GPU for itself: no take and no
\* other training runs beside it (default_train_lora_runner).
THEOREM TrainingExclusion == Spec => []TrainingIsExclusive
  <1>1. IInv => TrainingIsExclusive
    BY GpuHoldAssumption
    DEF IInv, HoldExcludesTakes, TrainingKeepsItsHold, TrainingIsExclusive
  <1> QED
    BY <1>1, IInvCorrect, PTL
-----------------------------------------------------------------------------
(***************************************************************************)
(* The use count of the mode's child.                                      *)
(***************************************************************************)

\* The takes that render, and the trainings that use the mode's child.
Renderers == {t \in Tasks : task[t] = "rendering"}
TrainUses == {"acquired", "renewed", "training", "stopping"}
Trainers == {l \in Loras : train[l] \in TrainUses}

\* There are finitely many of them.
LEMMA UsersAreFinite ==
    /\ IsFiniteSet(Renderers) /\ Cardinality(Renderers) \in Nat
    /\ IsFiniteSet(Trainers) /\ Cardinality(Trainers) \in Nat
  <1>1. IsFiniteSet(Tasks)
    <2>1. IsFiniteSet(1 .. MaxTakes)
      BY GpuHoldAssumption, FS_Interval
    <2> QED
      BY <2>1, FiniteJobsAssumption, FS_Product DEF Tasks
  <1>2. IsFiniteSet(Renderers)
    BY <1>1, FS_Subset DEF Renderers
  <1>3. IsFiniteSet(Trainers)
    BY FiniteJobsAssumption, FS_Subset DEF Trainers
  <1> QED
    BY <1>2, <1>3, FS_CardinalityType

\* The users of the child are counted and none of them has lost it.
LEMMA UsersCounted ==
    TakesKeepTheirChild <=> /\ inUse = Cardinality(Renderers) + Cardinality(Trainers)
                            /\ inUse > 0 => child # "none"
  BY DEF TakesKeepTheirChild, Renderers, Trainers, TrainUses

\* The same of the state a step leads to.
LEMMA UsersCountedNext ==
    TakesKeepTheirChild' <=> /\ inUse' = Cardinality(Renderers') + Cardinality(Trainers')
                             /\ inUse' > 0 => child' # "none"
  BY DEF TakesKeepTheirChild, Renderers, Trainers, TrainUses

\* A step that neither adds nor removes a user leaves the child alone.
LEMMA SameUsers ==
    ASSUME TakesKeepTheirChild, Renderers' = Renderers, Trainers' = Trainers, inUse' = inUse,
           child # "none" => child' # "none"
    PROVE  TakesKeepTheirChild'
  BY UsersCounted, UsersCountedNext

\* Every step keeps the uses counted and the child alive while there are any.
LEMMA ChildKept == IInv /\ TakesKeepTheirChild /\ [Next]_vars => TakesKeepTheirChild'
  <1> SUFFICES ASSUME IInv, TakesKeepTheirChild, [Next]_vars PROVE TakesKeepTheirChild'
    OBVIOUS
  <1> USE DEF redisVars, genVars, crashVars, workerVars, cacheVars
  <1>0. TypeOK /\ task \in [Tasks -> TaskStates] /\ train \in [Loras -> TrainStates] /\ inUse \in Int
    BY DEF IInv, TypeOK
  <1>1. ASSUME NEW g \in Gens, GenerationStep(g) PROVE TakesKeepTheirChild'
    <2>1. Renderers' = Renderers
      <3>1. CASE SubmitGeneration(g)
        <4>1. <<g, take[g]>> \in Tasks /\ task[<<g, take[g]>>] = "none"
          BY <1>0, <3>1 DEF SubmitGeneration, IInv, SeriesOrder, TypeOK, Tasks
        <4> QED
          BY <1>0, <3>1, <4>1 DEF SubmitGeneration, Renderers
      <3>2. CASE ReloadAfterNotLoaded(g)
        BY <1>0, <3>2 DEF ReloadAfterNotLoaded, Renderers
      <3> QED
        BY <1>1, <3>1, <3>2 DEF GenerationStep, CreateGeneration, AdmitGeneration, EnsureLoaded,
           GenerationAccepted, NextTake, EndGeneration, Renderers
    <2>2. /\ train' = train /\ inUse' = inUse /\ (child # "none" => child' # "none")
      BY <1>1 DEF GenerationStep, CreateGeneration, AdmitGeneration, EnsureLoaded, SubmitGeneration,
         GenerationAccepted, ReloadAfterNotLoaded, NextTake, EndGeneration
    <2> QED
      BY <2>1, <2>2, SameUsers DEF Trainers
  <1>2. ASSUME NEW l \in Loras, LoraStep(l) PROVE TakesKeepTheirChild'
    <2>1. Trainers' = Trainers
      <3>1. CASE SubmitTraining(l)
        BY <1>0, <3>1 DEF SubmitTraining, Trainers, TrainUses, IInv, SubmittedOnce
      <3> QED
        BY <1>2, <3>1 DEF LoraStep, PickLoraWorker, ReserveHold, ReserveRefused, LoadTrainingModel,
           TrainingAccepted, LoraCallFails, ProbeHandover, ReleaseLoraHold, EndLora, Trainers
    <2>2. /\ task' = task /\ inUse' = inUse /\ (child # "none" => child' # "none")
      BY <1>2 DEF LoraStep, PickLoraWorker, ReserveHold, ReserveRefused, LoadTrainingModel,
         SubmitTraining, TrainingAccepted, LoraCallFails, ProbeHandover, ReleaseLoraHold, EndLora
    <2> QED
      BY <2>1, <2>2, SameUsers DEF Renderers
  <1>3. ASSUME NEW t \in Tasks, TakeStep(t) PROVE TakesKeepTheirChild'
    <2>0. Trainers' = Trainers /\ child' = child
      BY <1>3 DEF TakeStep, CheckHold, AcquireForTake, ReleaseTakeModel, DiscardTask, Trainers
    <2>1. CASE CheckHold(t) \/ DiscardTask(t) \/ (AcquireForTake(t) /\ child = "none")
      <3>1. Renderers' = Renderers /\ inUse' = inUse
        BY <1>0, <2>1 DEF CheckHold, DiscardTask, AcquireForTake, SetTask, Renderers
      <3> QED
        BY <2>0, <3>1, SameUsers
    <2>2. CASE AcquireForTake(t) /\ child # "none"
      <3>1. Renderers' = Renderers \cup {t} /\ t \notin Renderers /\ inUse' = inUse + 1
        BY <1>0, <2>2 DEF AcquireForTake, SetTask, Renderers
      <3>2. Cardinality(Renderers') = Cardinality(Renderers) + 1
        BY <3>1, UsersAreFinite, FS_AddElement
      <3> QED
        BY <1>0, <2>0, <2>2, <3>1, <3>2, UsersCounted, UsersCountedNext, UsersAreFinite
    <2>3. CASE ReleaseTakeModel(t)
      <3>1. Renderers' = Renderers \ {t} /\ t \in Renderers /\ inUse' = inUse - 1
        BY <1>0, <2>3 DEF ReleaseTakeModel, SetTask, Renderers
      <3>2. Cardinality(Renderers') = Cardinality(Renderers) - 1
        BY <3>1, UsersAreFinite, FS_RemoveElement
      <3> QED
        BY <1>0, <2>0, <3>1, <3>2, UsersCounted, UsersCountedNext, UsersAreFinite
    <2> QED
      BY <1>3, <2>1, <2>2, <2>3 DEF TakeStep
  <1>4. ASSUME NEW l \in Loras, TrainStep(l) PROVE TakesKeepTheirChild'
    <2>0. Renderers' = Renderers
      BY <1>4 DEF TrainStep, AcquireForTraining, RenewForTraining, ClaimHandover, EndTraining,
         ReleaseAndStop, ReleaseTrainingHold, ReleaseHandover, Renderers
    <2>1. CASE AcquireForTraining(l) /\ child # "none"
      <3>1. Trainers' = Trainers \cup {l} /\ l \notin Trainers /\ inUse' = inUse + 1 /\ child' = child
        BY <1>0, <2>1 DEF AcquireForTraining, SetTrain, Trainers, TrainUses
      <3>2. Cardinality(Trainers') = Cardinality(Trainers) + 1
        BY <3>1, UsersAreFinite, FS_AddElement
      <3> QED
        BY <1>0, <2>0, <2>1, <3>1, <3>2, UsersCounted, UsersCountedNext, UsersAreFinite
    <2>2. CASE /\ Trainers' = Trainers \ {l} /\ l \in Trainers /\ inUse' = inUse - 1
               /\ inUse - 1 > 0 => child' = child
      <3>1. Cardinality(Trainers') = Cardinality(Trainers) - 1
        BY <2>2, UsersAreFinite, FS_RemoveElement
      <3> QED
        BY <1>0, <2>0, <2>2, <3>1, UsersCounted, UsersCountedNext, UsersAreFinite
    <2>3. CASE Trainers' = Trainers /\ inUse' = inUse /\ (child # "none" => child' # "none")
      BY <2>0, <2>3, SameUsers
    <2>4. ASSUME AcquireForTraining(l), child = "none" PROVE TakesKeepTheirChild'
      BY <1>0, <2>3, <2>4 DEF AcquireForTraining, SetTrain, Trainers, TrainUses
    <2>5. ASSUME RenewForTraining(l) PROVE TakesKeepTheirChild'
      BY <1>0, <2>2, <2>3, <2>5 DEF RenewForTraining, CleanUpSetup, SetTrain, Trainers, TrainUses
    <2>6. ASSUME ClaimHandover(l) PROVE TakesKeepTheirChild'
      BY <1>0, <2>2, <2>3, <2>6 DEF ClaimHandover, CleanUpSetup, SetTrain, Trainers, TrainUses
    <2>7. ASSUME ReleaseAndStop(l) PROVE TakesKeepTheirChild'
      BY <1>0, <2>2, <2>7 DEF ReleaseAndStop, ChildAfterRelease, SetTrain, Trainers, TrainUses
    <2>8. ASSUME EndTraining(l) \/ ReleaseTrainingHold(l) \/ ReleaseHandover(l) PROVE TakesKeepTheirChild'
      BY <1>0, <2>3, <2>8 DEF EndTraining, ReleaseTrainingHold, ReleasePhases, ReleaseHandover, SetTrain,
         Trainers, TrainUses
    <2> QED
      BY <1>4, <2>1, <2>4, <2>5, <2>6, <2>7, <2>8 DEF TrainStep
  <1>5. CASE WorkerCrash
    <2>1. Renderers' = {} /\ Trainers' = {} /\ inUse' = 0
      BY <1>0, <1>5 DEF WorkerCrash, Renderers, Trainers, TrainUses
    <2> QED
      BY <2>1, FS_EmptySet, UsersCountedNext
  <1>6. CASE WorkerStart \/ MusicCrash \/ (\E l \in Loras : ExpireHold(l)) \/ UNCHANGED vars
    <2>1. task' = task /\ train' = train /\ inUse' = inUse /\ child' = child
      BY <1>6 DEF WorkerStart, MusicCrash, ExpireHold, vars
    <2> QED
      BY <2>1, SameUsers DEF Renderers, Trainers
  <1> QED
    BY <1>1, <1>2, <1>3, <1>4, <1>5, <1>6 DEF Next

\* A take never loses the child it runs on, and the cache's use count is exactly
\* the takes and trainings that have the child, through refused and failed
\* setups and crashes (acquire_for_use, release, release_and_stop).
THEOREM ChildKeptForUsers == Spec => []TakesKeepTheirChild
  <1>1. Init => TakesKeepTheirChild
    <2>1. Init => Renderers = {} /\ Trainers = {}
      BY DEF Init, Renderers, Trainers, TrainUses
    <2> QED
      BY <2>1, FS_EmptySet, UsersCounted DEF Init
  <1> QED
    BY <1>1, ChildKept, IInvCorrect, PTL DEF Spec

\* A training that still has its hold when it ends stops the child, unless
\* another LoRA submission has the child too: under its hold no take is counted
\* in _in_use, so release_and_stop sees the last user (docs/acestep.md:77).
THEOREM TrainingStopsChild == Spec => HeldTrainingStopsItsChild
  <1> DEFINE Ends(l) == train[l] = "stopping" /\ train'[l] = "stopped" /\ gpuHold = l
             Shared(l) == \E m \in Loras \ {l} : train[m] \in TrainUses
  <1>1. ASSUME IInv, TakesKeepTheirChild, Next, NEW l \in Loras, Ends(l), ~Shared(l)
        PROVE  child' = "none"
    <2>0. train \in [Loras -> TrainStates] /\ inUse \in Int
      BY <1>1 DEF IInv, TypeOK
    <2>1. Renderers = {}
      BY <1>1, GpuHoldAssumption DEF IInv, HoldExcludesTakes, Renderers
    <2>2. Trainers = {l}
      BY <1>1 DEF Trainers, TrainUses
    <2>3. inUse = 1
      <3>1. Cardinality(Renderers) = 0 /\ Cardinality(Trainers) = 1
        BY <2>1, <2>2, FS_EmptySet, FS_Singleton
      <3> QED
        BY <1>1, <3>1, UsersCounted
    <2>4. ReleaseAndStop(l)
      <3> USE DEF redisVars, genVars, crashVars, workerVars, cacheVars
      <3>1. ASSUME NEW g \in Gens, GenerationStep(g) PROVE FALSE
        BY <1>1, <3>1 DEF GenerationStep, CreateGeneration, AdmitGeneration, EnsureLoaded,
           SubmitGeneration, GenerationAccepted, ReloadAfterNotLoaded, NextTake, EndGeneration
      <3>2. ASSUME NEW m \in Loras, LoraStep(m) PROVE FALSE
        BY <1>1, <2>0, <3>2 DEF LoraStep, PickLoraWorker, ReserveHold, ReserveRefused,
           LoadTrainingModel, SubmitTraining, TrainingAccepted, LoraCallFails, ProbeHandover,
           ReleaseLoraHold, EndLora
      <3>3. ASSUME NEW t \in Tasks, TakeStep(t) PROVE FALSE
        BY <1>1, <3>3 DEF TakeStep, CheckHold, AcquireForTake, ReleaseTakeModel, DiscardTask
      <3>4. ASSUME NEW m \in Loras, TrainStep(m) PROVE ReleaseAndStop(l)
        BY <1>1, <2>0, <3>4 DEF TrainStep, AcquireForTraining, RenewForTraining, ClaimHandover,
           CleanUpSetup, EndTraining, ReleaseAndStop, ReleaseTrainingHold, ReleasePhases,
           ReleaseHandover, SetTrain
      <3>5. ASSUME WorkerCrash \/ WorkerStart \/ MusicCrash \/ \E m \in Loras : ExpireHold(m)
            PROVE  FALSE
        BY <1>1, <2>0, <3>5 DEF WorkerCrash, WorkerStart, MusicCrash, ExpireHold
      <3> QED
        BY <1>1, <3>1, <3>2, <3>3, <3>4, <3>5 DEF Next
    <2> QED
      BY <2>3, <2>4 DEF ReleaseAndStop, ChildAfterRelease
  <1>2. IInv /\ TakesKeepTheirChild /\ [Next]_vars
        => [\A l \in Loras : Ends(l) => child' = "none" \/ Shared(l)]_vars
    BY <1>1
  <1>3. [\A l \in Loras : Ends(l) => child' = "none" \/ Shared(l)]_vars
        <=> [\A l \in Loras :
               train[l] = "stopping" /\ train'[l] = "stopped" /\ gpuHold = l
               => \/ child' = "none"
                  \/ \E m \in Loras \ {l} : train[m] \in
                         {"acquired", "renewed", "training", "stopping"}]_vars
    BY DEF TrainUses
  <1> QED
    BY <1>2, <1>3, IInvCorrect, ChildKeptForUsers, PTL DEF Spec, HeldTrainingStopsItsChild
=============================================================================
