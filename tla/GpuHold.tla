------------------------------ MODULE GpuHold ------------------------------
(***************************************************************************)
(* How one ACE-Step worker's GPU is shared between generation takes and    *)
(* LoRA trainings.                                                         *)
(*                                                                         *)
(* Three processes take part.  The music worker (an arq process) runs the  *)
(* generation jobs and the LoRA jobs; the ACE-Step worker (a FastAPI       *)
(* process) runs the takes and the trainings on one model child; Redis     *)
(* keeps the two keys they agree through: queueDepth, the number of        *)
(* admitted generation jobs, and gpuHold, the token of the LoRA job that   *)
(* has the GPU.  gpuHold has a TTL of 15 s and is renewed every 5 s.       *)
(*                                                                         *)
(* An asyncio handler is split where it awaits something another handler   *)
(* can change; a Lua script is one step because Redis runs it as one.      *)
(***************************************************************************)
EXTENDS Integers, FiniteSets

CONSTANTS
    Gens,              \* generation jobs
    Loras,             \* runs of run_lora_training_job; each reserves at most
                       \* one token, so the run names its token
    MaxTakes,          \* takes in a generation job's series
    MaxWorkerCrashes,  \* bound: restarts of the ACE-Step worker
    MaxMusicCrashes,   \* bound: kills of the music worker
    NoHold,            \* the hold key does not exist
    Nobody             \* gpu_hold_admission_lock is free

ASSUME GpuHoldAssumption ==
    /\ MaxTakes \in Nat \ {0}
    /\ MaxWorkerCrashes \in Nat
    /\ MaxMusicCrashes \in Nat
    /\ NoHold \notin Loras

\* One take of a job: a task of the worker's TaskStore.
Tasks == Gens \X (1 .. MaxTakes)

ASSUME NobodyAssumption == Nobody \notin Tasks

ASSUME FiniteJobsAssumption == IsFiniteSet(Gens) /\ IsFiniteSet(Loras)

VARIABLES
    queueDepth,       \* Redis: songmaker:acestep:queue:{worker}
    gpuHold,          \* Redis: songmaker:acestep:hold:{worker}
    lapsed,           \* history: tokens Redis expired while they were the hold
    gen,              \* music: where each generation job is
    take,             \* music: the take each generation job is on
    reloaded,         \* music: jobs whose current take has used its one reload
    lora,             \* music: where each LoRA job is
    musicCrashes,
    up,               \* the ACE-Step worker serves requests
    workerCrashes,
    admissionLock,    \* the task whose handler has gpu_hold_admission_lock
    generationTasks,  \* gpu_hold_generation_tasks
    handoverTokens,   \* gpu_hold_handover_tokens
    task,             \* where each take's /generate handler and runner are
    train,            \* where each LoRA job's train_lora handler and runner are
    child,            \* the mode's ACE-Step child: none, clean, or used by a training
    inUse             \* ModelCache._in_use of the mode

redisVars  == <<queueDepth, gpuHold, lapsed>>
genVars    == <<gen, take, reloaded>>
crashVars  == <<musicCrashes, up, workerCrashes>>
workerVars == <<admissionLock, generationTasks, handoverTokens, task, train>>
cacheVars  == <<child, inUse>>
vars == <<redisVars, genVars, lora, crashVars, workerVars, cacheVars>>

GenStates   == {"absent", "queued", "admitted", "loaded", "posting", "streaming", "done"}
LoraStates  == {"waiting", "picked", "reserved", "loaded", "submitted", "probing",
                "releasing", "releasing_again", "reading", "ended"}
TaskStates  == {"none", "received", "acquiring", "rendering", "rendered", "finished",
                "held", "unloaded", "lost"}
TrainStates == {"none", "received", "acquired", "renewed", "rejected", "training",
                "stopping", "stopped", "released", "ended", "lost"}

\* The generation jobs that own an admission: run_generation_job's try block.
Admitted == {g \in Gens : gen[g] \in {"admitted", "loaded", "posting", "streaming"}}

TypeOK ==
    /\ queueDepth \in Int
    /\ gpuHold \in Loras \cup {NoHold}
    /\ lapsed \subseteq Loras
    /\ gen \in [Gens -> GenStates]
    /\ take \in [Gens -> 1 .. MaxTakes]
    /\ reloaded \subseteq Gens
    /\ lora \in [Loras -> LoraStates]
    /\ musicCrashes \in 0 .. MaxMusicCrashes
    /\ up \in BOOLEAN
    /\ workerCrashes \in 0 .. MaxWorkerCrashes
    /\ admissionLock \in Tasks \cup {Nobody}
    /\ generationTasks \subseteq Tasks
    /\ handoverTokens \subseteq Loras
    /\ task \in [Tasks -> TaskStates]
    /\ train \in [Loras -> TrainStates]
    /\ child \in {"none", "clean", "trained"}
    /\ inUse \in Int

Init ==
    /\ queueDepth = 0
    /\ gpuHold = NoHold
    /\ lapsed = {}
    /\ gen = [g \in Gens |-> "absent"]
    /\ take = [g \in Gens |-> 1]
    /\ reloaded = {}
    /\ lora = [l \in Loras |-> "waiting"]
    /\ musicCrashes = 0
    /\ up = TRUE
    /\ workerCrashes = 0
    /\ admissionLock = Nobody
    /\ generationTasks = {}
    /\ handoverTokens = {}
    /\ task = [t \in Tasks |-> "none"]
    /\ train = [l \in Loras |-> "none"]
    /\ child = "none"
    /\ inUse = 0
-----------------------------------------------------------------------------
(***************************************************************************)
(* The guards the two sides rely on, one operator each.                    *)
(***************************************************************************)

\* Mutant: the admission script forgets the EXISTS test.
AdmitScriptIgnoresHold == TRUE

\* ADMIT_GENERATION_SCRIPT: refused while a hold exists.
AdmitGenerationAllowed == gpuHold = NoHold

\* Mutant: /generate trusts the admission and does not look at the hold.
GenerateIgnoresHold == TRUE

\* _reserve_generation_task, under the admission lock: no hold may exist.
GenerateAllowed == gpuHold = NoHold

\* Mutant: /gpu_hold/reserve relies on the Redis depth alone.
ReserveIgnoresTasks ==
    /\ admissionLock = Nobody
    /\ gpuHold = NoHold
    /\ queueDepth <= 0

\* Mutant: /gpu_hold/reserve does not take the admission lock.
ReserveWithoutLock ==
    /\ generationTasks = {}
    /\ gpuHold = NoHold
    /\ queueDepth <= 0

\* reserve_hold under the admission lock, with RESERVE_GPU_HOLD_SCRIPT.
ReserveAllowed ==
    /\ admissionLock = Nobody
    /\ generationTasks = {}
    /\ gpuHold = NoHold
    /\ queueDepth <= 0

\* _create_gpu_hold_handover_task: an unclaimed token that is still the hold.
ClaimAllowed(l) == l \notin handoverTokens /\ gpuHold = l

\* Mutant: a release is honoured although a training owns the token.
ReleaseIgnoresHandover(l) == gpuHold = l

\* release_hold: not handed over, and RELEASE_GPU_HOLD_SCRIPT matches the token.
ReleaseAllowed(l) == l \notin handoverTokens /\ gpuHold = l
-----------------------------------------------------------------------------
(***************************************************************************)
(* Music worker: generation jobs.                                          *)
(***************************************************************************)

\* The API creates the job row and enqueues it.
CreateGeneration(g) ==
    /\ gen[g] = "absent"
    /\ gen' = [gen EXCEPT ![g] = "queued"]
    /\ UNCHANGED <<redisVars, take, reloaded, lora, crashVars, workerVars, cacheVars>>

\* admit_generation_worker.  A refused admission puts the job back in the
\* queue, which is the state it is in.
AdmitGeneration(g) ==
    /\ gen[g] = "queued"
    /\ AdmitGenerationAllowed
    /\ queueDepth' = queueDepth + 1
    /\ gen' = [gen EXCEPT ![g] = "admitted"]
    /\ UNCHANGED <<gpuHold, lapsed, take, reloaded, lora, crashVars, workerVars, cacheVars>>

\* _ensure_loaded: the scheduler's view of what is loaded may be stale, so a
\* load of a child that is gone may or may not be asked for.
EnsureLoaded(g) ==
    /\ up
    /\ gen[g] = "admitted"
    /\ gen' = [gen EXCEPT ![g] = "loaded"]
    /\ child' \in (IF child = "none" THEN {"none", "clean"} ELSE {child})
    /\ UNCHANGED <<redisVars, take, reloaded, lora, crashVars, workerVars, inUse>>

\* _submit_generation: POST /generate reaches the worker.
SubmitGeneration(g) ==
    /\ up
    /\ gen[g] = "loaded"
    /\ gen' = [gen EXCEPT ![g] = "posting"]
    /\ task' = [task EXCEPT ![<<g, take[g]>>] = "received"]
    /\ UNCHANGED <<redisVars, take, reloaded, lora, crashVars, admissionLock, generationTasks,
                   handoverTokens, train, cacheVars>>

\* The worker answers 200 with a task id and music follows its event stream.
GenerationAccepted(g) ==
    /\ gen[g] = "posting"
    /\ task[<<g, take[g]>>] \in {"rendering", "rendered", "finished"}
    /\ gen' = [gen EXCEPT ![g] = "streaming"]
    /\ UNCHANGED <<redisVars, take, reloaded, lora, crashVars, workerVars, cacheVars>>

\* 409 "mode not loaded": dispatch_generation_on_worker loads the mode and
\* posts once more.
ReloadAfterNotLoaded(g) ==
    /\ up
    /\ gen[g] = "posting"
    /\ task[<<g, take[g]>>] = "unloaded"
    /\ g \notin reloaded
    /\ reloaded' = reloaded \cup {g}
    /\ child' = (IF child = "none" THEN "clean" ELSE child)
    /\ task' = [task EXCEPT ![<<g, take[g]>>] = "received"]
    /\ UNCHANGED <<redisVars, gen, take, lora, crashVars, admissionLock, generationTasks,
                   handoverTokens, train, inUse>>

\* Mutant: the series runs one take too many.
OneTakeTooMany(g) == take[g] <= MaxTakes

\* for index in range(count).
MoreTakes(g) == take[g] < MaxTakes

\* The take is over for music, whether it was fetched, refused (409), silent
\* for too long or cut off: the next take of the series starts.
NextTake(g) ==
    /\ g \in Admitted
    /\ MoreTakes(g)
    /\ take' = [take EXCEPT ![g] = @ + 1]
    /\ reloaded' = reloaded \ {g}
    /\ gen' = [gen EXCEPT ![g] = "admitted"]
    /\ UNCHANGED <<redisVars, lora, crashVars, workerVars, cacheVars>>

\* The finally block of run_generation_job: after the last take, an error, an
\* arq timeout, or a job found terminal.
EndGeneration(g) ==
    /\ g \in Admitted
    /\ gen' = [gen EXCEPT ![g] = "done"]
    /\ queueDepth' = queueDepth - 1
    /\ UNCHANGED <<gpuHold, lapsed, take, reloaded, lora, crashVars, workerVars, cacheVars>>
-----------------------------------------------------------------------------
(***************************************************************************)
(* Music worker: LoRA jobs.                                                *)
(***************************************************************************)

SetLora(l, s) == lora' = [lora EXCEPT ![l] = s]

\* _reserve_lora_worker before the POST: a worker is not held, and no
\* generation waits in the queue.  Otherwise the job is deferred.
PickLoraWorker(l) ==
    /\ lora[l] = "waiting"
    /\ gpuHold = NoHold
    /\ \A g \in Gens : gen[g] # "queued"
    /\ SetLora(l, "picked")
    /\ UNCHANGED <<redisVars, genVars, crashVars, workerVars, cacheVars>>

\* POST /gpu_hold/reserve.  The answer may be lost: the job then fails and the
\* token is left to its TTL.
ReserveHold(l) ==
    /\ up
    /\ lora[l] = "picked"
    /\ ReserveAllowed
    /\ gpuHold' = l
    /\ \/ SetLora(l, "reserved")
       \/ SetLora(l, "ended")
    /\ UNCHANGED <<queueDepth, lapsed, genVars, crashVars, workerVars, cacheVars>>

\* 409: AllWorkersHeld, the job is deferred.
ReserveRefused(l) ==
    /\ up
    /\ lora[l] = "picked"
    /\ ~ReserveAllowed
    /\ SetLora(l, "waiting")
    /\ UNCHANGED <<redisVars, genVars, crashVars, workerVars, cacheVars>>

\* _load_lora_training_model.
LoadTrainingModel(l) ==
    /\ up
    /\ lora[l] = "reserved"
    /\ SetLora(l, "loaded")
    /\ child' = (IF child = "none" THEN "clean" ELSE child)
    /\ UNCHANGED <<redisVars, genVars, crashVars, workerVars, inUse>>

\* _submit_lora_training: POST /tasks/train_lora reaches the worker.
SubmitTraining(l) ==
    /\ up
    /\ lora[l] = "loaded"
    /\ SetLora(l, "submitted")
    /\ train' = [train EXCEPT ![l] = "received"]
    /\ UNCHANGED <<redisVars, genVars, crashVars, admissionLock, generationTasks,
                   handoverTokens, task, cacheVars>>

\* The 200 arrives: handover.complete, the music-side renewal is cancelled.
TrainingAccepted(l) ==
    /\ lora[l] = "submitted"
    /\ train[l] \in {"training", "stopping", "stopped", "released", "ended"}
    /\ SetLora(l, "reading")
    /\ UNCHANGED <<redisVars, genVars, crashVars, workerVars, cacheVars>>

\* A call fails, times out, is cancelled, or loses the race with a failed
\* renewal.  Before the submission is transmitted the hold is released;
\* afterwards the worker is asked whether it claimed the token.
LoraCallFails(l) ==
    /\ \/ lora[l] = "picked" /\ SetLora(l, "ended")
       \/ lora[l] = "reserved" /\ SetLora(l, "releasing_again")
       \/ lora[l] = "reserved" /\ SetLora(l, "releasing")
       \/ lora[l] = "loaded" /\ SetLora(l, "releasing")
       \/ lora[l] = "submitted" /\ SetLora(l, "probing")
    /\ UNCHANGED <<redisVars, genVars, crashVars, workerVars, cacheVars>>

\* _worker_claimed_lora_handover.  With no answer the hold is assumed to be the
\* worker's and is not released.
ProbeHandover(l) ==
    /\ lora[l] = "probing"
    /\ \/ up /\ l \in handoverTokens /\ SetLora(l, "reading")
       \/ up /\ l \notin handoverTokens /\ SetLora(l, "releasing")
       \/ SetLora(l, "ended")
    /\ UNCHANGED <<redisVars, genVars, crashVars, workerVars, cacheVars>>

\* POST /gpu_hold/release, best effort: the worker refuses a token that a
\* training owns, and the call itself may fail.  _prepare_and_submit_lora
\* repeats it in its finally block.
ReleaseLoraHold(l) ==
    /\ lora[l] \in {"releasing", "releasing_again"}
    /\ SetLora(l, IF lora[l] = "releasing" THEN "releasing_again" ELSE "ended")
    /\ \/ up /\ ReleaseAllowed(l) /\ gpuHold' = NoHold
       \/ gpuHold' = gpuHold
    /\ UNCHANGED <<queueDepth, lapsed, genVars, crashVars, workerVars, cacheVars>>

\* The event stream ends, well or not, and the LoRA job with it.
EndLora(l) ==
    /\ lora[l] = "reading"
    /\ SetLora(l, "ended")
    /\ UNCHANGED <<redisVars, genVars, crashVars, workerVars, cacheVars>>
-----------------------------------------------------------------------------
(***************************************************************************)
(* ACE-Step worker: /generate.                                             *)
(***************************************************************************)

SetTask(t, s) == task' = [task EXCEPT ![t] = s]

\* _reserve_generation_task takes the admission lock and looks for a hold.
CheckHold(t) ==
    /\ up
    /\ task[t] = "received"
    /\ admissionLock = Nobody
    /\ IF GenerateAllowed
       THEN SetTask(t, "acquiring") /\ admissionLock' = t
       ELSE SetTask(t, "held") /\ UNCHANGED admissionLock
    /\ UNCHANGED <<redisVars, genVars, lora, crashVars, generationTasks, handoverTokens,
                   train, cacheVars>>

\* Still under the lock: the child is acquired and the task recorded, or the
\* mode is not loaded.
AcquireForTake(t) ==
    /\ up
    /\ task[t] = "acquiring"
    /\ admissionLock' = Nobody
    /\ IF child = "none"
       THEN SetTask(t, "unloaded") /\ UNCHANGED <<generationTasks, inUse>>
       ELSE /\ SetTask(t, "rendering")
            /\ generationTasks' = generationTasks \cup {t}
            /\ inUse' = inUse + 1
    /\ UNCHANGED <<redisVars, genVars, lora, crashVars, handoverTokens, train, child>>

\* The runner ended; cache.release comes first.
ReleaseTakeModel(t) ==
    /\ up
    /\ task[t] = "rendering"
    /\ SetTask(t, "rendered")
    /\ inUse' = inUse - 1
    /\ UNCHANGED <<redisVars, genVars, lora, crashVars, admissionLock, generationTasks,
                   handoverTokens, train, child>>

\* Then, under the admission lock, the task is discarded.
DiscardTask(t) ==
    /\ up
    /\ task[t] = "rendered"
    /\ admissionLock = Nobody
    /\ SetTask(t, "finished")
    /\ generationTasks' = generationTasks \ {t}
    /\ UNCHANGED <<redisVars, genVars, lora, crashVars, admissionLock, handoverTokens,
                   train, cacheVars>>
-----------------------------------------------------------------------------
(***************************************************************************)
(* ACE-Step worker: /tasks/train_lora.                                     *)
(***************************************************************************)

SetTrain(l, s) == train' = [train EXCEPT ![l] = s]

\* _acquire_training_model.
AcquireForTraining(l) ==
    /\ up
    /\ train[l] = "received"
    /\ IF child = "none"
       THEN SetTrain(l, "rejected") /\ UNCHANGED inUse
       ELSE SetTrain(l, "acquired") /\ inUse' = inUse + 1
    /\ UNCHANGED <<redisVars, genVars, lora, crashVars, admissionLock, generationTasks,
                   handoverTokens, task, child>>

\* _clean_up_train_lora_setup: the model is released and the token unclaimed.
CleanUpSetup(l) ==
    /\ SetTrain(l, "rejected")
    /\ inUse' = inUse - 1
    /\ handoverTokens' = handoverTokens \ {l}

\* _renew_training_hold: the worker renews the hold and starts its own renewal.
RenewForTraining(l) ==
    /\ up
    /\ train[l] = "acquired"
    /\ \/ gpuHold = l /\ SetTrain(l, "renewed") /\ UNCHANGED <<inUse, handoverTokens>>
       \/ gpuHold # l /\ CleanUpSetup(l)
    /\ UNCHANGED <<redisVars, genVars, lora, crashVars, admissionLock, generationTasks,
                   task, child>>

\* _claim_training_handover and the start of the runner.
ClaimHandover(l) ==
    /\ up
    /\ train[l] = "renewed"
    /\ IF ClaimAllowed(l)
       THEN /\ SetTrain(l, "training")
            /\ handoverTokens' = handoverTokens \cup {l}
            /\ child' = "trained"
            /\ UNCHANGED inUse
       ELSE CleanUpSetup(l) /\ UNCHANGED child
    /\ UNCHANGED <<redisVars, genVars, lora, crashVars, admissionLock, generationTasks, task>>

\* The runner returned or failed, or _await_training_or_renewal cancelled it
\* because a renewal found the token gone.
EndTraining(l) ==
    /\ up
    /\ train[l] = "training"
    /\ SetTrain(l, "stopping")
    /\ UNCHANGED <<redisVars, genVars, lora, crashVars, admissionLock, generationTasks,
                   handoverTokens, task, cacheVars>>

\* Mutant: the child is stopped whoever else uses it.
StopChildAlways == "none"

\* ModelCache.release_and_stop: the child is stopped by its last user only.
ChildAfterRelease == IF inUse - 1 > 0 THEN child ELSE "none"

\* _release_train_lora_resources, first part.
ReleaseAndStop(l) ==
    /\ up
    /\ train[l] = "stopping"
    /\ SetTrain(l, "stopped")
    /\ inUse' = inUse - 1
    /\ child' = ChildAfterRelease
    /\ UNCHANGED <<redisVars, genVars, lora, crashVars, admissionLock, generationTasks,
                   handoverTokens, task>>

\* The phase in which the cleanup gives the hold back.
ReleasePhases == {"stopped"}

\* Second part: RELEASE_GPU_HOLD_SCRIPT.
ReleaseTrainingHold(l) ==
    /\ up
    /\ train[l] \in ReleasePhases
    /\ SetTrain(l, "released")
    /\ gpuHold' = (IF gpuHold = l THEN NoHold ELSE gpuHold)
    /\ UNCHANGED <<queueDepth, lapsed, genVars, lora, crashVars, admissionLock,
                   generationTasks, handoverTokens, task, cacheVars>>

\* Third part: _release_gpu_hold_handover.
ReleaseHandover(l) ==
    /\ up
    /\ train[l] = "released"
    /\ SetTrain(l, "ended")
    /\ handoverTokens' = handoverTokens \ {l}
    /\ UNCHANGED <<redisVars, genVars, lora, crashVars, admissionLock, generationTasks,
                   task, cacheVars>>
-----------------------------------------------------------------------------
(***************************************************************************)
(* Expiry and crashes.                                                     *)
(***************************************************************************)

\* Mutant: _prepare_and_submit_lora does not cancel its renewal task at the end.
RenewalNotCancelled(l) ==
    \/ lora[l] \in {"reserved", "loaded", "submitted", "probing", "releasing_again", "ended"}
    \/ up /\ train[l] \in {"renewed", "training", "stopping"}

\* The renewal loops: the job's, cancelled when its call of the worker ended,
\* and the one the worker starts when it takes the training over.
RenewedByJob(l) == lora[l] \in {"reserved", "loaded", "submitted", "probing", "releasing_again"}
RenewedByWorker(l) == up /\ train[l] \in {"renewed", "training", "stopping"}

\* Someone's renewal loop is running for the token.
Renewed(l) == RenewedByJob(l) \/ RenewedByWorker(l)

\* Redis expires the hold.  A renewed hold can lapse too: a stalled event loop
\* or an unreachable Redis delays the renewal past the TTL.
ExpireHold(l) ==
    /\ gpuHold = l
    /\ gpuHold' = NoHold
    /\ lapsed' = lapsed \cup {l}
    /\ UNCHANGED <<queueDepth, genVars, lora, crashVars, workerVars, cacheVars>>

\* The ACE-Step worker's process ends: every in-process fact is gone, the Redis
\* keys stay.
WorkerCrash ==
    /\ up
    /\ workerCrashes < MaxWorkerCrashes
    /\ up' = FALSE
    /\ workerCrashes' = workerCrashes + 1
    /\ admissionLock' = Nobody
    /\ generationTasks' = {}
    /\ handoverTokens' = {}
    /\ task' = [t \in Tasks |-> IF task[t] \in {"received", "acquiring", "rendering", "rendered"}
                                THEN "lost" ELSE task[t]]
    /\ train' = [l \in Loras |-> IF train[l] \in {"none", "rejected", "ended"}
                                 THEN train[l] ELSE "lost"]
    /\ child' = "none"
    /\ inUse' = 0
    /\ UNCHANGED <<redisVars, genVars, lora, musicCrashes>>

\* lifespan: clear_orphaned_queue deletes both keys before requests are served.
WorkerStart ==
    /\ ~up
    /\ up' = TRUE
    /\ queueDepth' = 0
    /\ gpuHold' = NoHold
    /\ UNCHANGED <<lapsed, genVars, lora, musicCrashes, workerCrashes, workerVars, cacheVars>>

\* The music worker is killed: no finally block runs.  Recovery on its next
\* start fails the jobs it was running.
MusicCrash ==
    /\ musicCrashes < MaxMusicCrashes
    /\ musicCrashes' = musicCrashes + 1
    /\ gen' = [g \in Gens |-> IF g \in Admitted THEN "done" ELSE gen[g]]
    /\ lora' = [l \in Loras |-> IF lora[l] = "waiting" THEN "waiting" ELSE "ended"]
    /\ UNCHANGED <<redisVars, take, reloaded, up, workerCrashes, workerVars, cacheVars>>
-----------------------------------------------------------------------------
GenerationStep(g) ==
    \/ CreateGeneration(g) \/ AdmitGeneration(g) \/ EnsureLoaded(g) \/ SubmitGeneration(g)
    \/ GenerationAccepted(g) \/ ReloadAfterNotLoaded(g) \/ NextTake(g) \/ EndGeneration(g)

LoraStep(l) ==
    \/ PickLoraWorker(l) \/ ReserveHold(l) \/ ReserveRefused(l) \/ LoadTrainingModel(l)
    \/ SubmitTraining(l) \/ TrainingAccepted(l) \/ LoraCallFails(l) \/ ProbeHandover(l)
    \/ ReleaseLoraHold(l) \/ EndLora(l)

TakeStep(t) ==
    CheckHold(t) \/ AcquireForTake(t) \/ ReleaseTakeModel(t) \/ DiscardTask(t)

TrainStep(l) ==
    \/ AcquireForTraining(l) \/ RenewForTraining(l) \/ ClaimHandover(l) \/ EndTraining(l)
    \/ ReleaseAndStop(l) \/ ReleaseTrainingHold(l) \/ ReleaseHandover(l)

Next ==
    \/ \E g \in Gens : GenerationStep(g)
    \/ \E l \in Loras : LoraStep(l) \/ TrainStep(l) \/ ExpireHold(l)
    \/ \E t \in Tasks : TakeStep(t)
    \/ WorkerCrash \/ WorkerStart \/ MusicCrash

Spec == Init /\ [][Next]_vars

\* The asyncio loops of the two processes keep running their handlers and HTTP
\* calls time out, Redis expires a key nobody renews, Docker restarts a dead
\* worker.  Nothing bounds a training (_await_lora_training polls until the
\* child reports its end), so EndTraining has no fairness.
FairSpec ==
    /\ Spec
    /\ WF_vars(WorkerStart)
    /\ \A l \in Loras :
        /\ WF_vars(LoadTrainingModel(l)) /\ WF_vars(SubmitTraining(l))
        /\ WF_vars(TrainingAccepted(l)) /\ WF_vars(LoraCallFails(l))
        /\ WF_vars(ProbeHandover(l)) /\ WF_vars(ReleaseLoraHold(l))
        /\ WF_vars(AcquireForTraining(l)) /\ WF_vars(RenewForTraining(l))
        /\ WF_vars(ClaimHandover(l)) /\ WF_vars(ReleaseAndStop(l))
        /\ WF_vars(ReleaseTrainingHold(l)) /\ WF_vars(ReleaseHandover(l))
        /\ WF_vars(~Renewed(l) /\ ExpireHold(l))
-----------------------------------------------------------------------------
(***************************************************************************)
(* Properties.                                                             *)
(***************************************************************************)

\* While a hold exists no take is on the GPU, and none that already passed
\* /generate's hold test is about to be: the admission lock makes the two
\* tests of _reserve_generation_task and reserve_hold exclusive.
HoldExcludesTakes ==
    gpuHold # NoHold =>
        /\ generationTasks = {}
        /\ \A t \in Tasks : task[t] \notin {"acquiring", "rendering", "rendered"}

\* A training loses its hold only by expiry: neither a coordinator whose
\* submission timed out, nor another job's reservation, nor a setup that failed
\* takes it away (release_hold, _create_gpu_hold_handover_task).
TrainingKeepsItsHold ==
    \A l \in Loras :
        train[l] \in {"training", "stopping", "stopped"} /\ l \notin lapsed => gpuHold = l

\* The point of the hold: a training whose hold has not lapsed shares the GPU
\* with no take and no other training.
TrainingIsExclusive ==
    \A l \in Loras :
        train[l] = "training" /\ l \notin lapsed =>
            /\ generationTasks = {}
            /\ \A m \in Loras \ {l} : train[m] = "training" => m \in lapsed

\* A take never loses the child it runs on, and the use count of the cache is
\* exactly the takes and trainings that hold the child (acquire_for_use,
\* release, release_and_stop).
TakesKeepTheirChild ==
    /\ inUse = Cardinality({t \in Tasks : task[t] = "rendering"})
               + Cardinality({l \in Loras : train[l] \in
                                 {"acquired", "renewed", "training", "stopping"}})
    /\ inUse > 0 => child # "none"

\* "When a training ends, whether it succeeded, failed or was cancelled, the
\* worker stops that mode's ACE-Step child" (docs/acestep.md:77).  That much
\* holds (release_and_stop): a training that still has its hold when it ends
\* stops its child, unless another LoRA submission has the child too (its own
\* hold lapsed or was given up).  No take ever has it.
HeldTrainingStopsItsChild ==
    [][\A l \in Loras :
            train[l] = "stopping" /\ train'[l] = "stopped" /\ gpuHold = l
            => \/ child' = "none"
               \/ \E m \in Loras \ {l} : train[m] \in
                      {"acquired", "renewed", "training", "stopping"}]_vars

\* Every hold is given back unless a training is running under it: also when
\* the music worker died with it, the answer to the reservation was lost, or
\* nobody could learn whether the worker claimed it.
HoldIsFreed ==
    \A l \in Loras : gpuHold = l ~> (gpuHold # l \/ train[l] = "training")

\* A generation job owns its admission for its complete take series
\* (scheduler.py, module docstring): no hold is granted meanwhile.
AdmissionOwnedForSeries == gpuHold # NoHold => Admitted = {}
=============================================================================
