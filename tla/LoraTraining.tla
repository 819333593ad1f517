---------------------------- MODULE LoraTraining ----------------------------
(***************************************************************************)
(* One voice (a UserLora row), the training jobs started for it, and the   *)
(* adapter directories on disk.  A run of run_lora_training_job adopts the *)
(* trained adapter by renaming directories and writing the row step by     *)
(* step; the music worker may die between any two of those steps, and      *)
(* reconcile_crashed_loras then decides from what is on disk whether the   *)
(* voice is ready.  The GPU hold itself is the subject of GpuHold: here it *)
(* is only the guard that one training runs at a time.                     *)
(*                                                                         *)
(* From the end of the training on, a run never awaits, so in the one      *)
(* music process such a stretch excludes every other run; the web          *)
(* processes interleave with it freely.                                    *)
(***************************************************************************)
EXTENDS Integers, FiniteSets

CONSTANTS
    Jobs,           \* training jobs that may be started for the voice
    Reconcilers,    \* processes that run reconcile_crashed_loras
    Original,       \* the adapter of an earlier training, Init may have it
    None,
    MaxCancels,     \* bound: jobs the musician cancels
    MaxCrashes,     \* bound: deaths of the music worker or of a reconciler
    MaxDiskErrors   \* bound: file-system operations that fail

ASSUME LoraTrainingAssumption ==
    /\ None \notin Jobs \cup {Original} \cup Reconcilers
    /\ Original \notin Jobs
    /\ MaxCancels \in Nat
    /\ MaxCrashes \in Nat
    /\ MaxDiskErrors \in Nat

VARIABLES
    job,        \* Job.status of each training job ("new": not created)
    delivered,  \* arq holds a delivery of the job
    run,        \* where the request or the run that carries the job is
    task,       \* the ACE-Step worker's train_lora task of the job
    prevMode,   \* PreviousAdapterRestoredError.previous_model_mode of the run
    lora,       \* the UserLora row: status, training_job_id, model_mode, deleted_at
    final,      \* what the adapter directory holds
    previous,   \* ... its .previous neighbour
    tmp,        \* ... the temporary training directory
    dataset,    \* the dataset directory exists
    record,     \* the completed-training-mode record: the job it names
    rec,        \* where each reconciler is
    saw,        \* the record it read names the voice's own job
    rowLock,    \* reconciler that holds the row (FOR UPDATE SKIP LOCKED)
    proc,       \* the music worker process
    cancels, crashes, diskErrors

jobVars   == <<job, delivered, run, task, prevMode>>
diskVars  == <<final, previous, tmp, dataset, record>>
recVars   == <<rec, saw, rowLock>>
boundVars == <<cancels, crashes, diskErrors>>
vars == <<jobVars, lora, diskVars, recVars, proc, boundVars>>

Adapters    == Jobs \cup {Original}
JobActive   == {"queued", "running"}
JobTerminal == {"completed", "failed", "cancelled"}

\* LORA_ACTIVE_STATUSES.
LoraActive == {"queued", "preprocessing", "training", "exporting"}

\* LORA_TRAINING_MODEL_MODES: every job trains the default mode, the adapter
\* the voice started with may be of the other one.
Modes     == {"sft", "turbo"}
ModeOf(a) == IF a = Original THEN "turbo" ELSE "sft"

\* A run that watches the worker's stream: _LoraProgressThrottle's last status.
Watching == {"preprocessing", "training", "exporting"}
\* The stretches without an await.
Adopting == {"record", "mode", "stage", "move", "prune", "clear", "ready", "complete"}
Failing  == {"failRow", "failPaths", "failJob"}
Keeping  == {"keepPaths", "keepRow", "keepJob"}
Sync     == Adopting \cup Failing \cup Keeping
RunStates == {"none", "enqueue", "reserve", "begin", "materialize", "prepare", "submit"}
                \cup Watching \cup Sync

TypeOK ==
    /\ job \in [Jobs -> {"new"} \cup JobActive \cup JobTerminal]
    /\ delivered \in [Jobs -> BOOLEAN]
    /\ run \in [Jobs -> RunStates]
    /\ task \in [Jobs -> {"none", "training", "exported", "failed"}]
    /\ prevMode \in [Jobs -> Modes \cup {None}]
    /\ lora \in [status : {"draft", "ready", "failed"} \cup LoraActive,
                 job : Jobs \cup {None}, mode : Modes, deleted : BOOLEAN]
    /\ final \in Adapters \cup {None}
    /\ previous \in Adapters \cup {None}
    /\ tmp \in Adapters \cup {None}
    /\ dataset \in BOOLEAN
    /\ record \in Jobs \cup {None}
    /\ rec \in [Reconcilers -> {"idle", "restore", "stage", "swap", "prune", "keep", "drop", "tidy"}]
    /\ saw \in [Reconcilers -> BOOLEAN]
    /\ rowLock \in Reconcilers \cup {None}
    /\ proc \in {"up", "down"}
    /\ cancels \in 0 .. MaxCancels
    /\ crashes \in 0 .. MaxCrashes
    /\ diskErrors \in 0 .. MaxDiskErrors

\* A fresh draft, or a voice trained before.
Init ==
    /\ job = [j \in Jobs |-> "new"]
    /\ delivered = [j \in Jobs |-> FALSE]
    /\ run = [j \in Jobs |-> "none"]
    /\ task = [j \in Jobs |-> "none"]
    /\ prevMode = [j \in Jobs |-> None]
    /\ \/ final = None
          /\ lora = [status |-> "draft", job |-> None, mode |-> "sft", deleted |-> FALSE]
       \/ final = Original
          /\ lora = [status |-> "ready", job |-> None, mode |-> ModeOf(Original), deleted |-> FALSE]
    /\ previous = None
    /\ tmp = None
    /\ dataset = FALSE
    /\ record = None
    /\ rec = [r \in Reconcilers |-> "idle"]
    /\ saw = [r \in Reconcilers |-> FALSE]
    /\ rowLock = None
    /\ proc = "up"
    /\ cancels = 0
    /\ crashes = 0
    /\ diskErrors = 0
-----------------------------------------------------------------------------
(***************************************************************************)
(* Rows and files.                                                         *)
(***************************************************************************)

\* update_job_status refuses to replace a terminal status.
UpdateJob(j, s) == job' = [job EXCEPT ![j] = IF @ \in JobTerminal THEN @ ELSE s]

\* update_user_lora waits while a reconciler holds the row.
UpdateLora(new) == rowLock = None /\ lora' = new

SetRun(j, s) == run' = [run EXCEPT ![j] = s]

\* No other run of the music process is in a stretch without an await.
Turn(j) == proc = "up" /\ \A k \in Jobs \ {j} : run[k] \notin Sync

DiskError == diskErrors < MaxDiskErrors /\ diskErrors' = diskErrors + 1

\* An operation that the state of the disk forbids, or that fails by chance.
FailsIf(forbidden) == (forbidden /\ UNCHANGED diskErrors) \/ DiskError

\* A removal or an unlink whose failure is only logged.
RemovedOrLogged(new, old) ==
    \/ new /\ UNCHANGED diskErrors
    \/ old /\ DiskError

\* _cleanup_failed_lora_paths.
CleanupPaths ==
    /\ dataset' = FALSE
    /\ tmp' = None
    /\ record' = None
    /\ UNCHANGED <<final, previous>>
-----------------------------------------------------------------------------
(***************************************************************************)
(* The musician.                                                           *)
(***************************************************************************)

\* api_train_lora, under lock_lora_capacity: the job and the row in one commit.
Train(j) ==
    /\ job[j] = "new"
    /\ ~lora.deleted
    /\ lora.status \notin LoraActive
    /\ UpdateLora([lora EXCEPT !.status = "queued", !.job = j])
    /\ job' = [job EXCEPT ![j] = "queued"]
    /\ SetRun(j, "enqueue")
    /\ UNCHANGED <<delivered, task, prevMode, diskVars, recVars, proc, boundVars>>

EnqueueJob(j) ==
    /\ run[j] = "enqueue"
    /\ delivered' = [delivered EXCEPT ![j] = TRUE]
    /\ SetRun(j, "none")
    /\ UNCHANGED <<job, task, prevMode, lora, diskVars, recVars, proc, boundVars>>

\* ConnectionError: _fail_training_job, or nothing when that fails as well.
EnqueueRefused(j) ==
    /\ run[j] = "enqueue"
    /\ \/ UpdateJob(j, "failed") /\ UpdateLora([lora EXCEPT !.status = "failed"])
       \/ UNCHANGED <<job, lora>>
    /\ SetRun(j, "none")
    /\ UNCHANGED <<delivered, task, prevMode, diskVars, recVars, proc, boundVars>>

\* api_delete_lora.
DeleteLora ==
    /\ ~lora.deleted
    /\ lora.status \notin LoraActive
    /\ UpdateLora([lora EXCEPT !.deleted = TRUE])
    /\ UNCHANGED <<jobVars, diskVars, recVars, proc, boundVars>>

\* api_cancel_job: the run is not told.
CancelJob(j) ==
    /\ cancels < MaxCancels
    /\ job[j] \in JobActive
    /\ UpdateJob(j, "cancelled")
    /\ cancels' = cancels + 1
    /\ UNCHANGED <<delivered, run, task, prevMode, lora, diskVars, recVars, proc, crashes,
                   diskErrors>>
-----------------------------------------------------------------------------
(***************************************************************************)
(* The run, up to the end of the training.                                 *)
(***************************************************************************)

\* check_job_still_valid and _load_lora_training_samples.
StartRun(j) ==
    /\ delivered[j]
    /\ run[j] = "none"
    /\ Turn(j)
    /\ delivered' = [delivered EXCEPT ![j] = FALSE]
    /\ IF job[j] \in JobTerminal \/ lora.deleted
       THEN UpdateJob(j, "failed") /\ UNCHANGED run
       ELSE SetRun(j, "reserve") /\ UNCHANGED job
    /\ UNCHANGED <<task, prevMode, lora, diskVars, recVars, proc, boundVars>>

\* A hold, taken by the run and handed over to the worker's task.
Holds(k) == run[k] \in {"begin", "materialize", "prepare", "submit"} \/ task[k] = "training"

\* _reserve_lora_worker.
Reserve(j) ==
    /\ run[j] = "reserve"
    /\ Turn(j)
    /\ \A k \in Jobs : ~Holds(k)
    /\ SetRun(j, "begin")
    /\ UNCHANGED <<job, delivered, task, prevMode, lora, diskVars, recVars, proc, boundVars>>

\* AllWorkersHeld: _defer_lora_training_for_generation.
Defer(j) ==
    /\ run[j] = "reserve"
    /\ Turn(j)
    /\ \/ /\ UpdateJob(j, "queued")
          /\ delivered' = [delivered EXCEPT ![j] = TRUE]
          /\ SetRun(j, "none")
       \/ SetRun(j, "failRow") /\ UNCHANGED <<job, delivered>>
    /\ UNCHANGED <<task, prevMode, lora, diskVars, recVars, proc, boundVars>>

\* The RUNNING write; refused for a terminal job, the run ends.
Begin(j) ==
    /\ run[j] = "begin"
    /\ Turn(j)
    /\ UpdateJob(j, "running")
    /\ SetRun(j, IF job[j] \in JobTerminal THEN "none" ELSE "materialize")
    /\ UNCHANGED <<delivered, task, prevMode, lora, diskVars, recVars, proc, boundVars>>

\* _materialize_dataset, in a thread.
Materialize(j) ==
    /\ run[j] = "materialize"
    /\ proc = "up"
    /\ dataset' = TRUE
    /\ SetRun(j, "prepare")
    /\ UNCHANGED <<job, delivered, task, prevMode, lora, final, previous, tmp, record, recVars,
                   proc, boundVars>>

MarkPreprocessing(j) ==
    /\ run[j] = "prepare"
    /\ Turn(j)
    /\ UpdateLora([lora EXCEPT !.status = "preprocessing"])
    /\ SetRun(j, "submit")
    /\ UNCHANGED <<job, delivered, task, prevMode, diskVars, recVars, proc, boundVars>>

\* An old temporary directory goes, then /train_lora takes over the hold.
Submit(j) ==
    /\ run[j] = "submit"
    /\ Turn(j)
    /\ dataset
    /\ tmp' = None
    /\ task' = [task EXCEPT ![j] = "training"]
    /\ SetRun(j, "preprocessing")
    /\ UNCHANGED <<job, delivered, prevMode, lora, final, previous, dataset, record, recVars,
                   proc, boundVars>>

\* _LoraProgressThrottle.report: a status is written when it changes.
Report(j) ==
    /\ task[j] = "training"
    /\ Turn(j)
    /\ \/ run[j] = "preprocessing" /\ SetRun(j, "training")
       \/ run[j] \in {"preprocessing", "training"} /\ SetRun(j, "exporting")
    /\ UpdateLora([lora EXCEPT !.status = run'[j]])
    /\ UpdateJob(j, "running")
    /\ UNCHANGED <<delivered, task, prevMode, diskVars, recVars, proc, boundVars>>

\* _export_lora_adapter on the worker: copytree refuses an existing directory.
WorkerExports(j) ==
    /\ task[j] = "training"
    /\ IF tmp = None
       THEN tmp' = j /\ task' = [task EXCEPT ![j] = "exported"]
       ELSE task' = [task EXCEPT ![j] = "failed"] /\ UNCHANGED tmp
    /\ UNCHANGED <<job, delivered, run, prevMode, lora, final, previous, dataset, record,
                   recVars, proc, boundVars>>

WorkerFails(j) ==
    /\ task[j] = "training"
    /\ task' = [task EXCEPT ![j] = "failed"]
    /\ UNCHANGED <<job, delivered, run, prevMode, lora, diskVars, recVars, proc, boundVars>>

\* The stream ends: _validated_lora_adapter_handoff, or the worker's error.
TaskEnds(j) ==
    /\ run[j] \in Watching
    /\ task[j] \in {"exported", "failed"}
    /\ Turn(j)
    /\ SetRun(j, IF task[j] = "exported" /\ tmp # None THEN "record" ELSE "failRow")
    /\ UNCHANGED <<job, delivered, task, prevMode, lora, diskVars, recVars, proc, boundVars>>

\* Any exception or the arq timeout, wherever the run awaits.
RunFails(j) ==
    /\ run[j] \in {"reserve", "begin", "materialize", "submit"} \cup Watching
    /\ Turn(j)
    /\ SetRun(j, "failRow")
    /\ UNCHANGED <<job, delivered, task, prevMode, lora, diskVars, recVars, proc, boundVars>>
-----------------------------------------------------------------------------
(***************************************************************************)
(* _complete_lora_training: the adoption.                                  *)
(***************************************************************************)

\* Mutant: the record is not written.
RecordNothing(j) ==
    /\ SetRun(j, "mode")
    /\ UNCHANGED <<final, previous, tmp, dataset, record, diskErrors>>

\* _record_completed_training_model_mode: written aside and replaced.
WriteRecord(j) ==
    /\ \/ record' = j /\ SetRun(j, "mode") /\ UNCHANGED diskErrors
       \/ DiskError /\ SetRun(j, "failRow") /\ UNCHANGED record
    /\ UNCHANGED <<final, previous, tmp, dataset>>

Record(j) ==
    /\ run[j] = "record"
    /\ WriteRecord(j)
    /\ UNCHANGED <<job, delivered, task, prevMode, lora, recVars, proc, cancels, crashes>>

\* Mutant: the mode that is replaced is not kept.
ForgetMode(j) == UNCHANGED prevMode

\* The mode that _save_lora_model_mode returns.
KeepMode(j) == prevMode' = [prevMode EXCEPT ![j] = lora.mode]

\* _save_lora_model_mode.
SaveMode(j) ==
    /\ run[j] = "mode"
    /\ KeepMode(j)
    /\ UpdateLora([lora EXCEPT !.mode = ModeOf(j)])
    /\ SetRun(j, "stage")
    /\ UNCHANGED <<job, delivered, task, diskVars, recVars, proc, boundVars>>

\* Mutant: the current adapter is removed to make room.
RemoveCurrent == final' = None /\ UNCHANGED previous

\* The rename of the current adapter, if there is one.
SetAside == previous' = final /\ final' = None

\* _stage_current_lora_adapter.
Stage(j) ==
    /\ run[j] = "stage"
    /\ \/ previous = None /\ SetAside /\ SetRun(j, "move") /\ UNCHANGED diskErrors
       \/ /\ previous # None \/ final # None
          /\ FailsIf(previous # None)
          /\ SetRun(j, "failRow")
          /\ UNCHANGED <<final, previous>>
    /\ UNCHANGED <<job, delivered, task, prevMode, lora, tmp, dataset, record, recVars, proc,
                   cancels, crashes>>

\* _move_lora_adapter after the OSError.
RestoreOrFail(j) ==
    IF final = None /\ previous # None
    THEN final' = previous /\ previous' = None /\ SetRun(j, "keepPaths")
    ELSE SetRun(j, "failRow") /\ UNCHANGED <<final, previous>>

\* _move_lora_adapter: the rename, or its OSError.
Move(j) ==
    /\ run[j] = "move"
    /\ \/ /\ tmp # None /\ final = None
          /\ final' = tmp /\ tmp' = None
          /\ SetRun(j, "prune")
          /\ UNCHANGED <<previous, diskErrors>>
       \/ /\ FailsIf(tmp = None \/ final # None)
          /\ RestoreOrFail(j)
          /\ UNCHANGED tmp
    /\ UNCHANGED <<job, delivered, task, prevMode, lora, dataset, record, recVars, proc,
                   cancels, crashes>>

\* _remove_replaced_lora_paths: failures are logged.
Prune(j) ==
    /\ run[j] = "prune"
    /\ RemovedOrLogged(previous' = None, UNCHANGED previous)
    /\ dataset' = FALSE
    /\ SetRun(j, "clear")
    /\ UNCHANGED <<job, delivered, task, prevMode, lora, final, tmp, record, recVars, proc,
                   cancels, crashes>>

\* _clear_completed_training_model_mode: a failure is logged.
Clear(j) ==
    /\ run[j] = "clear"
    /\ RemovedOrLogged(record' = None, UNCHANGED record)
    /\ SetRun(j, "ready")
    /\ UNCHANGED <<job, delivered, task, prevMode, lora, final, previous, tmp, dataset, recVars,
                   proc, cancels, crashes>>

\* _mark_lora_training_complete: the row, then the job.
MarkReady(j) ==
    /\ run[j] = "ready"
    /\ UpdateLora([lora EXCEPT !.status = "ready", !.mode = ModeOf(j)])
    /\ SetRun(j, "complete")
    /\ UNCHANGED <<job, delivered, task, prevMode, diskVars, recVars, proc, boundVars>>

\* cleanup_failed_lora, and the READY row of _keep_restored_lora_adapter.
EndRow(j) ==
    /\ \/ /\ run[j] = "failRow"
          /\ UpdateLora([lora EXCEPT !.status = "failed"])
          /\ SetRun(j, "failPaths")
       \/ /\ run[j] = "keepRow"
          /\ UpdateLora([lora EXCEPT !.status = "ready", !.mode = prevMode[j]])
          /\ SetRun(j, "keepJob")
    /\ UNCHANGED <<job, delivered, task, prevMode, diskVars, recVars, proc, boundVars>>

\* cleanup_failed_lora_with_factory after its commit; first thing of a keep.
EndPaths(j) ==
    /\ \/ run[j] = "failPaths" /\ SetRun(j, "failJob")
       \/ run[j] = "keepPaths" /\ SetRun(j, "keepRow")
    /\ RemovedOrLogged(CleanupPaths, UNCHANGED diskVars)
    /\ UNCHANGED <<job, delivered, task, prevMode, lora, recVars, proc, cancels, crashes>>

\* The job's last write.
EndJob(j) ==
    /\ run[j] \in {"complete", "failJob", "keepJob"}
    /\ UpdateJob(j, IF run[j] = "complete" THEN "completed" ELSE "failed")
    /\ SetRun(j, "none")
    /\ UNCHANGED <<delivered, task, prevMode, lora, diskVars, recVars, proc, boundVars>>
-----------------------------------------------------------------------------
(***************************************************************************)
(* Death, restart and the reaper.                                          *)
(***************************************************************************)

\* The music worker dies; arq delivers the jobs it was running again.
Crash ==
    /\ proc = "up"
    /\ crashes < MaxCrashes
    /\ crashes' = crashes + 1
    /\ proc' = "down"
    /\ delivered' = [j \in Jobs |-> delivered[j] \/ run[j] \notin {"none", "enqueue"}]
    /\ run' = [j \in Jobs |-> IF run[j] = "enqueue" THEN "enqueue" ELSE "none"]
    /\ UNCHANGED <<job, task, prevMode, lora, diskVars, recVars, cancels, diskErrors>>

\* _recover_on_startup: recover_stale_jobs_by_type, under a lock that nobody
\* else takes while one music worker is deployed.
Restart ==
    /\ proc = "down"
    /\ proc' = "up"
    /\ job' = [j \in Jobs |-> IF job[j] = "running" THEN "failed" ELSE job[j]]
    /\ UNCHANGED <<delivered, run, task, prevMode, lora, diskVars, recVars, boundVars>>

\* reap_stale_jobs: a queued job that waited too long, or a running job whose
\* run is gone and whose heartbeat has grown old.
Reap(j) ==
    /\ \/ job[j] = "queued" /\ run[j] # "enqueue"
       \/ job[j] = "running" /\ run[j] = "none"
    /\ job' = [job EXCEPT ![j] = "failed"]
    /\ UNCHANGED <<delivered, run, task, prevMode, lora, diskVars, recVars, proc, boundVars>>
-----------------------------------------------------------------------------
(***************************************************************************)
(* reconcile_crashed_loras.                                                *)
(***************************************************************************)

SetRec(r, s) == rec' = [rec EXCEPT ![r] = s]

\* Mutant: any record is taken for this job's.
RecordExists == record # None

\* _completed_model_mode_for_lora: the record counts only for the voice's job.
RecordMatches == record # None /\ record = lora.job

\* Mutant: only a voice whose job is missing is a candidate.
MissingOnly == lora.job = None

\* list_active_user_loras(reconcilable_only): the job is missing or terminal.
Reconcilable == lora.job # None => job[lora.job] \in JobTerminal

\* _next_reconcilable_lora and the reading of the record.
Select(r) ==
    /\ rec[r] = "idle"
    /\ rowLock = None
    /\ lora.status \in LoraActive
    /\ ~lora.deleted
    /\ Reconcilable
    /\ rowLock' = r
    /\ saw' = [saw EXCEPT ![r] = RecordMatches]
    /\ SetRec(r, IF saw'[r] THEN "stage" ELSE "restore")
    /\ UNCHANGED <<jobVars, lora, diskVars, proc, boundVars>>

\* final_dir.is_dir(), the outcome that is persisted.
Recovered(r) == SetRec(r, IF final' # None THEN "keep" ELSE "drop")

\* An exception: the transaction is rolled back, the next tick tries again.
Abort(r) ==
    /\ SetRec(r, "idle")
    /\ rowLock' = None
    /\ UNCHANGED <<final, previous, tmp>>

\* _restore_previous_lora_adapter.
RestorePrevious ==
    IF final # None \/ previous = None
    THEN previous' = None /\ UNCHANGED final
    ELSE final' = previous /\ previous' = None

Restore(r) ==
    /\ rec[r] = "restore"
    /\ \/ RestorePrevious /\ Recovered(r) /\ UNCHANGED <<tmp, rowLock, diskErrors>>
       \/ previous # None /\ DiskError /\ Abort(r)
    /\ UNCHANGED <<jobVars, lora, dataset, record, saw, proc, cancels, crashes>>

\* _recover_recorded_lora_adapter: the first rename, refused by a .previous
\* directory that is still there.
StageAgain(r) ==
    /\ rec[r] = "stage"
    /\ \/ /\ tmp = None \/ final = None
          /\ SetRec(r, IF tmp = None THEN "prune" ELSE "swap")
          /\ UNCHANGED <<final, previous, tmp, rowLock, diskErrors>>
       \/ /\ tmp # None /\ final # None /\ previous = None
          /\ SetAside
          /\ SetRec(r, "swap")
          /\ UNCHANGED <<tmp, rowLock, diskErrors>>
       \/ /\ tmp # None /\ final # None
          /\ FailsIf(previous # None)
          /\ Abort(r)
    /\ UNCHANGED <<jobVars, lora, dataset, record, saw, proc, cancels, crashes>>

\* The second rename.
Swap(r) ==
    /\ rec[r] = "swap"
    /\ \/ /\ tmp # None /\ final = None
          /\ final' = tmp
          /\ tmp' = None
          /\ SetRec(r, "prune")
          /\ UNCHANGED <<previous, rowLock, diskErrors>>
       \/ /\ FailsIf(tmp = None \/ final # None)
          /\ Abort(r)
    /\ UNCHANGED <<jobVars, lora, dataset, record, saw, proc, cancels, crashes>>

\* The removal of the replaced adapter.
PruneAgain(r) ==
    /\ rec[r] = "prune"
    /\ \/ /\ previous' = None
          /\ UNCHANGED final
          /\ Recovered(r)
          /\ UNCHANGED <<tmp, rowLock, diskErrors>>
       \/ previous # None /\ DiskError /\ Abort(r)
    /\ UNCHANGED <<jobVars, lora, dataset, record, saw, proc, cancels, crashes>>

\* _persist_crashed_lora_reconciliation and the commit.
Commit(r) ==
    /\ rec[r] \in {"keep", "drop"}
    /\ lora' = IF rec[r] = "drop" THEN [lora EXCEPT !.status = "failed"]
               ELSE [lora EXCEPT !.status = "ready",
                                 !.mode = IF saw[r] THEN ModeOf(lora.job) ELSE @]
    /\ rowLock' = None
    /\ SetRec(r, "tidy")
    /\ UNCHANGED <<jobVars, diskVars, saw, proc, boundVars>>

\* _clear_completed_training_model_mode and _cleanup_failed_lora_paths.
Tidy(r) ==
    /\ rec[r] = "tidy"
    /\ RemovedOrLogged(CleanupPaths, UNCHANGED diskVars)
    /\ SetRec(r, "idle")
    /\ UNCHANGED <<jobVars, lora, saw, rowLock, proc, cancels, crashes>>

\* The process that reconciles dies; the database releases the row.
ReconcilerDies(r) ==
    /\ rec[r] # "idle"
    /\ crashes < MaxCrashes
    /\ crashes' = crashes + 1
    /\ SetRec(r, "idle")
    /\ rowLock' = IF rowLock = r THEN None ELSE rowLock
    /\ UNCHANGED <<jobVars, lora, diskVars, saw, proc, cancels, diskErrors>>
-----------------------------------------------------------------------------
RunStep(j) ==
    \/ StartRun(j) \/ Reserve(j) \/ Defer(j) \/ Begin(j) \/ Materialize(j)
    \/ MarkPreprocessing(j) \/ Submit(j) \/ TaskEnds(j)
    \/ Record(j) \/ SaveMode(j) \/ Stage(j) \/ Move(j) \/ Prune(j) \/ Clear(j) \/ MarkReady(j)
    \/ EndRow(j) \/ EndPaths(j) \/ EndJob(j)

ReconcileStep(r) ==
    \/ Select(r) \/ Restore(r) \/ StageAgain(r) \/ Swap(r) \/ PruneAgain(r) \/ Commit(r) \/ Tidy(r)

Next ==
    \/ DeleteLora \/ Crash \/ Restart
    \/ \E j \in Jobs :
          \/ Train(j) \/ EnqueueJob(j) \/ EnqueueRefused(j) \/ CancelJob(j)
          \/ RunStep(j) \/ RunFails(j) \/ Report(j) \/ WorkerExports(j) \/ WorkerFails(j)
          \/ Reap(j)
    \/ \E r \in Reconcilers : ReconcileStep(r) \/ ReconcilerDies(r)

Spec == Init /\ [][Next]_vars

\* The process is restarted, a run goes on or times out (arq bounds it, nothing
\* bounds the worker's task), and the reaper's loop reaps and reconciles on every
\* tick.
Fairness ==
    /\ WF_vars(Restart)
    /\ \A j \in Jobs :
          /\ WF_vars(EnqueueJob(j) \/ EnqueueRefused(j))
          /\ WF_vars(RunStep(j) \/ RunFails(j))
          /\ SF_vars(Reap(j))
    /\ \A r \in Reconcilers : SF_vars(ReconcileStep(r))

FairSpec == Spec /\ Fairness
-----------------------------------------------------------------------------
(***************************************************************************)
(* Properties.                                                             *)
(***************************************************************************)

\* The voice survives: while an adapter is adopted, restored or reconciled, and
\* however that is interrupted, a complete adapter that was in place stays in
\* place or next to it (_stage_current_lora_adapter, _move_lora_adapter,
\* _recover_complete_lora_adapter).
VoiceSurvives ==
    [][final # None \/ previous # None => final' # None \/ previous' # None]_vars

\* A READY voice can be used: its adapter is in place and was trained in the
\* mode the row names, which is what _apply_user_lora_path relies on.
ReadyIsUsable ==
    lora.status = "ready" => final # None /\ lora.mode = ModeOf(final)

\* An adapter whose training was never recorded as complete is not adopted
\* after a crash: unless a run of an earlier job is still at work on the voice,
\* what _recover_recorded_lora_adapter moves into place is the adapter of the
\* job the record names, although record and temporary directory may both be
\* left over from other trainings (_completed_model_mode_for_lora).
RecoveredIsRecorded ==
    [][\A r \in Reconcilers :
          /\ rec[r] = "swap"
          /\ rec'[r] = "prune"
          /\ \A j \in Jobs \ {lora.job} : run[j] \in {"none", "enqueue"}
          => final' = record]_vars

\* No voice stays in training for ever, unless it is deleted
\* (lifecycle.reconcile_crashed_loras: "Mark LoRAs stuck in active statuses as
\* FAILED when their job is terminal").
EveryTrainingEnds ==
    lora.status \in LoraActive ~> lora.status \notin LoraActive \/ lora.deleted
=============================================================================
