--------------------------- MODULE GenerationJob ---------------------------
(***************************************************************************)
(* The life of one generation job: the row of the jobs table, the runs of  *)
(* run_generation_job that arq delivers for it, the takes they save, and   *)
(* everybody else who writes the row: the cancel route, the stale-job      *)
(* reaper of the web processes, and the recovery the music worker performs *)
(* when it starts and when it stops.                                       *)
(*                                                                         *)
(* The database serves one committed transaction at a time, so a           *)
(* transaction under SELECT ... FOR UPDATE is one step; a plain SELECT     *)
(* followed by a write is two.  Time is abstracted to two flags: stale     *)
(* (the row's heartbeat is older than its type's threshold) and aged (the  *)
(* job has been queued longer than the queued bound).                      *)
(***************************************************************************)
EXTENDS Integers, FiniteSets

CONSTANTS
    Slots,        \* the music worker's concurrent arq slots (music_max_jobs)
    Reapers,      \* web processes that reap stale jobs
    Count,        \* takes the job asks for
    MaxCrashes,   \* bound: kills of the music worker
    MaxRestarts   \* bound: orderly restarts of the music worker

ASSUME GenerationJobAssumption ==
    /\ Count \in Nat \ {0}
    /\ MaxCrashes \in Nat
    /\ MaxRestarts \in Nat
    /\ IsFiniteSet(Slots)

VARIABLES
    api,          \* the request that creates the job
    status,       \* Job.status
    errorType,    \* Job.error_type
    progress,     \* Job.progress, in twentieths of a take
    stale,        \* Job.heartbeat_at is older than the type's threshold
    aged,         \* Job.started_at is older than the queued bound
    takes,        \* committed Generation rows of the job
    orphans,      \* takes whose audio files stay on disk without a row
    entries,      \* arq: deliveries of the job that no slot runs
    run,          \* where the run in each slot is
    index,        \* _generate_variants: takes attempted
    completed,    \* _generate_variants: takes counted as done
    failure,      \* GenerationProgressTracker.failure
    phase,        \* GenerationProgressTracker.phase (-1: none)
    reached,      \* GenerationProgressTracker.reached
    thread,       \* the post_process_generation thread a run started
    proc,         \* the music worker process
    recovery,     \* who is between recover_stale_jobs_by_type's read and write
    recoverySaw,  \* that read found the job running
    lock,         \* Redis: the music worker's recovery lock
    seenStatus,   \* the status each reaper read before its conditional update
    seenSame,     \* Job.heartbeat_at is still the value that reaper read
    crashes, restarts

rowVars     == <<status, errorType, progress, stale, aged, seenSame>>
takeVars    == <<takes, orphans>>
trackerVars == <<index, completed, failure, phase, reached>>
runVars     == <<entries, run, trackerVars, thread>>
procVars    == <<proc, recovery, recoverySaw, lock, crashes, restarts>>
vars == <<api, rowVars, takeVars, runVars, procVars, seenStatus>>

\* JOB_ACTIVE_STATUSES and JOB_TERMINAL_STATUSES.
Active   == {"queued", "running"}
Terminal == {"completed", "failed", "partial", "cancelled"}

ErrorTypes == {"none", "setup_error", "gpu_out_of_memory", "generation_error", "timeout",
               "server_restart", "heartbeat_lost", "queued_verdict"}
RunStates  == {"idle", "admit", "held", "requeue", "setup", "loop", "render", "saving",
               "fail", "finish"}

\* A take is 20 units; _TAKE_SHARES gives each phase its start and weight.
TakeUnits == 20
Phases    == 0 .. 3            \* _PHASES_IN_TAKE_ORDER
SavingTake == 3
Weight    == [p \in Phases |-> IF p = 0 THEN 0 ELSE IF p = 1 THEN 11 ELSE IF p = 2 THEN 3 ELSE 6]
StartsAt  == [p \in Phases |-> IF p \in {0, 1} THEN 0 ELSE IF p = 2 THEN 11 ELSE 14]

TypeOK ==
    /\ api \in {"none", "created", "done"}
    /\ status \in {"none"} \cup Active \cup Terminal
    /\ errorType \in ErrorTypes
    /\ progress \in 0 .. TakeUnits * Count
    /\ stale \in BOOLEAN
    /\ aged \in BOOLEAN
    /\ takes \in Nat
    /\ orphans \in Nat
    /\ entries \in Nat
    /\ run \in [Slots -> RunStates]
    /\ index \in [Slots -> 0 .. Count]
    /\ completed \in [Slots -> 0 .. Count]
    /\ failure \in [Slots -> {"none", "gpu_out_of_memory", "generation_error"}]
    /\ phase \in [Slots -> {-1} \cup Phases]
    /\ reached \in [Slots -> 0 .. TakeUnits * Count]
    /\ thread \in [Slots -> {"none", "encoding", "written"}]
    /\ proc \in {"up", "draining", "down"}
    /\ recovery \in {"none", "startup", "shutdown"}
    /\ recoverySaw \in BOOLEAN
    /\ lock \in BOOLEAN
    /\ seenStatus \in [Reapers -> {"none"} \cup Active]
    /\ seenSame \in [Reapers -> BOOLEAN]
    /\ crashes \in 0 .. MaxCrashes
    /\ restarts \in 0 .. MaxRestarts

Init ==
    /\ api = "none"
    /\ status = "none"
    /\ errorType = "none"
    /\ progress = 0
    /\ stale = FALSE
    /\ aged = FALSE
    /\ takes = 0
    /\ orphans = 0
    /\ entries = 0
    /\ run = [s \in Slots |-> "idle"]
    /\ index = [s \in Slots |-> 0]
    /\ completed = [s \in Slots |-> 0]
    /\ failure = [s \in Slots |-> "none"]
    /\ phase = [s \in Slots |-> -1]
    /\ reached = [s \in Slots |-> 0]
    /\ thread = [s \in Slots |-> "none"]
    /\ proc = "up"
    /\ recovery = "none"
    /\ recoverySaw = FALSE
    /\ lock = FALSE
    /\ seenStatus = [w \in Reapers |-> "none"]
    /\ seenSame = [w \in Reapers |-> FALSE]
    /\ crashes = 0
    /\ restarts = 0
-----------------------------------------------------------------------------
(***************************************************************************)
(* Writing the row.                                                        *)
(***************************************************************************)

\* Job.heartbeat_at := now.
Beat ==
    /\ stale' = FALSE
    /\ seenSame' = [w \in Reapers |-> FALSE]

\* Mutant: a status write does not look at the status it replaces.
WriteRefusedNever == FALSE

\* update_job_status refuses a row that is already terminal.
WriteRefused == status \in Terminal

\* update_job_status: error type and progress describe this write, so a write
\* that does not name them resets them; RUNNING and PARTIAL stamp the heartbeat.
UpdateJobStatus(s, e, p) ==
    IF WriteRefused THEN UNCHANGED rowVars
    ELSE /\ status' = s
         /\ errorType' = e
         /\ progress' = p
         /\ IF s \in {"running", "partial"} THEN Beat ELSE UNCHANGED <<stale, seenSame>>
         /\ UNCHANGED aged

\* _update_job gave up after two attempts.
UpdateLost == UNCHANGED rowVars
-----------------------------------------------------------------------------
(***************************************************************************)
(* The request: create the row, commit, then hand the job to arq.          *)
(***************************************************************************)

CreateJob ==
    /\ api = "none"
    /\ api' = "created"
    /\ status' = "queued"
    /\ UNCHANGED <<errorType, progress, stale, aged, seenSame, takeVars, runVars, procVars,
                   seenStatus>>

EnqueueJob ==
    /\ api = "created"
    /\ api' = "done"
    /\ entries' = entries + 1
    /\ UNCHANGED <<rowVars, takeVars, run, trackerVars, thread, procVars, seenStatus>>

\* No capacity, or Redis dropped the connection, possibly after it had taken
\* the delivery: _fail_job.
EnqueueRefused ==
    /\ api = "created"
    /\ api' = "done"
    /\ UpdateJobStatus("failed", "setup_error", 0)
    /\ entries' \in {entries, entries + 1}
    /\ UNCHANGED <<takeVars, run, trackerVars, thread, procVars, seenStatus>>

\* The web process dies here, or _fail_job cannot write either.
EnqueueAbandoned ==
    /\ api = "created"
    /\ api' = "done"
    /\ UNCHANGED <<rowVars, takeVars, runVars, procVars, seenStatus>>

\* api_cancel_job.
CancelJob ==
    /\ status \in Active
    /\ UpdateJobStatus("cancelled", "none", 0)
    /\ UNCHANGED <<api, takeVars, runVars, procVars, seenStatus>>
-----------------------------------------------------------------------------
(***************************************************************************)
(* A run: MusicWorker.generate and run_generation_job.                     *)
(***************************************************************************)

SetRun(s, st) == run' = [run EXCEPT ![s] = st]

\* arq picks a delivery up; check_job_still_valid.
StartRun(s) ==
    /\ proc = "up"
    /\ run[s] = "idle"
    /\ thread[s] = "none"
    /\ entries > 0
    /\ entries' = entries - 1
    /\ SetRun(s, IF status \in Active THEN "admit" ELSE "finish")
    /\ UNCHANGED <<api, rowVars, takeVars, trackerVars, thread, procVars, seenStatus>>

\* _admit_generation_worker_or_requeue: stop if the job is terminal; otherwise
\* the admission succeeds, finds all workers held, or raises.
Admit(s) ==
    /\ run[s] = "admit"
    /\ \/ status \in Terminal /\ SetRun(s, "finish")
       \/ status \in Active /\ \E st \in {"setup", "held", "fail"} : SetRun(s, st)
    /\ UNCHANGED <<api, rowVars, takeVars, entries, trackerVars, thread, procVars, seenStatus>>

\* AllWorkersHeld: back to QUEUED, then a new deferred delivery.
Requeue(s) ==
    /\ run[s] = "held"
    /\ UpdateJobStatus("queued", "none", 0)
    /\ SetRun(s, "requeue")
    /\ UNCHANGED <<api, takeVars, entries, trackerVars, thread, procVars, seenStatus>>

EnqueueAgain(s) ==
    /\ run[s] = "requeue"
    /\ entries' = entries + 1
    /\ SetRun(s, "finish")
    /\ UNCHANGED <<api, rowVars, takeVars, trackerVars, thread, procVars, seenStatus>>

\* _build_generation_job_context raises GenerationSetupError.
SetupFails(s) ==
    /\ run[s] = "setup"
    /\ UpdateJobStatus("failed", "setup_error", 0)
    /\ SetRun(s, "finish")
    /\ UNCHANGED <<api, takeVars, entries, trackerVars, thread, procVars, seenStatus>>

\* A new tracker, mark_running, and the terminal check after it.
MarkRunning(s) ==
    /\ run[s] = "setup"
    /\ UpdateJobStatus("running", "none", 0)
    /\ SetRun(s, IF status' \in Terminal THEN "finish" ELSE "loop")
    /\ index' = [index EXCEPT ![s] = 0]
    /\ completed' = [completed EXCEPT ![s] = 0]
    /\ failure' = [failure EXCEPT ![s] = "none"]
    /\ phase' = [phase EXCEPT ![s] = -1]
    /\ reached' = [reached EXCEPT ![s] = 0]
    /\ UNCHANGED <<api, takeVars, entries, thread, procVars, seenStatus>>

Larger(a, b) == IF a < b THEN b ELSE a

\* Mutant: the tracker forgets where it was.
RaiseToReported(s, v) == v

\* GenerationProgressTracker._raise_to.
RaiseTo(s, v) == Larger(reached[s], v)

\* Mutant: a RUNNING write leaves the failure out and so resets it.
RunningPairDropped(s) == "none"

\* running_failure_pair: only a GPU-memory failure shows while the job runs.
RunningPair(s) == IF failure[s] = "gpu_out_of_memory" THEN failure[s] ELSE "none"

\* Mutant: one take too many.
OneTakeTooMany(s) == index[s] <= Count

\* range(count).
MoreTakes(s) == index[s] < Count

\* The head of the loop: stop if the job is terminal, else start_take.
StartTake(s) ==
    /\ run[s] = "loop"
    /\ MoreTakes(s)
    /\ IF status \in Terminal
       THEN SetRun(s, "finish") /\ UNCHANGED <<rowVars, phase, reached>>
       ELSE /\ phase' = [phase EXCEPT ![s] = 0]
            /\ reached' = [reached EXCEPT ![s] = RaiseTo(s, TakeUnits * index[s])]
            /\ UpdateJobStatus("running", RunningPair(s), reached'[s])
            /\ SetRun(s, "render")
    /\ UNCHANGED <<api, takeVars, entries, index, completed, failure, thread, procVars,
                   seenStatus>>

\* GenerationProgressTracker.report with fraction f (0 or 1): a phase change is
\* written at once, another report only when the throttle has elapsed.
TrackReport(s, p, f) ==
    /\ p >= phase[s]
    /\ reached' = [reached EXCEPT ![s] =
                      RaiseTo(s, TakeUnits * index[s] + StartsAt[p] + f * Weight[p])]
    /\ phase' = [phase EXCEPT ![s] = p]
    /\ \/ UpdateJobStatus("running", RunningPair(s), reached'[s])
       \/ p = phase[s] /\ UNCHANGED rowVars

\* The worker's SSE stream reports progress.
Report(s) ==
    /\ run[s] = "render"
    /\ \E p \in Phases \ {SavingTake}, f \in {0, 1} : TrackReport(s, p, f)
    /\ UNCHANGED <<api, takeVars, entries, run, index, completed, failure, thread, procVars,
                   seenStatus>>

\* The worker's SSE heartbeat: update_job_heartbeat.
Heartbeat(s) ==
    /\ run[s] = "render"
    /\ status \in Active
    /\ Beat
    /\ UNCHANGED <<api, status, errorType, progress, aged, takeVars, runVars, procVars,
                   seenStatus>>

\* Mutant: a failed take is not recorded.
FailureNotRecorded(s, e) == failure[s]

\* select_generation_failure: a GPU-memory failure stays.
SelectFailure(s, e) == IF failure[s] = "gpu_out_of_memory" THEN failure[s] ELSE e

\* _generate_variant returns without an error: counted, whether or not a row
\* was written.
TakeDone(s) ==
    /\ completed' = [completed EXCEPT ![s] = @ + 1]
    /\ index' = [index EXCEPT ![s] = @ + 1]
    /\ SetRun(s, "loop")
    /\ UNCHANGED failure

\* _generate_variant returns an error: record_failure.
TakeFailed(s, e) ==
    /\ failure' = [failure EXCEPT ![s] = SelectFailure(s, e)]
    /\ index' = [index EXCEPT ![s] = @ + 1]
    /\ SetRun(s, "loop")
    /\ UNCHANGED completed

\* dispatch_generation_on_worker returns.  The take of a terminal job is
\* discarded; otherwise start_saving_take and the post-processing thread.
TakeRendered(s) ==
    /\ run[s] = "render"
    /\ \/ /\ status \in Terminal
          /\ TakeDone(s)
          /\ UNCHANGED <<rowVars, phase, reached, thread>>
       \/ /\ status \in Active
          /\ TrackReport(s, SavingTake, 0)
          /\ thread' = [thread EXCEPT ![s] = "encoding"]
          /\ SetRun(s, "saving")
          /\ UNCHANGED <<index, completed, failure>>
    /\ UNCHANGED <<api, takeVars, entries, procVars, seenStatus>>

\* dispatch_generation_on_worker, or a status write of its callbacks, raises.
TakeFails(s) ==
    /\ run[s] = "render"
    /\ \E e \in {"gpu_out_of_memory", "generation_error"} : TakeFailed(s, e)
    /\ UNCHANGED <<api, rowVars, takeVars, entries, phase, reached, thread, procVars, seenStatus>>

\* post_process_generation writes the take's audio files.
Encode(s) ==
    /\ thread[s] = "encoding"
    /\ thread' = [thread EXCEPT ![s] = "written"]
    /\ UNCHANGED <<api, rowVars, takeVars, entries, run, trackerVars, procVars, seenStatus>>

\* The run goes on from its thread's result unless it was cancelled meanwhile.
AfterThread(s, effect) ==
    IF run[s] = "saving" THEN effect
    ELSE UNCHANGED <<run, index, completed, failure>>

\* Decoding, mastering or encoding raises; files already written stay.
EncodeFails(s) ==
    /\ thread[s] = "encoding"
    /\ thread' = [thread EXCEPT ![s] = "none"]
    /\ orphans' \in {orphans, orphans + 1}
    /\ AfterThread(s, TakeFailed(s, "generation_error"))
    /\ UNCHANGED <<api, rowVars, takes, entries, phase, reached, procVars, seenStatus>>

\* Mutant: the take is saved without locking the job row first.
PersistAlways == TRUE

\* lock_active_job.
PersistAllowed == status \in Active

\* _persist_generation_row saves the take, or finds the job terminal and
\* removes the take's files.
Persist(s) ==
    /\ thread[s] = "written"
    /\ thread' = [thread EXCEPT ![s] = "none"]
    /\ takes' = IF PersistAllowed THEN takes + 1 ELSE takes
    /\ AfterThread(s, TakeDone(s))
    /\ UNCHANGED <<api, rowVars, orphans, entries, phase, reached, procVars, seenStatus>>

\* The transaction raises: the files are removed and the take has failed.
PersistFails(s) ==
    /\ thread[s] = "written"
    /\ thread' = [thread EXCEPT ![s] = "none"]
    /\ AfterThread(s, TakeFailed(s, "generation_error"))
    /\ UNCHANGED <<api, rowVars, takeVars, entries, phase, reached, procVars, seenStatus>>

\* The reference recording is gone: ReferenceDeletedDuringTake ends the job.
ReferenceDeleted(s) ==
    /\ thread[s] = "written"
    /\ PersistAllowed
    /\ thread' = [thread EXCEPT ![s] = "none"]
    /\ AfterThread(s, SetRun(s, "fail") /\ UNCHANGED <<index, completed, failure>>)
    /\ UNCHANGED <<api, rowVars, takeVars, entries, phase, reached, procVars, seenStatus>>

\* _finalize_generation_job.
Finalize(s) ==
    /\ run[s] = "loop"
    /\ ~MoreTakes(s)
    /\ \/ completed[s] = Count /\ UpdateJobStatus("completed", "none", TakeUnits * Count)
       \/ /\ completed[s] \in 1 .. Count - 1
          /\ UpdateJobStatus("partial", failure[s], TakeUnits * completed[s])
       \/ completed[s] = 0 /\ UpdateJobStatus("failed", failure[s], 0)
    /\ SetRun(s, "finish")
    /\ UNCHANGED <<api, takeVars, entries, trackerVars, thread, procVars, seenStatus>>

\* An exception outside a take: the context, Redis, or a lost status write.
RunRaises(s) ==
    /\ run[s] \in {"held", "requeue", "setup", "loop"}
    /\ SetRun(s, "fail")
    /\ UNCHANGED <<api, rowVars, takeVars, entries, trackerVars, thread, procVars, seenStatus>>

\* except Exception: FAILED, unless that write is lost too.
FailRun(s) ==
    /\ run[s] = "fail"
    /\ UpdateJobStatus("failed", "generation_error", 0) \/ UpdateLost
    /\ SetRun(s, "finish")
    /\ UNCHANGED <<api, takeVars, entries, trackerVars, thread, procVars, seenStatus>>

\* arq cancels the run at an await: a timeout ends it, a shutdown has arq
\* deliver it again.  The post-processing thread runs on.
CancelRun(s) ==
    /\ run[s] \in {"admit", "requeue", "setup", "loop", "render", "saving"}
    /\ \/ /\ UpdateJobStatus("failed", "timeout", 0) \/ UpdateLost
          /\ SetRun(s, "finish")
          /\ UNCHANGED entries
       \/ /\ proc = "draining"
          /\ UpdateJobStatus("failed", "timeout", 0)
          /\ SetRun(s, "idle")
          /\ entries' = entries + 1
    /\ UNCHANGED <<api, takeVars, trackerVars, thread, procVars, seenStatus>>

\* arq records the result: the delivery is gone.
FinishRun(s) ==
    /\ run[s] = "finish"
    /\ SetRun(s, "idle")
    /\ UNCHANGED <<api, rowVars, takeVars, entries, trackerVars, thread, procVars, seenStatus>>
-----------------------------------------------------------------------------
(***************************************************************************)
(* Time, and the stale-job reaper of the web processes.                    *)
(***************************************************************************)

GoStale ==
    /\ status = "running"
    /\ ~stale
    /\ stale' = TRUE
    /\ UNCHANGED <<api, status, errorType, progress, aged, seenSame, takeVars, runVars,
                   procVars, seenStatus>>

Age ==
    /\ status = "queued"
    /\ ~aged
    /\ aged' = TRUE
    /\ UNCHANGED <<api, status, errorType, progress, stale, seenSame, takeVars, runVars,
                   procVars, seenStatus>>

\* Mutant: queued jobs are left to their worker.
QueuedVerdictNever == FALSE

\* _queued_verdict: no worker alive, or queued too long.
QueuedVerdict == aged \/ proc = "down"

\* _stale_job_verdict.
StaleVerdict ==
    \/ status = "queued" /\ QueuedVerdict
    \/ status = "running" /\ stale

\* The reaper reads the row and finds it stale.
ReaperRead(w) ==
    /\ seenStatus[w] = "none"
    /\ StaleVerdict
    /\ seenStatus' = [seenStatus EXCEPT ![w] = status]
    /\ seenSame' = [seenSame EXCEPT ![w] = TRUE]
    /\ UNCHANGED <<api, status, errorType, progress, stale, aged, takeVars, runVars, procVars>>

\* Mutant: the update is conditional on the status alone.
UnchangedStatusOnly(w) == status = seenStatus[w]

\* The predicate of _recover_stale_job_if_unchanged.
Unchanged(w) == status = seenStatus[w] /\ seenSame[w]

ReaperWrite(w) ==
    /\ seenStatus[w] # "none"
    /\ IF Unchanged(w)
       THEN /\ status' = "failed"
            /\ errorType' = IF seenStatus[w] = "queued" THEN "queued_verdict" ELSE "heartbeat_lost"
       ELSE UNCHANGED <<status, errorType>>
    /\ seenStatus' = [seenStatus EXCEPT ![w] = "none"]
    /\ UNCHANGED <<api, progress, stale, aged, seenSame, takeVars, runVars, procVars>>
-----------------------------------------------------------------------------
(***************************************************************************)
(* The music worker process: its recovery, orderly stops and kills.        *)
(***************************************************************************)

AllIdle == \A s \in Slots : run[s] = "idle"

\* SIGTERM: arq takes no new delivery and cancels the runs it has.
Drain ==
    /\ proc = "up"
    /\ restarts < MaxRestarts
    /\ restarts' = restarts + 1
    /\ proc' = "draining"
    /\ UNCHANGED <<api, rowVars, takeVars, runVars, recovery, recoverySaw, lock, crashes,
                   seenStatus>>

\* The recovery about to run: on_startup in a new process, once the old one's
\* threads are gone, or on_shutdown when the runs have ended.
RecoveryDue(r) ==
    /\ recovery = "none"
    /\ \/ r = "startup" /\ proc = "down" /\ \A s \in Slots : thread[s] = "none"
       \/ r = "shutdown" /\ proc = "draining" /\ AllIdle

AfterRecovery(r) == IF r = "startup" THEN "up" ELSE "down"

\* Another recovery holds the lock: skipped.
RecoverySkipped ==
    /\ lock
    /\ \E r \in {"startup", "shutdown"} : RecoveryDue(r) /\ proc' = AfterRecovery(r)
    /\ UNCHANGED <<api, rowVars, takeVars, runVars, recovery, recoverySaw, lock, crashes,
                   restarts, seenStatus>>

\* Take the lock; recover_stale_jobs_by_type selects the running jobs.
RecoveryRead ==
    /\ ~lock
    /\ lock' = TRUE
    /\ \E r \in {"startup", "shutdown"} : RecoveryDue(r) /\ recovery' = r
    /\ recoverySaw' = (status = "running")
    /\ UNCHANGED <<api, rowVars, takeVars, runVars, proc, crashes, restarts, seenStatus>>

\* ... and fails them, whatever their status is by now.
RecoveryWrite ==
    /\ recovery # "none"
    /\ IF recoverySaw THEN status' = "failed" /\ errorType' = "server_restart"
                      ELSE UNCHANGED <<status, errorType>>
    /\ lock' = FALSE
    /\ proc' = AfterRecovery(recovery)
    /\ recovery' = "none"
    /\ recoverySaw' = FALSE
    /\ UNCHANGED <<api, progress, stale, aged, seenSame, takeVars, runVars, crashes, restarts,
                   seenStatus>>

\* The lock's TTL.
ExpireLock ==
    /\ lock
    /\ lock' = FALSE
    /\ UNCHANGED <<api, rowVars, takeVars, runVars, proc, recovery, recoverySaw, crashes,
                   restarts, seenStatus>>

Threads(st) == {s \in Slots : thread[s] = st}

\* The process is killed: arq will deliver what its slots ran again, and files
\* a thread had written have no row.
Crash ==
    /\ proc # "down"
    /\ crashes < MaxCrashes
    /\ crashes' = crashes + 1
    /\ proc' = "down"
    /\ recovery' = "none"
    /\ recoverySaw' = FALSE
    /\ entries' = entries + Cardinality({s \in Slots : run[s] # "idle"})
    /\ run' = [s \in Slots |-> "idle"]
    /\ \E partial \in SUBSET Threads("encoding") :
           orphans' = orphans + Cardinality(Threads("written") \cup partial)
    /\ thread' = [s \in Slots |-> "none"]
    /\ UNCHANGED <<api, rowVars, takes, trackerVars, lock, restarts, seenStatus>>
-----------------------------------------------------------------------------
RunStep(s) ==
    \/ StartRun(s) \/ Admit(s) \/ Requeue(s) \/ EnqueueAgain(s)
    \/ SetupFails(s) \/ MarkRunning(s) \/ StartTake(s)
    \/ TakeRendered(s) \/ TakeFails(s)
    \/ Encode(s) \/ EncodeFails(s) \/ Persist(s) \/ PersistFails(s) \/ ReferenceDeleted(s)
    \/ Finalize(s) \/ FailRun(s) \/ FinishRun(s)

ReaperStep(w) == ReaperRead(w) \/ ReaperWrite(w)

ProcStep == RecoverySkipped \/ RecoveryRead \/ RecoveryWrite

Next ==
    \/ CreateJob \/ EnqueueJob \/ EnqueueRefused \/ EnqueueAbandoned \/ CancelJob
    \/ \E s \in Slots :
          RunStep(s) \/ Report(s) \/ Heartbeat(s) \/ RunRaises(s) \/ CancelRun(s)
    \/ GoStale \/ Age
    \/ \E w \in Reapers : ReaperStep(w)
    \/ Drain \/ ProcStep \/ ExpireLock \/ Crash

Spec == Init /\ [][Next]_vars

\* The heartbeat of a running job nobody runs grows old, a queued job ages, the
\* reaper's loop and the worker's runs go on.
Fairness ==
    /\ \A s \in Slots : WF_vars(RunStep(s))
    /\ \A w \in Reapers : WF_vars(ReaperStep(w))
    /\ WF_vars(ProcStep)
    /\ WF_vars(Age)
    /\ WF_vars(AllIdle /\ GoStale)

FairSpec == Spec /\ Fairness
-----------------------------------------------------------------------------
(***************************************************************************)
(* Properties.                                                             *)
(***************************************************************************)

\* A terminal status is final: no late progress, finalisation, cancellation,
\* reaping or recovery replaces it (update_job_status's refusal, the reaper's
\* conditional update, recover_stale_jobs_by_type).
TerminalIsFinal == [][(status \in Terminal) => (status' = status)]_vars

\* A concurrent heartbeat wins: the reaper fails a running job only if its
\* heartbeat is still old when the conditional update of
\* _recover_stale_job_if_unchanged executes, not merely when it was read.
HeartbeatWins ==
    [][status' = "failed" /\ errorType' = "heartbeat_lost" /\ status # "failed"
          => status = "running" /\ stale]_vars

\* What _finalize_generation_job reports is in the library: a completed job
\* has a row for every take it asked for and a partial one has at least one,
\* although a take of a job that turned terminal is counted without a row.
OutcomeIsBacked ==
    /\ status = "completed" => takes >= Count
    /\ status = "partial" => takes >= 1

\* No take enters the library after the job reached its end: a cancel that was
\* answered is never followed by a new take (lock_active_job before the insert).
NoTakeAfterTheEnd == [][takes' # takes => status \in Active]_vars

\* The job delivers no more takes than it asked for, across requeues.  (A kill
\* or a restart between a held run's re-enqueue and its end leaves two tasks of the
\* job, and each may render.)
TakesWithinCount == crashes + restarts = 0 => takes <= Count

\* GenerationProgressTracker: "never falls back, and stays below 1.0 while the
\* job runs".  The run after a kill or a restart of the worker begins anew.
ProgressNeverFalls ==
    [][status = "running" /\ status' = "running" /\ crashes + restarts = 0
          => progress' >= progress /\ progress' < TakeUnits * Count]_vars

\* A take that ran out of GPU memory is shown from the next take on, stays
\* visible until the job leaves RUNNING, through every later progress write, and
\* a partial job still names it.  The run after a kill or a restart of the
\* worker begins anew.
OomStaysVisible ==
    [][crashes + restarts = 0 =>
       /\ status = "running" /\ errorType = "gpu_out_of_memory" /\ status' \in {"running", "partial"}
            => errorType' = "gpu_out_of_memory"
       /\ \A s \in Slots :
            run'[s] = "render" /\ status' = "running" /\ failure'[s] = "gpu_out_of_memory"
                => errorType' = "gpu_out_of_memory"]_vars

\* expect_present in _finalize_generation_job never fails: a series that ends
\* with fewer takes than asked for has recorded a failure.
FailureIsKnown ==
    \A s \in Slots :
        run[s] = "loop" /\ index[s] = Count /\ completed[s] < Count => failure[s] # "none"

\* Every job ends: a lost enqueue, a killed worker, a lost status write or an
\* endless wait for the GPU leaves no job queued or running for ever.
EveryJobEnds == status \in Active ~> status \in Terminal
=============================================================================
