------------------------------ MODULE ModelJobs ------------------------------
(* The jobs that bring model weights to a worker: load_model_on_worker and     *)
(* download_model_on_worker (src/songmaker_cli/jobs/model_lifecycle.py), the   *)
(* admin endpoints that create them (admin_api.py), the Redis key that lets    *)
(* one download of a mode run at a time (acestep_state.py), and the worker's   *)
(* side of a download (src/acestep_worker/downloads.py).  Modes do not         *)
(* interact here, so there is one mode.                                        *)
EXTENDS Naturals, FiniteSets

CONSTANTS
    Downloads, Loads,   \* the jobs of each kind
    MaxAttempts,        \* DOWNLOAD_MAX_ATTEMPTS
    MaxCrashes,         \* bound on deaths of the music worker
    None

(* What the proofs assume of the constants: the key of no download is no job. *)
DownloadConstants == None \notin Downloads

Jobs == Downloads \cup Loads

VARIABLES
    row,        \* row[j]: the status of the job's database row
    run,        \* run[j]: where its arq run is
    attempt,    \* attempt[j]: download attempts made
    key,        \* the Redis key download_key(mode): the job it names
    task,       \* task[j]: the newest download task of job j on the worker
    older,      \* download tasks an attempt gave up while they still ran
    onDisk,     \* is_model_downloaded
    crashes

vars == <<row, run, attempt, key, task, older, onDisk, crashes>>

Terminal == {"completed", "failed"}

(* A download run between taking the key and giving it back. *)
Holding == {"submit", "stream", "backoff", "clear"}
Live(j) == run[j] \in {"claim", "post"} \cup Holding

(* update_job_status: a terminal row refuses every write. *)
Write(j, status) == row' = [row EXCEPT ![j] = IF @ \in Terminal THEN @ ELSE status]

Goto(j, phase) == run' = [run EXCEPT ![j] = phase]

Init ==
    /\ row = [j \in Jobs |-> "none"]
    /\ run = [j \in Jobs |-> "none"]
    /\ attempt = [j \in Jobs |-> 0]
    /\ key = None
    /\ task = [j \in Jobs |-> "none"]
    /\ older = 0
    /\ onDisk = FALSE
    /\ crashes = 0

-----------------------------------------------------------------------------
(* download_model_endpoint: refused when the weights are there or a download  *)
(* holds the key; the key is taken later, by the job.                         *)
RequestDownload(j) ==
    /\ j \in Downloads /\ row[j] = "none"
    /\ ~onDisk /\ key = None
    /\ row' = [row EXCEPT ![j] = "queued"]
    /\ Goto(j, "enqueue")
    /\ UNCHANGED <<attempt, key, task, older, onDisk, crashes>>

(* load_model_on_worker_endpoint *)
RequestLoad(j) ==
    /\ j \in Loads /\ row[j] = "none"
    /\ row' = [row EXCEPT ![j] = "queued"]
    /\ Goto(j, "enqueue")
    /\ UNCHANGED <<attempt, key, task, older, onDisk, crashes>>

(* The row is committed before the job is enqueued; Redis may be away. *)
Enqueue(j) ==
    /\ run[j] = "enqueue"
    /\ \/ Goto(j, "queued") /\ UNCHANGED row
       \/ Goto(j, "done") /\ Write(j, "failed")
    /\ UNCHANGED <<attempt, key, task, older, onDisk, crashes>>

(* arq starts the run: its row turns RUNNING, unless it is terminal, which    *)
(* does not stop the run.                                                     *)
Begin(j) ==
    /\ run[j] = "queued"
    /\ Write(j, "running")
    /\ Goto(j, IF j \in Downloads THEN "claim" ELSE "post")
    /\ UNCHANGED <<attempt, key, task, older, onDisk, crashes>>

(* load_model_on_worker: worker gone, unreachable within 960 s, refused the   *)
(* load, or loaded.                                                           *)
PostLoad(j) ==
    /\ run[j] = "post"
    /\ \E status \in Terminal : Write(j, status)
    /\ Goto(j, "done")
    /\ UNCHANGED <<attempt, key, task, older, onDisk, crashes>>

-----------------------------------------------------------------------------
\* Mutant: the key is written without NX.
ClaimAlways(j) ==
    /\ key' = j
    /\ Goto(j, "submit")
    /\ UNCHANGED row

(* _acquire_download_slot: SET NX; a second job fails as duplicate_download.  *)
TakeSlot(j) ==
    \/ key = None /\ key' = j /\ Goto(j, "submit") /\ UNCHANGED row
    \/ key # None /\ Write(j, "failed") /\ Goto(j, "done") /\ UNCHANGED key

Claim(j) ==
    /\ run[j] = "claim"
    /\ TakeSlot(j)
    /\ attempt' = [attempt EXCEPT ![j] = 0]
    /\ UNCHANGED <<task, older, onDisk, crashes>>

(* _run_download_attempt, up to the submission: no worker online, worker      *)
(* unreachable or refusing end the job; otherwise the worker runs a task.     *)
Submit(j) ==
    /\ run[j] = "submit"
    /\ \/ /\ Goto(j, "stream")
          /\ attempt' = [attempt EXCEPT ![j] = @ + 1]
          /\ task' = [task EXCEPT ![j] = "running"]
          /\ older' = older + (IF task[j] = "running" THEN 1 ELSE 0)
          /\ UNCHANGED row
       \/ Write(j, "failed") /\ Goto(j, "clear") /\ UNCHANGED <<attempt, task, older>>
    /\ UNCHANGED <<key, onDisk, crashes>>

\* Mutant: a stream that ends without an error counts as the download.
EndedIsDone(j) == task[j] # "error"

(* The stream's `done' event carries a result. *)
Delivered(j) == task[j] = "done"

StreamDone(j) ==
    /\ run[j] = "stream" /\ Delivered(j)
    /\ Write(j, "completed")
    /\ Goto(j, "clear")
    /\ UNCHANGED <<attempt, key, task, older, onDisk, crashes>>

(* The task failed, its stream went silent or broke: another attempt after a  *)
(* pause, at most MaxAttempts.  The task of a broken stream goes on.          *)
StreamBreaks(j) ==
    /\ run[j] = "stream"
    /\ \/ /\ attempt[j] < MaxAttempts
          /\ Goto(j, "backoff")
          /\ UNCHANGED row
       \/ /\ attempt[j] >= MaxAttempts
          /\ Write(j, "failed")
          /\ Goto(j, "clear")
    /\ UNCHANGED <<attempt, key, task, older, onDisk, crashes>>

(* Any other transport error ends the job at once. *)
StreamFails(j) ==
    /\ run[j] = "stream"
    /\ Write(j, "failed")
    /\ Goto(j, "clear")
    /\ UNCHANGED <<attempt, key, task, older, onDisk, crashes>>

Retry(j) ==
    /\ run[j] = "backoff"
    /\ Goto(j, "submit")
    /\ UNCHANGED <<row, attempt, key, task, older, onDisk, crashes>>

(* clear_download_in_progress deletes the key without looking at its value. *)
DropKey(j) == key' = None

Clear(j) ==
    /\ run[j] = "clear"
    /\ DropKey(j)
    /\ Goto(j, "done")
    /\ UNCHANGED <<row, attempt, task, older, onDisk, crashes>>

(* arq cancels the run at its job timeout: the finally clause runs, the row   *)
(* stays RUNNING.                                                             *)
Cancel(j) ==
    /\ Live(j)
    /\ Goto(j, "done")
    /\ IF run[j] \in Holding THEN DropKey(j) ELSE UNCHANGED key
    /\ UNCHANGED <<row, attempt, task, older, onDisk, crashes>>

-----------------------------------------------------------------------------
(* run_download on the worker ends: hf_snapshot_download returned or raised. *)
TaskEnds(j) ==
    /\ task[j] = "running"
    /\ \E outcome \in {"done", "error"} :
          /\ task' = [task EXCEPT ![j] = outcome]
          /\ onDisk' = (onDisk \/ outcome = "done")
    /\ UNCHANGED <<row, run, attempt, key, older, crashes>>

OlderTaskEnds ==
    /\ older > 0
    /\ older' = older - 1
    /\ onDisk' \in {onDisk, TRUE}
    /\ UNCHANGED <<row, run, attempt, key, task, crashes>>

(* The music worker dies: its runs are gone, arq delivers them again.  The    *)
(* tasks on the worker and the key stay.                                      *)
Crash ==
    /\ crashes < MaxCrashes
    /\ crashes' = crashes + 1
    /\ run' = [j \in Jobs |-> IF Live(j) THEN "queued" ELSE run[j]]
    /\ UNCHANGED <<row, attempt, key, task, older, onDisk>>

\* Mutant: only queued rows are looked at.
ReapableQueued(j) == row[j] = "queued" /\ run[j] = "done"

(* recover_orphaned_jobs at the next start, reap_stale_jobs later: a RUNNING  *)
(* row without a run that touches its heartbeat.                              *)
Reapable(j) == row[j] = "running" /\ ~Live(j)

Reap(j) ==
    /\ Reapable(j)
    /\ Write(j, "failed")
    /\ UNCHANGED <<run, attempt, key, task, older, onDisk, crashes>>

\* Mutant: SET without EX.
NoExpiry == FALSE /\ UNCHANGED vars

(* DOWNLOAD_TTL_SECONDS is longer than the job timeout, so a key expires only *)
(* when the run that took it is gone.                                         *)
KeyExpires ==
    /\ key # None /\ run[key] \notin Holding
    /\ key' = None
    /\ UNCHANGED <<row, run, attempt, task, older, onDisk, crashes>>

Step(j) ==
    \/ Enqueue(j) \/ Begin(j) \/ PostLoad(j) \/ Claim(j) \/ Submit(j)
    \/ StreamDone(j) \/ StreamBreaks(j) \/ StreamFails(j) \/ Retry(j) \/ Clear(j)

Next ==
    \/ \E j \in Jobs :
          RequestDownload(j) \/ RequestLoad(j) \/ Step(j) \/ Cancel(j) \/ TaskEnds(j) \/ Reap(j)
    \/ OlderTaskEnds \/ Crash \/ KeyExpires

Spec == Init /\ [][Next]_vars

(* arq runs every delivered job and each await of a run is bounded by a       *)
(* time-out; the reaper and Redis's expiry run for ever.                      *)
FairSpec ==
    /\ Spec
    /\ \A j \in Jobs : WF_vars(Step(j)) /\ WF_vars(Reap(j))
    /\ WF_vars(KeyExpires)

-----------------------------------------------------------------------------
(* Whoever downloads holds the key, so no two jobs fetch the same weights at  *)
(* a time.  The key is deleted without a look at its owner; this says that    *)
(* the delete never hits a key another job took meanwhile, through crashes,   *)
(* redelivered runs, expiry and cancellation.                                 *)
HolderOwnsKey == \A j \in Downloads : run[j] \in Holding => key = j

(* A download job that reports success left the weights on the worker's disk, *)
(* also when an earlier attempt's task still ran beside it.                   *)
CompletedIsOnDisk == \A j \in Downloads : row[j] = "completed" => onDisk

(* A download that was claimed does not lock its mode for ever: a crash       *)
(* leaves the key to its expiry.                                              *)
SlotIsFreed == key # None ~> key = None

(* Every load or download job reaches a terminal status, the ones whose run   *)
(* was cancelled at the job timeout or lost with its process included.        *)
EveryModelJobEnds == \A j \in Jobs : row[j] = "queued" ~> row[j] \in Terminal
=============================================================================
