----------------------------- MODULE StaleJobs -----------------------------
(* When a job is given up as stale: the durable worker observations            *)
(* (worker_liveness.py), the verdict on a queued job (db/queries/jobs.py) and  *)
(* the reaper that applies it (lifecycle.py), across restarts of the workers   *)
(* and of the server.  Time is counted in reaper intervals.                    *)
EXTENDS Naturals, FiniteSets

CONSTANTS
    Signals,      \* what the job's execution needs: music and ACE-Step worker
    Grace,        \* WORKER_RESTART_GRACE_SECONDS
    QueuedAge,    \* queued_seconds of STALE_JOB_THRESHOLDS
    FullQueue,    \* full_queue_bound_seconds
    MaxStops,     \* bound on stops of workers and of the server
    None

StaleConstants ==
    /\ Grace \in Nat /\ QueuedAge \in Nat /\ FullQueue \in Nat
    /\ None \notin Nat \cup {"no_worker_alive", "queued_full_queue_bound", "queued_too_long"}

VARIABLES
    up,       \* up[s]: the signal is there
    down,     \* down[s]: intervals since it went
    seen,     \* seen[s]: intervals since the last observation, None: never
    server,   \* age of the server process, None: not running
    swept,    \* whether the reaper ran in this interval
    job,      \* the job: status, age, whether its task is in the queue, why it ended
    stops

vars == <<up, down, seen, server, swept, job, stops>>

Age == 0..(FullQueue + 1)           \* ages are counted no further
Older(n) == IF n \in Age \ {FullQueue + 1} THEN n + 1 ELSE n

Init ==
    /\ up \in [Signals -> BOOLEAN]
    /\ down = [s \in Signals |-> 0]
    /\ seen = [s \in Signals |-> None]
    /\ server = 0 /\ swept = FALSE
    /\ \E task \in BOOLEAN : job = [status |-> "queued", age |-> 0, task |-> task, why |-> None]
    /\ stops = 0

Stop == stops < MaxStops /\ stops' = stops + 1

-----------------------------------------------------------------------------
\* Mutant: a missing signal is judged without regard to the observer's own age.
MissingIgnoresServerAge(s) ==
    IF seen[s] = None THEN "unknown" ELSE IF seen[s] <= Grace THEN "alive" ELSE "dead"

(* _missing_signal_liveness *)
MissingSignalLiveness(s) ==
    IF seen[s] = None THEN "unknown"
    ELSE IF seen[s] <= Grace \/ server <= Grace THEN "alive" ELSE "dead"

(* arq_worker_liveness, acestep_worker_liveness *)
Liveness(s) == IF up[s] THEN "alive" ELSE MissingSignalLiveness(s)

(* _model_execution_liveness *)
JobLiveness ==
    IF \E s \in Signals : Liveness(s) = "dead" THEN "dead"
    ELSE IF \A s \in Signals : Liveness(s) = "alive" THEN "alive" ELSE "unknown"

\* Mutant: an unknown signal leaves the job alone.
VerdictSparesUnknown(live) ==
    CASE live = "dead" -> "no_worker_alive"
      [] live = "alive" -> IF job.age > FullQueue THEN "queued_full_queue_bound" ELSE None
      [] OTHER -> None

(* _queued_verdict *)
QueuedVerdict(live) ==
    CASE live = "dead" -> "no_worker_alive"
      [] live = "alive" -> IF job.age > FullQueue THEN "queued_full_queue_bound" ELSE None
      [] OTHER -> IF job.age > QueuedAge THEN "queued_too_long" ELSE None

(* _record_alive *)
Recorded == [s \in Signals |-> IF up[s] THEN 0 ELSE seen[s]]

(* _run_stale_job_reaper_tick: read and record the signals, apply the verdict. *)
Reap ==
    /\ server # None /\ ~swept /\ swept' = TRUE
    /\ seen' = Recorded
    /\ \E v \in {QueuedVerdict(JobLiveness)} :
        job' = IF job.status = "queued" /\ v # None
                 THEN [job EXCEPT !.status = "failed", !.why = v] ELSE job
    /\ UNCHANGED <<up, down, server, stops>>

(* A worker takes the task when all it needs is there. *)
TakeTask ==
    /\ job.status = "queued" /\ job.task /\ \A s \in Signals : up[s]
    /\ job' = [job EXCEPT !.status = "running"]
    /\ UNCHANGED <<up, down, seen, server, swept, stops>>

(* A signal that came back stays until it was observed once: one that goes     *)
(* again unseen is as good as away.                                            *)
SignalGoes(s) ==
    /\ up[s] /\ Stop
    /\ server # None => seen[s] \in {0, 1}
    /\ up' = [up EXCEPT ![s] = FALSE] /\ down' = [down EXCEPT ![s] = 0]
    /\ UNCHANGED <<seen, server, swept, job>>

SignalComes(s) ==
    /\ ~up[s]
    /\ up' = [up EXCEPT ![s] = TRUE] /\ down' = [down EXCEPT ![s] = 0]
    /\ UNCHANGED <<seen, server, swept, job, stops>>

ServerStops ==
    /\ server # None /\ Stop /\ server' = None
    /\ UNCHANGED <<up, down, seen, swept, job>>

ServerStarts ==
    /\ server = None /\ server' = 0
    /\ UNCHANGED <<up, down, seen, swept, job, stops>>

(* One reaper interval passes; a running server has reaped in it. *)
Tick ==
    /\ server # None => swept
    /\ swept' = FALSE
    /\ down' = [s \in Signals |-> IF up[s] THEN 0 ELSE Older(down[s])]
    /\ seen' = [s \in Signals |-> IF seen[s] = None THEN None ELSE Older(seen[s])]
    /\ server' = IF server = None THEN None ELSE Older(server)
    /\ job' = [job EXCEPT !.age = Older(@)]
    /\ UNCHANGED <<up, stops>>

Next ==
    \/ Reap \/ TakeTask \/ ServerStops \/ ServerStarts \/ Tick
    \/ \E s \in Signals : SignalGoes(s) \/ SignalComes(s)

-----------------------------------------------------------------------------
(* A queued job is failed for want of a worker only if one it needs has really *)
(* been away: for its restart grace, short of the one interval by which an     *)
(* observation may precede the stop.  Not when the server itself was away and  *)
(* missed that the worker ran (_missing_signal_liveness).                      *)
RestartIsSpared ==
    [][(job'.why = "no_worker_alive" /\ job.why = None) => \E s \in Signals : ~up[s] /\ down[s] >= Grace]_vars

(* No job stays queued for ever: not one whose task was lost while the worker  *)
(* is alive, nor one whose worker was never seen (_queued_verdict).            *)
NobodyQueuesForever == <>(job.status # "queued")

=============================================================================
