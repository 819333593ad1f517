--------------------------- MODULE ScoreBackfill ---------------------------
(* How every take comes to its scores: the automatic job after a generation    *)
(* (jobs/generation.py) and the throttled loop for the takes it missed         *)
(* (lifecycle.score_backfill_loop), with takes no scorer can score.            *)
EXTENDS Naturals, Sequences, FiniteSets, FiniteSetsExt, SequencesExt

CONSTANTS
    Takes,         \* 1..n, oldest first
    Poison,        \* takes whose job always fails
    Pool,          \* SCORE_BACKFILL_CANDIDATE_POOL_SIZE
    Batch,         \* SCORE_BACKFILL_BATCH_SIZE
    MaxAttempts,   \* SCORE_BACKFILL_MAX_ATTEMPTS
    TtlTicks,      \* SCORE_BACKFILL_ATTEMPT_TTL_SECONDS in loop intervals
    MaxOutages,    \* bound on the times the scoring worker goes away
    MaxFailures    \* bound on jobs of other takes that fail

VARIABLES
    born,      \* the takes generated so far are 1..born
    scored,    \* the takes with a score row
    queued,    \* the takes with a task in the scoring queue
    up,        \* whether the scoring worker is up
    tries,     \* tries[t]: the attempt counter, 0: none
    idle,      \* idle[t]: intervals since the counter's TTL was refreshed
    tracked,   \* SCORE_BACKFILL_TRACKED_SET_KEY
    batch,     \* the takes this tick still has to handle
    outages,
    failures

vars == <<born, scored, queued, up, tries, idle, tracked, batch, outages, failures>>

Init ==
    /\ born = 0 /\ scored = {} /\ queued = {} /\ up = TRUE
    /\ tries = [t \in Takes |-> 0] /\ idle = [t \in Takes |-> 0]
    /\ tracked = {} /\ batch = <<>> /\ outages = 0 /\ failures = 0

(* _dispatch_auto_score: an unhealthy worker fails the job, else it is queued. *)
Dispatch(t) == queued' = IF up THEN queued \cup {t} ELSE queued

(* A generation job saved a take and creates its score job                     *)
(* (_create_auto_score_job, _auto_score_generation); the job may be lost, as   *)
(* when the process dies in between.                                           *)
Born ==
    /\ born + 1 \in Takes
    /\ born' = born + 1
    /\ Dispatch(born + 1) \/ UNCHANGED queued
    /\ UNCHANGED <<scored, up, tries, idle, tracked, batch, outages, failures>>

(* run_scoring_job: a score row, or a failed job. *)
Score(t) ==
    /\ up /\ t \in queued
    /\ queued' = queued \ {t}
    /\ \/ t \notin Poison /\ scored' = scored \cup {t} /\ UNCHANGED failures
       \/ t \in Poison /\ UNCHANGED <<scored, failures>>
       \/ failures < MaxFailures /\ failures' = failures + 1 /\ UNCHANGED scored
    /\ UNCHANGED <<born, up, tries, idle, tracked, batch, outages>>

-----------------------------------------------------------------------------
(* _clear_resolved_backfill_attempts *)
Resolved == tracked \cap scored

(* _pick_unscored_generations: the oldest takes without a score row. *)
Candidates == SelectSeq([i \in 1..born |-> i], LAMBDA t : t \notin scored)
Pooled == SubSeq(Candidates, 1, Min({Pool, Len(Candidates)}))

(* _exhausted_backfill_ids *)
Exhausted(count) == count >= MaxAttempts

\* Mutant: only the oldest batch is looked at, not a larger pool.
EligibleOldest(counts) ==
    SelectSeq(SubSeq(Pooled, 1, Min({Batch, Len(Pooled)})), LAMBDA t : ~Exhausted(counts[t]))

(* The takes of the pool that still have attempts. *)
Eligible(counts) == SelectSeq(Pooled, LAMBDA t : ~Exhausted(counts[t]))

(* The counters a tick reads: without the lapsed ones and those of scored takes. *)
Counted == [t \in Takes |-> IF t \in Resolved \/ idle[t] + 1 >= TtlTicks THEN 0 ELSE tries[t]]

(* backfill_unscored_generations, once per interval: counters lapse with their *)
(* TTL, those of scored takes are dropped, a batch is chosen.                  *)
Tick ==
    /\ batch = <<>> /\ born > 0
    /\ tries' = Counted
    /\ idle' = [t \in Takes |-> IF Counted[t] = 0 THEN 0 ELSE idle[t] + 1]
    /\ tracked' = tracked \ Resolved
    /\ \E due \in {Eligible(Counted)} : batch' = SubSeq(due, 1, Min({Batch, Len(due)}))
    /\ UNCHANGED <<born, scored, queued, up, outages, failures>>

(* _record_backfill_attempt, then _auto_score_generation. *)
Attempt ==
    /\ batch # <<>>
    /\ LET t == Head(batch) IN
        /\ tries' = [tries EXCEPT ![t] = @ + 1]
        /\ idle' = [idle EXCEPT ![t] = 0]
        /\ tracked' = tracked \cup {t}
        /\ Dispatch(t)
    /\ batch' = Tail(batch)
    /\ UNCHANGED <<born, scored, up, outages, failures>>

WorkerDown ==
    /\ up /\ outages < MaxOutages
    /\ up' = FALSE /\ outages' = outages + 1
    /\ UNCHANGED <<born, scored, queued, tries, idle, tracked, batch, failures>>

WorkerUp ==
    /\ ~up /\ up' = TRUE
    /\ UNCHANGED <<born, scored, queued, tries, idle, tracked, batch, outages, failures>>

Next ==
    \/ Born \/ Tick \/ Attempt \/ WorkerDown \/ WorkerUp
    \/ \E t \in Takes : Score(t)

-----------------------------------------------------------------------------
(* Every take that can be scored is: after lost jobs, failures and outages     *)
(* that used up its attempts, and behind older takes that never succeed        *)
(* (backfill_unscored_generations).                                            *)
EveryTakeIsScored == \A t \in Takes \ Poison : <>(t \in scored)

=============================================================================
