----------------------------- MODULE JobLimits -----------------------------
(* Admission of a user's job (api_helpers.create_job_with_rate_limit): limits  *)
(* counted and the row inserted under one advisory lock, stale rows recovered  *)
(* first, the task enqueued after the commit.                                  *)
EXTENDS Naturals, FiniteSets

CONSTANTS
    Users,
    Requests,      \* requests served at once
    Rows,          \* ids of job rows; bounds how many jobs are ever created
    MaxQueue,      \* max_queue_depth
    EnvLimit,      \* max_user_active_jobs and the hourly limit from the environment
    Overrides,     \* values an administrator may have set for a user or for all
    None

LimitConstants ==
    /\ IsFiniteSet(Rows)
    /\ MaxQueue \in Nat /\ EnvLimit \in Nat /\ Overrides \subseteq Nat
    /\ None \notin Users /\ None \notin Requests /\ None \notin Rows

Active == {"queued", "running"}

VARIABLES
    job,        \* job[r]: a job row; all terminal statuses are "over"
    req,        \* req[q]: a request
    lock,       \* holder of _RATE_LIMIT_LOCK_ID
    setting     \* setting[u], setting[None]: a limit set for a user, or for all

vars == <<job, req, lock, setting>>

NoRow == [status |-> "none", user |-> None, recent |-> FALSE]

Init ==
    /\ job = [r \in Rows |-> NoRow]
    /\ req = [q \in Requests |-> [pc |-> "idle", user |-> None, stale |-> {}, row |-> None]]
    /\ lock = None
    /\ setting \in [Users \cup {None} -> Overrides \cup {None}]

(* count_total_queued_jobs counts every active row, whoever owns it. *)
ActiveRows == {r \in Rows : job[r].status \in Active}
ActiveOf(u) == {r \in ActiveRows : job[r].user = u}
WindowOf(u) == {r \in Rows : job[r].user = u /\ job[r].recent}

(* resolve_rate_limit: the user's own value, else the global one, else the environment's. *)
Limit(u) ==
    IF setting[u] # None THEN setting[u] ELSE IF setting[None] # None THEN setting[None] ELSE EnvLimit

(* Rows a transaction updated or inserted and has not committed. *)
Locked == UNION {req[q].stale : q \in {p \in Requests : req[p].pc = "inserting"}}

-----------------------------------------------------------------------------
(* An authorised request: liveness is observed, the reads are committed. *)
Ask(q, u) ==
    /\ req[q].pc = "idle"
    /\ req' = [req EXCEPT ![q].pc = "asking", ![q].user = u]
    /\ UNCHANGED <<job, lock, setting>>

\* Mutant: the check and the insert are not serialized.
NoLock(q) == UNCHANGED lock

(* _begin_exclusive: pg_advisory_xact_lock, held to the end of the transaction. *)
BeginExclusive(q) == lock = None /\ lock' = q

Begin(q) ==
    /\ req[q].pc = "asking" /\ BeginExclusive(q)
    /\ req' = [req EXCEPT ![q].pc = "counting"]
    /\ UNCHANGED <<job, setting>>

(* recover_stale_jobs_by_age_and_type for the user: the rows the verdict finds *)
(* stale (any of them may be: StaleJobs), unless another transaction has them. *)
Recoverable(u) == SUBSET (ActiveOf(u) \ Locked)

(* _enforce_job_limits after the recovery *)
Admissible(u, gone) ==
    /\ Cardinality(ActiveRows \ gone) < MaxQueue
    /\ Cardinality(ActiveOf(u) \ gone) < Limit(u)
    /\ Cardinality(WindowOf(u)) < Limit(u)

Release(q) == lock' = IF lock = q THEN None ELSE lock

(* 429: the transaction is rolled back, the recovery with it. *)
Reject(q) ==
    /\ req[q].pc = "counting"
    /\ \E gone \in Recoverable(req[q].user) : ~Admissible(req[q].user, gone)
    /\ req' = [req EXCEPT ![q].pc = "idle", ![q].user = None]
    /\ Release(q)
    /\ UNCHANGED <<job, setting>>

Enforce(q) ==
    /\ req[q].pc = "counting"
    /\ \E gone \in Recoverable(req[q].user) :
        /\ Admissible(req[q].user, gone)
        /\ req' = [req EXCEPT ![q].pc = "inserting", ![q].stale = gone]
    /\ UNCHANGED <<job, lock, setting>>

Unused == {r \in Rows : job[r].status = "none"}
FreshRow == CHOOSE r \in Unused : TRUE

(* create_job, and the endpoint's commit *)
Commit(q) ==
    /\ req[q].pc = "inserting"
    /\ Unused # {}
    /\ LET r == FreshRow IN
        /\ job' = [s \in Rows |->
             IF s = r THEN [status |-> "queued", user |-> req[q].user, recent |-> TRUE]
             ELSE IF s \in req[q].stale THEN [job[s] EXCEPT !.status = "over"] ELSE job[s]]
        /\ req' = [req EXCEPT ![q] = [pc |-> "dispatch", user |-> None, stale |-> {}, row |-> r]]
    /\ Release(q)
    /\ UNCHANGED setting

(* The endpoint enqueues the task, or fails the job (_fail_job) when no worker *)
(* is healthy or Redis is away; a second failure leaves the row queued.        *)
Dispatch(q) ==
    /\ req[q].pc = "dispatch"
    /\ \E failed \in BOOLEAN :
        job' = IF failed /\ job[req[q].row].status \in Active /\ req[q].row \notin Locked
                 THEN [job EXCEPT ![req[q].row].status = "over"] ELSE job
    /\ req' = [req EXCEPT ![q].pc = "idle", ![q].row = None]
    /\ UNCHANGED <<lock, setting>>

-----------------------------------------------------------------------------
(* Jobs made for nobody (automatic scoring) are counted but not limited. *)
CreateUnowned ==
    /\ Unused # {}
    /\ job' = [job EXCEPT ![FreshRow] = [NoRow EXCEPT !.status = "queued"]]
    /\ UNCHANGED <<req, lock, setting>>

(* update_job_status by the workers *)
Work(r) ==
    /\ job[r].status \in Active /\ r \notin Locked
    /\ job' = [job EXCEPT ![r].status = IF @ = "queued" THEN "running" ELSE "over"]
    /\ UNCHANGED <<req, lock, setting>>

(* A job leaves the hourly window. *)
LeaveWindow(r) ==
    /\ job[r].recent /\ job' = [job EXCEPT ![r].recent = FALSE]
    /\ UNCHANGED <<req, lock, setting>>

Next ==
    \/ CreateUnowned
    \/ \E r \in Rows : Work(r) \/ LeaveWindow(r)
    \/ \E q \in Requests : \/ \E u \in Users : Ask(q, u)
                           \/ Begin(q) \/ Reject(q) \/ Enforce(q) \/ Commit(q) \/ Dispatch(q)

Spec == Init /\ [][Next]_vars

-----------------------------------------------------------------------------
(* No user ever has more active jobs, or more jobs in an hour, than the limit  *)
(* that holds for him, and all users together never have more than the queue   *)
(* takes, whatever requests run at once (create_job_with_rate_limit: "Prevents *)
(* TOCTOU races").                                                             *)
LimitsHold ==
    /\ \A u \in Users : Cardinality(ActiveOf(u)) <= Limit(u) /\ Cardinality(WindowOf(u)) <= Limit(u)
    /\ Cardinality({r \in ActiveRows : job[r].user # None}) <= MaxQueue

=============================================================================
