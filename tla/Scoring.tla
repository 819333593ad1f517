------------------------------ MODULE Scoring ------------------------------
(* Scoring jobs (jobs/scoring.py) that share one scorer child behind a pipe    *)
(* (scoring/subprocess_runner.py, scoring/pipeline.py), and the two writers of *)
(* a take's score row: those jobs and the co-writer's coherence verdict.       *)
EXTENDS Naturals, Sequences, FiniteSets

CONSTANTS
    Jobs,             \* scoring jobs that run at once (SCORING_MAX_JOBS)
    Gens,             \* takes
    Scorers,          \* scorers of the child; "text" also gives the transcript
    MaxFaults,        \* bound on dead children, timeouts, jobs ended from outside,
                      \* deleted takes and progress updates the database refuses
    None

Verdict == "verdict"          \* the key of the co-writer's coherence pair
Writers == Jobs \cup {Verdict}
Over == {"completed", "failed", "cancelled"}

VARIABLES
    job,          \* job[j]: row, place in run_scoring_job, take and what came back
    verdict,      \* the co-writer's call: its take, its step and the row it read
    pipeLock,     \* holder of ScorerProcess._pipe_lock
    child,        \* the child: alive, requests and answers in its pipe, abandoned scorer
    tainted,      \* ScorerProcess._tainted
    rows,         \* rows[g]: the "batch" score rows of a take: key -> the take it was measured on
    transcript,   \* transcript[g]: the take a transcript was heard in
    present,      \* the takes in the database
    rowLock,      \* rowLock[g]: holder of the take's row lock
    faults

vars == <<job, verdict, pipeLock, child, tainted, rows, transcript, present, rowLock, faults>>

(* What the proofs need of the constants: the verdict's key is no job's, and    *)
(* None is no writer.                                                          *)
ScoringConstants == Verdict \notin Jobs /\ None \notin Writers

NoChild == [alive |-> FALSE, asked |-> <<>>, told |-> <<>>, abandoned |-> FALSE]
FreshChild == [NoChild EXCEPT !.alive = TRUE]

Init ==
    /\ job \in [Jobs -> [status : {"queued"}, pc : {"pick"}, gen : Gens,
                         try : {1}, got : {{}}, of : {None}, late : {FALSE}, seen : {<<>>}]]
    /\ verdict \in [pc : {"idle"}, gen : Gens, seen : {<<>>}]
    /\ pipeLock = None /\ child = NoChild /\ tainted = FALSE
    /\ rows = [g \in Gens |-> <<>>] /\ transcript = [g \in Gens |-> None]
    /\ present = Gens /\ rowLock = [g \in Gens |-> None]
    /\ faults = 0

Fault == faults < MaxFaults /\ faults' = faults + 1
childVars == <<pipeLock, child, tainted>>
rowVars == <<verdict, rows, transcript, present, rowLock>>

(* A step of job j that only moves it; _update_job leaves a terminal row alone. *)
Move(j, pc) == job' = [job EXCEPT ![j].pc = pc]
EndAs(j, status) ==
    job' = [job EXCEPT ![j].pc = "end", ![j].status = IF @ \in Over THEN @ ELSE status]

-----------------------------------------------------------------------------
(* run_scoring_job up to the call of the scorer *)

(* A terminal job stops; another one becomes running.  The second look at the  *)
(* row follows in the steps after it.                                          *)
Pick(j) ==
    /\ job[j].pc = "pick"
    /\ IF job[j].status \in Over THEN Move(j, "end")
       ELSE job' = [job EXCEPT ![j].pc = "load", ![j].status = "running"]
    /\ UNCHANGED <<childVars, rowVars, faults>>

(* _load_scoring_input: a take that is gone, or whose audio is, fails the job. *)
LoadScoringInput(j) ==
    /\ job[j].pc = "load"
    /\ IF job[j].status \in Over THEN Move(j, "end")
       ELSE IF job[j].gen \notin present THEN EndAs(j, "failed")
       ELSE Move(j, "score")
    /\ UNCHANGED <<childVars, rowVars, faults>>

-----------------------------------------------------------------------------
(* ScorerProcess *)

(* score: wait for the pipe lock, or stop if the row became terminal. *)
TakePipe(j) ==
    /\ job[j].pc = "score"
    /\ \/ job[j].status \in Over /\ Move(j, "end") /\ UNCHANGED childVars
       \/ /\ job[j].status \notin Over
          /\ pipeLock = None /\ pipeLock' = j
          /\ job' = [job EXCEPT ![j].pc = "send", ![j].try = 1]
          /\ UNCHANGED <<child, tainted>>
    /\ UNCHANGED <<rowVars, faults>>

\* Mutant: a live child is reused, tainted or not.
StartedIfDead == IF child.alive THEN child ELSE FreshChild

(* _ensure_started: a live clean child is reused, any other is replaced. *)
EnsureStarted == IF child.alive /\ ~tainted THEN child ELSE FreshChild

(* _score_with_retry: one attempt sends the request. *)
SendRequest(j) ==
    /\ job[j].pc = "send"
    /\ child' = [EnsureStarted EXCEPT !.asked = Append(@, j)]
    /\ tainted' = (EnsureStarted = child /\ tainted)
    /\ Move(j, "poll")
    /\ UNCHANGED <<pipeLock, rowVars, faults>>

(* _child_main: a progress message while the oldest request runs. *)
ChildProgress ==
    /\ child.alive /\ child.asked # <<>> /\ child.told = <<>>
    /\ child' = [child EXCEPT !.told = <<[kind |-> "progress"]>>]
    /\ UNCHANGED <<job, pipeLock, tainted, rowVars, faults>>

(* run_scorer: a value, nothing (failed, not registered or not asked for), or  *)
(* abandoned in its thread when it ran over its budget (_call_with_timeout).   *)
ScorerRuns == [Scorers -> {"value", "nothing", "abandoned"}]

(* run_scoring_pipeline: what came of all scorers. *)
Answers(j) ==
    {[kind |-> "error"]} \cup
    {[kind |-> "scores", of |-> job[j].gen, got |-> {s \in Scorers : o[s] = "value"},
      late |-> \E s \in Scorers : o[s] = "abandoned"] : o \in ScorerRuns}

(* _child_main: the answer to the oldest request. *)
ChildAnswer ==
    /\ child.alive /\ child.asked # <<>>
    /\ \E a \in Answers(Head(child.asked)) :
        child' = [child EXCEPT !.asked = Tail(@), !.told = Append(@, a),
                               !.abandoned = @ \/ (a.kind = "scores" /\ a.late)]
    /\ UNCHANGED <<job, pipeLock, tainted, rowVars, faults>>

(* The child dies; what it already sent can still be read. *)
ChildDies ==
    /\ child.alive /\ Fault
    /\ child' = [child EXCEPT !.alive = FALSE, !.asked = <<>>]
    /\ UNCHANGED <<job, pipeLock, tainted, rowVars>>

Hears(j, kind) == job[j].pc = "poll" /\ child.told # <<>> /\ Head(child.told).kind = kind

(* _poll_response, a ScoreProgressUpdate: on_progress updates the job. *)
PollProgress(j) ==
    /\ Hears(j, "progress")
    /\ child' = [child EXCEPT !.told = Tail(@)]
    /\ UNCHANGED <<job, pipeLock, tainted, rowVars, faults>>

(* on_progress raises when the update failed twice (_update_job): the          *)
(* exception leaves _poll_response and _score_with_retry as it is.             *)
PollProgressRaises(j) ==
    /\ Hears(j, "progress")
    /\ Fault
    /\ child' = [child EXCEPT !.told = Tail(@)]
    /\ EndAs(j, "failed") /\ pipeLock' = None
    /\ UNCHANGED <<tainted, rowVars>>

(* _poll_response, a ScoreResponse: whatever answer comes next is the job's. *)
PollScores(j) ==
    /\ Hears(j, "scores")
    /\ LET a == Head(child.told) IN
        /\ job' = [job EXCEPT ![j].pc = "scored", ![j].got = a.got, ![j].of = a.of, ![j].late = a.late]
        /\ tainted' = a.late
    /\ child' = [child EXCEPT !.told = Tail(@)]
    /\ pipeLock' = None
    /\ UNCHANGED <<rowVars, faults>>

PollError(j) ==
    /\ Hears(j, "error")
    /\ child' = [child EXCEPT !.told = Tail(@)]
    /\ EndAs(j, "failed") /\ pipeLock' = None
    /\ UNCHANGED <<tainted, rowVars, faults>>

(* EOFError and its like: respawn and send once more, or give up. *)
PollBroken(j) ==
    /\ job[j].pc = "poll" /\ ~child.alive /\ child.told = <<>>
    /\ child' = NoChild
    /\ IF job[j].try = 1
         THEN job' = [job EXCEPT ![j].pc = "send", ![j].try = 2] /\ UNCHANGED pipeLock
         ELSE EndAs(j, "failed") /\ pipeLock' = None
    /\ UNCHANGED <<tainted, rowVars, faults>>

(* The watchdog: no answer within pipeline_timeout kills the child. *)
PollTimeout(j) ==
    /\ job[j].pc = "poll" /\ child.alive /\ child.asked # <<>> /\ Fault
    /\ child' = NoChild
    /\ EndAs(j, "failed") /\ pipeLock' = None
    /\ UNCHANGED <<tainted, rowVars>>

-----------------------------------------------------------------------------
(* Saving: lock_active_job, then save_scores under the take's row lock *)

RowLocked(j) == job[j].pc = "merge"     \* lock_active_job until the commit

\* Mutant: the take's row is not locked.
NoRowLock(g, w) == UNCHANGED rowLock

(* save_scores: SELECT ... FOR UPDATE of the generation row. *)
LockGeneration(g, w) == rowLock[g] = None /\ rowLock' = [rowLock EXCEPT ![g] = w]

Unlock(g) == rowLock' = [rowLock EXCEPT ![g] = None]

(* save_scores: without a row one is inserted; else the refreshed keys are     *)
(* dropped from the row that was read and the new values merged in.            *)
Saved(g, seen, keys, values) ==
    IF seen = <<>> THEN Append(rows[g], values)
    ELSE [rows[g] EXCEPT ![1] = [k \in DOMAIN values \cup (DOMAIN seen[1] \ keys) |->
                                    IF k \in DOMAIN values THEN values[k] ELSE seen[1][k]]]

(* _persist_scores: the job's row, then the take's, and the row as it is. *)
LockForScores(j) ==
    /\ job[j].pc = "scored"
    /\ IF job[j].status \in Over THEN Move(j, "end") /\ UNCHANGED rowLock
       ELSE /\ LockGeneration(job[j].gen, j)
            /\ job' = [job EXCEPT ![j].pc = "merge", ![j].seen = rows[job[j].gen]]
    /\ UNCHANGED <<childVars, verdict, rows, transcript, present, faults>>

(* _persist_scores: the merge and the transcript, committed together; a take   *)
(* deleted meanwhile fails the insert and the job.                             *)
PersistScores(j) ==
    LET g == job[j].gen IN
    /\ job[j].pc = "merge"
    /\ IF g \in present
         THEN /\ rows' = [rows EXCEPT ![g] = Saved(g, job[j].seen, job[j].got, [k \in job[j].got |-> job[j].of])]
              /\ transcript' = IF "text" \in job[j].got THEN [transcript EXCEPT ![g] = job[j].of] ELSE transcript
              /\ Move(j, "finish")
         ELSE EndAs(j, "failed") /\ UNCHANGED <<rows, transcript>>
    /\ Unlock(g)
    /\ UNCHANGED <<childVars, verdict, present, faults>>

(* _finish_scoring_job: recycle waits for the pipe lock and kills the child. *)
FinishScoring(j) ==
    /\ job[j].pc = "finish"
    /\ IF job[j].late THEN pipeLock = None /\ child' = NoChild ELSE UNCHANGED child
    /\ EndAs(j, "completed")
    /\ UNCHANGED <<pipeLock, tainted, rowVars, faults>>

(* tool_save_coherence_verdict -> save_coherence_verdict -> save_scores *)
LockForVerdict ==
    /\ verdict.pc = "idle" /\ verdict.gen \in present
    /\ LockGeneration(verdict.gen, Verdict)
    /\ verdict' = [verdict EXCEPT !.pc = "merge", !.seen = rows[verdict.gen]]
    /\ UNCHANGED <<job, childVars, rows, transcript, present, faults>>

SaveCoherenceVerdict ==
    LET g == verdict.gen IN
    /\ verdict.pc = "merge"
    /\ rows' = IF g \in present
                 THEN [rows EXCEPT ![g] = Saved(g, verdict.seen, {Verdict}, [k \in {Verdict} |-> g])]
                 ELSE rows
    /\ Unlock(g)
    /\ verdict' = [verdict EXCEPT !.pc = "end"]
    /\ UNCHANGED <<job, childVars, transcript, present, faults>>

-----------------------------------------------------------------------------
(* The rest of the application *)

(* api_cancel_job or a reaper: the row ends unless a transaction holds it. *)
EndFromOutside(j) ==
    /\ job[j].status \notin Over /\ ~RowLocked(j)
    /\ Fault
    /\ \E s \in {"cancelled", "failed"} : job' = [job EXCEPT ![j].status = s]
    /\ UNCHANGED <<childVars, rowVars>>

(* A take is deleted; its score rows go with it. *)
DeleteGeneration(g) ==
    /\ g \in present /\ rowLock[g] = None /\ Fault
    /\ present' = present \ {g}
    /\ rows' = [rows EXCEPT ![g] = <<>>] /\ transcript' = [transcript EXCEPT ![g] = None]
    /\ UNCHANGED <<job, childVars, verdict, rowLock>>

Next ==
    \/ ChildProgress \/ ChildAnswer \/ ChildDies
    \/ LockForVerdict \/ SaveCoherenceVerdict
    \/ \E g \in Gens : DeleteGeneration(g)
    \/ \E j \in Jobs :
        \/ Pick(j) \/ LoadScoringInput(j) \/ TakePipe(j) \/ SendRequest(j)
        \/ PollProgress(j) \/ PollScores(j) \/ PollError(j)
        \/ PollBroken(j) \/ PollTimeout(j)
        \/ LockForScores(j) \/ PersistScores(j) \/ FinishScoring(j) \/ EndFromOutside(j)

(* The same with a database that refuses two progress updates in a row. *)
NextWithRefusedProgress == Next \/ \E j \in Jobs : PollProgressRaises(j)

-----------------------------------------------------------------------------
(* A score and a transcript are stored under the take they were measured on,   *)
(* though all jobs share one child and one pipe (_score_with_retry).           *)
ScoresAreOfTheirTake ==
    \A g \in Gens : /\ transcript[g] \in {None, g}
                    /\ \A i \in DOMAIN rows[g] : \A k \in DOMAIN rows[g][i] : rows[g][i][k] = g

(* A take keeps one score row, and no writer ever drops a value another one    *)
(* stored: not a scorer that failed or timed out, nor two writers at once      *)
(* (save_scores).                                                              *)
NoScoreLost ==
    [][\A g \in Gens : (g \in present') =>
        /\ Len(rows'[g]) <= 1
        /\ rows[g] # <<>> => rows'[g] # <<>> /\ DOMAIN rows[g][1] \subseteq DOMAIN rows'[g][1]]_vars

(* A child in which an abandoned scorer still runs serves no request           *)
(* (_ensure_started).                                                          *)
TaintedChildServesNobody == child.abandoned => child.asked = <<>>

=============================================================================
