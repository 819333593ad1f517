------------------------------ MODULE MCModels ------------------------------
(* The cache of a worker's models (ModelCache, extended here) and the jobs    *)
(* that bring the models to it, checked side by side: a behaviour works on one *)
(* of them.  Of the three modes two small ones, or a small and the middle one, *)
(* fit together, as turbo, sft and an xl mode do on the deployed GPU.          *)
EXTENDS ModelCache

CONSTANTS small, other, large, Downloads, Loads

VARIABLES part, row, run, attempt, key, task, older, onDisk, crashes

J == INSTANCE ModelJobs WITH MaxAttempts <- 2, MaxCrashes <- 1

(* What the proofs assume of the constants holds here. *)
ASSUME PartConstants == J!DownloadConstants

MCSizes == [m \in Modes |-> CASE m = small -> 1 [] m = other -> 2 [] OTHER -> 3]

jobVars == <<row, run, attempt, key, task, older, onDisk, crashes>>
allVars == <<part, vars, jobVars>>

(* What other programs take of the GPU is chosen only for the cache. *)
AllInit ==
    part \in {"cache", "downloads", "loads"} /\ Init /\ J!Init /\ (part # "cache" => foreign = 0)

Cache(A) == part = "cache" /\ A /\ UNCHANGED <<part, jobVars>>
Job(A) == part # "cache" /\ A /\ UNCHANGED <<part, vars>>

(* Loads and downloads share nothing but the process that runs them, so jobs   *)
(* of one kind are requested.                                                  *)
OneKind == \A j \in (IF part = "loads" THEN Downloads ELSE Loads) : row[j] = "none"

AllNext == Cache(Next) \/ (Job(J!Next) /\ OneKind')

(* The fairness of both modules. *)
AllSpec ==
    /\ AllInit /\ [][AllNext]_allVars
    /\ WF_allVars(Cache(LoadGoesOn)) /\ WF_allVars(Cache(ChildSettles))
    /\ WF_allVars(Cache(EvictAll)) /\ WF_allVars(Cache(\E b \in BOOLEAN : Start(b)))
    /\ \A j \in Downloads \cup Loads : WF_allVars(Job(J!Step(j))) /\ WF_allVars(Job(J!Reap(j)))
    /\ WF_allVars(Job(J!KeyExpires))

-----------------------------------------------------------------------------
(* An evicted model is still the right victim, a worker that failed its models *)
(* retries before it offers itself (ModelCache), a run that holds the download *)
(* slot is the one its key names, and a completed download is on disk          *)
(* (ModelJobs).                                                                *)
PlansStayTrue ==
    VictimIsStillRight /\ [](RetriedBeforeOffered /\ J!HolderOwnsKey /\ J!CompletedIsOnDisk)
(* Every queued model job ends and a download does not lock its mode for ever  *)
(* (ModelJobs); no load keeps the cache's lock (ModelCache).                   *)
EveryModelJobEnds == J!EveryModelJobEnds /\ J!SlotIsFreed /\ LockIsFreed
=============================================================================
