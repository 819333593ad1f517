---- MODULE MCJobs ----
(* Five things that must come to an end, checked side by side (a behaviour     *)
(* works on one of them): the delivery of a take (TakeDelivery, extended       *)
(* here), a voice in training, a turn of the co-writer, a queued job whose     *)
(* worker may be away, a take without scores.                                  *)
EXTENDS TakeDelivery

CONSTANTS Jobs, Reconcilers, Original, None, MaxDeaths, Texts, Songs,
          Signals, Grace, QueuedAge, FullQueue, MaxStops

VARIABLES part,
          job, delivered, run, task, prevMode, lora, final, previous, tmp, dataset, record, rec, saw,
          rowLock, proc, cancels, deaths, ioErrors,
          conv, made, said, song, budget, chat, turn, loop, serving, faults,
          signal, down, seen, server, swept, waiting, stops,
          born, scored, queued, scorerUp, tries, idle, tracked, batch, outages, failures

L == INSTANCE LoraTraining WITH MaxCancels <- 0, MaxCrashes <- MaxDeaths, MaxDiskErrors <- 0,
                                crashes <- deaths, diskErrors <- ioErrors
C == INSTANCE Conversation WITH NTurns <- 2, Budgets <- {1}, MaxConversations <- 1, MaxFaults <- 1,
                                written <- said, job <- chat, up <- serving
V == INSTANCE StaleJobs WITH up <- signal, job <- waiting
B == INSTANCE ScoreBackfill WITH Takes <- 1..3, Poison <- {1}, Pool <- 2, Batch <- 1, MaxAttempts <- 2,
                                 TtlTicks <- 3, MaxOutages <- 1, MaxFailures <- 1, up <- scorerUp

(* What the proofs assume of the constants holds here. *)
ASSUME PartConstants ==
    /\ None \notin Jobs \cup {Original} \cup Reconcilers /\ Original \notin Jobs
    /\ V!StaleConstants

trainingVars == <<job, delivered, run, task, prevMode, lora, final, previous, tmp, dataset, record, rec,
                  saw, rowLock, proc, cancels, deaths, ioErrors>>
turnVars == <<conv, made, said, song, budget, chat, turn, loop, serving, faults>>
staleVars == <<signal, down, seen, server, swept, waiting, stops>>
backfillVars == <<born, scored, queued, scorerUp, tries, idle, tracked, batch, outages, failures>>
allVars == <<part, vars, trainingVars, turnVars, staleVars, backfillVars>>

(* A part's choices of an initial state are made only where it runs. *)
AllInit ==
    /\ part \in {"delivery", "training", "turns", "stale", "backfill"}
    /\ Init /\ L!Init /\ C!Init /\ V!Init /\ B!Init
    /\ part # "training" => final = Original
    /\ part # "stale" => (\A s \in DOMAIN signal : signal[s]) /\ waiting.task

Delivery(A) == part = "delivery" /\ A /\ UNCHANGED <<part, trainingVars, turnVars, staleVars, backfillVars>>
Training(A) == part = "training" /\ A /\ UNCHANGED <<part, vars, turnVars, staleVars, backfillVars>>
Turns(A) == part = "turns" /\ A /\ UNCHANGED <<part, vars, trainingVars, staleVars, backfillVars>>
Stale(A) == part = "stale" /\ A /\ UNCHANGED <<part, vars, trainingVars, turnVars, backfillVars>>
Backfill(A) == part = "backfill" /\ A /\ UNCHANGED <<part, vars, trainingVars, turnVars, staleVars>>

AllNext ==
    \/ Delivery(Next) \/ Training(L!Next) \/ Turns(C!Next) \/ Stale(V!Next) \/ Backfill(B!Next)

(* The fairness of the modules. *)
AllSpec ==
    /\ AllInit /\ [][AllNext]_allVars
    /\ WF_allVars(Delivery(Restart))
    /\ \A t \in Takes : /\ WF_allVars(Delivery(RunnerStep(t))) /\ WF_allVars(Delivery(ClientStep(t)))
                        /\ WF_allVars(Delivery(Expire(t))) /\ WF_allVars(Delivery(Sweep(t)))
    /\ WF_allVars(Training(L!Restart))
    /\ \A j \in Jobs : /\ WF_allVars(Training(L!EnqueueJob(j) \/ L!EnqueueRefused(j)))
                        /\ WF_allVars(Training(L!RunStep(j) \/ L!RunFails(j)))
                        /\ SF_allVars(Training(L!Reap(j)))
    /\ \A r \in Reconcilers : SF_allVars(Training(L!ReconcileStep(r)))
    /\ WF_allVars(Turns(C!FairStep))
    /\ WF_allVars(Stale(V!Reap)) /\ WF_allVars(Stale(V!Tick)) /\ WF_allVars(Stale(V!ServerStarts))
    /\ WF_allVars(Backfill(B!Born)) /\ WF_allVars(Backfill(B!Tick)) /\ WF_allVars(Backfill(B!Attempt))
    /\ WF_allVars(Backfill(B!WorkerUp)) /\ \A t \in 1..3 : WF_allVars(Backfill(B!Score(t)))

-----------------------------------------------------------------------------
(* Every dispatch of a take ends, once, with the whole take or with nothing    *)
(* (TakePromise), its stream tells nothing after the end, and the file of a    *)
(* take that was fetched or given up does not stay with the worker             *)
(* (TakeDelivery).                                                             *)
DeliveryEnds == EveryDispatchEnds /\ ResultIsFreed /\ []TerminalEventIsLast /\ KeepsPromise
(* The voice that stood before a training, or the new one, survives, and a     *)
(* voice said to be ready can be used (LoraTraining).                          *)
VoiceIsWhole == L!VoiceSurvives /\ []L!ReadyIsUsable
(* No voice stays in training for ever (LoraTraining). *)
EveryTrainingEnds == L!EveryTrainingEnds
(* Every turn's job ends (Conversation). *)
EveryTurnEnds == C!EveryTurnEnds
(* A worker that only restarts costs no queued job, and no job stays queued    *)
(* for ever (StaleJobs).                                                       *)
VerdictsAreRight == V!RestartIsSpared /\ ((part = "stale") => V!NobodyQueuesForever)
(* Every take that can be scored is (ScoreBackfill). *)
EveryTakeIsScored == (part = "backfill") => B!EveryTakeIsScored
====
