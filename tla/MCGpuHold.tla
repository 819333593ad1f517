----------------------------- MODULE MCGpuHold -----------------------------
(* The hold of one GPU worker (GpuHold, extended here) and the choice between  *)
(* workers, checked side by side: a behaviour works on one of them.            *)
EXTENDS GpuHold

CONSTANTS None

VARIABLES part, registered, proc, beat, key, hold, depth, pick, steady, ends

C == INSTANCE WorkerChoice WITH Workers <- 1..2, Picks <- Gens, MaxEnds <- 1

choiceVars == <<registered, proc, beat, key, hold, depth, pick, steady, ends>>
allVars == <<part, vars, choiceVars>>

AllInit == part \in {"hold", "choice"} /\ Init /\ C!Init

AtHold(A) == part = "hold" /\ A /\ UNCHANGED <<part, choiceVars>>
AtChoice(A) == part = "choice" /\ A /\ UNCHANGED <<part, vars>>

(* The fairness of GpuHold. *)
AllSpec ==
    /\ AllInit /\ [][AtHold(Next) \/ AtChoice(C!Next)]_allVars
    /\ WF_allVars(AtHold(WorkerStart))
    /\ \A l \in Loras :
        /\ WF_allVars(AtHold(LoadTrainingModel(l))) /\ WF_allVars(AtHold(SubmitTraining(l)))
        /\ WF_allVars(AtHold(TrainingAccepted(l))) /\ WF_allVars(AtHold(LoraCallFails(l)))
        /\ WF_allVars(AtHold(ProbeHandover(l))) /\ WF_allVars(AtHold(ReleaseLoraHold(l)))
        /\ WF_allVars(AtHold(AcquireForTraining(l))) /\ WF_allVars(AtHold(RenewForTraining(l)))
        /\ WF_allVars(AtHold(ClaimHandover(l))) /\ WF_allVars(AtHold(ReleaseAndStop(l)))
        /\ WF_allVars(AtHold(ReleaseTrainingHold(l))) /\ WF_allVars(AtHold(ReleaseHandover(l)))
        /\ WF_allVars(AtHold(~Renewed(l) /\ ExpireHold(l)))

-----------------------------------------------------------------------------
(* A hold ends: it is freed in the end, and a held training stops its child    *)
(* (GpuHold). A job is refused only if no worker could be had, and none that   *)
(* shut down is offered (WorkerChoice).                                        *)
WorkersComeFree ==
    /\ HoldIsFreed /\ HeldTrainingStopsItsChild
    /\ [](C!RefusalIsTrue /\ C!NoGhostWorker)
=============================================================================
