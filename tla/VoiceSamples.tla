---------------------------- MODULE VoiceSamples ----------------------------
(* A musician's voices and the recordings they are trained on (lora_api):      *)
(* voices are created and trained under one advisory lock, samples are added,  *)
(* changed and removed without it, each with a row and a file.                 *)
EXTENDS Naturals, FiniteSets, FiniteSetsExt

CONSTANTS
    Owners, Requests,
    Voices,        \* ids of voice rows; bounds how many are ever created
    Trainings,     \* ids of job rows; bounds how many trainings are ever asked for
    Samples,       \* ids of sample rows and files
    MaxVoices,     \* max_user_loras
    MaxSamples,    \* USER_LORA_MAX_SAMPLES
    MinSamples,    \* USER_LORA_MIN_SAMPLES_FOR_TRAINING
    MaxQueued,     \* max_queued_lora_training_jobs
    MaxFaults,     \* bounds process deaths and refused unlinks
    None

SampleConstants ==
    /\ IsFiniteSet(Voices) /\ IsFiniteSet(Trainings)
    /\ MaxVoices \in Nat /\ MaxQueued \in Nat /\ MaxFaults \in Nat
    /\ None \notin Owners /\ None \notin Requests /\ None \notin Voices /\ None \notin Samples
    /\ None \notin Trainings

VARIABLES
    voice,      \* voice[v]: a voice row; "training" stands for the three statuses of a run,
                \* "resting" for draft, ready and failed
    sample,     \* sample[s]: the voice a sample row belongs to, and whether caption and lyrics are filled
    file,       \* the sample files on disk
    training,   \* training[t]: a training job's row, and the voice it is for
    req,        \* req[q]: a request
    lock,       \* holder of _LORA_CAPACITY_LOCK_ID
    faults

vars == <<voice, sample, file, training, req, lock, faults>>

LoraActive == {"queued", "training"}
NoVoice == [owner |-> None, status |-> "resting", deleted |-> FALSE, slug |-> 0]
NoSample == [voice |-> None, told |-> FALSE]
Idle == [pc |-> "idle", voice |-> None, sample |-> None, owner |-> None, told |-> FALSE, job |-> None]

Init ==
    /\ voice = [v \in Voices |-> NoVoice]
    /\ sample = [s \in Samples |-> NoSample]
    /\ file = {}
    /\ training = [t \in Trainings |-> [status |-> "none", voice |-> None]]
    /\ req = [q \in Requests |-> Idle]
    /\ lock = None
    /\ faults = 0

VoicesOf(o) == {v \in Voices : voice[v].owner = o}
(* count_active_user_loras *)
LiveVoices(o) == {v \in VoicesOf(o) : ~voice[v].deleted}
(* count_user_lora_samples *)
SamplesOf(v) == {s \in Samples : sample[s].voice = v}
(* count_queued_lora_training_jobs; a training that was put back also waits. *)
Waiting == {t \in Trainings : training[t].status \in {"queued", "put back"}}

(* _first_free_slug: a deleted voice keeps its slug. All voices bear one name. *)
FreeSlug(o) == Min((1..Cardinality(Voices) + 1) \ {voice[v].slug : v \in VoicesOf(o)})

(* _reject_if_active_or_deleted *)
Modifiable(v) == ~voice[v].deleted /\ voice[v].status \notin LoraActive

(* The id of a row to be inserted. *)
NewId(S) == CHOOSE i \in S : TRUE

Become(q, r) == req' = [req EXCEPT ![q] = r]
Step(q, pc) == req' = [req EXCEPT ![q].pc = pc]
Release(q) == lock' = IF lock = q THEN None ELSE lock

-----------------------------------------------------------------------------
\* Mutant: the capacity check is not serialized with the insert.
NoLock(q) == UNCHANGED lock

(* lock_lora_capacity: the reads so far are ended, the lock is held to the end *)
(* of the transaction.                                                         *)
LockCapacity(q) == lock = None /\ lock' = q

AskCreate(q, o) ==
    /\ req[q].pc = "idle" /\ LockCapacity(q)
    /\ Become(q, [Idle EXCEPT !.pc = "create", !.owner = o])
    /\ UNCHANGED <<voice, sample, file, training, faults>>

(* The voice limit: 409. *)
RejectCreate(q) ==
    /\ req[q].pc = "create" /\ Cardinality(LiveVoices(req[q].owner)) >= MaxVoices
    /\ Become(q, Idle) /\ Release(q)
    /\ UNCHANGED <<voice, sample, file, training, faults>>

(* Counted, and a slug chosen: the request carries it (in voice) to the insert. *)
ChooseSlug(q) ==
    /\ req[q].pc = "create" /\ Cardinality(LiveVoices(req[q].owner)) < MaxVoices
    /\ Become(q, [req[q] EXCEPT !.pc = "insert", !.voice = FreeSlug(req[q].owner)])
    /\ UNCHANGED <<voice, sample, file, training, lock, faults>>

SlugTaken(q) == \E v \in VoicesOf(req[q].owner) : voice[v].slug = req[q].voice

(* create_user_lora and the commit; the unique index refuses a taken slug. *)
InsertVoice(q) ==
    /\ req[q].pc = "insert"
    /\ \/ SlugTaken(q) /\ UNCHANGED voice
       \/ /\ ~SlugTaken(q) /\ VoicesOf(None) # {}
          /\ voice' = [voice EXCEPT ![NewId(VoicesOf(None))] =
                         [NoVoice EXCEPT !.owner = req[q].owner, !.slug = req[q].voice]]
    /\ Become(q, Idle) /\ Release(q)
    /\ UNCHANGED <<sample, file, training, faults>>

-----------------------------------------------------------------------------
(* api_delete_lora: the status is read, *)
AskDelete(q, v) ==
    /\ req[q].pc = "idle" /\ voice[v].owner # None /\ Modifiable(v)
    /\ Become(q, [Idle EXCEPT !.pc = "delete", !.voice = v])
    /\ UNCHANGED <<voice, sample, file, training, lock, faults>>

(* ... and the voice is marked deleted, whatever became of it. *)
SoftDelete(q) ==
    /\ req[q].pc = "delete"
    /\ voice' = [voice EXCEPT ![req[q].voice].deleted = TRUE]
    /\ Become(q, Idle)
    /\ UNCHANGED <<sample, file, training, lock, faults>>

-----------------------------------------------------------------------------
InFlight(pcs) == {req[q].sample : q \in {p \in Requests : req[p].pc \in pcs}}
(* A fresh id: uuids are not used twice. *)
FreshSamples == SamplesOf(None) \ (file \cup {req[q].sample : q \in Requests})

\* Mutant: the sample's row is committed before its file is written.
RowFirst(q, told) ==
    /\ FreshSamples # {} /\ \E v \in Voices, s \in {NewId(FreshSamples)} :
         /\ voice[v].owner # None /\ Modifiable(v)
         /\ Cardinality(SamplesOf(v)) < MaxSamples
         /\ Become(q, [Idle EXCEPT !.pc = "write", !.voice = v, !.sample = s, !.told = told])
         /\ sample' = [sample EXCEPT ![s] = [voice |-> v, told |-> told]]
    /\ UNCHANGED <<voice, file, training, lock, faults>>

(* A voice in no training takes another sample: the row is flushed, and its    *)
(* file gets the row's id for a name (_sample_relative_path).                  *)
AddSample(q, told) ==
    /\ FreshSamples # {} /\ \E v \in Voices, s \in {NewId(FreshSamples)} :
         /\ voice[v].owner # None /\ Modifiable(v)
         /\ Cardinality(SamplesOf(v)) < MaxSamples
         /\ Become(q, [Idle EXCEPT !.pc = "write", !.voice = v, !.sample = s, !.told = told])
    /\ UNCHANGED <<voice, sample, file, training, lock, faults>>

(* api_add_sample: an upload has caption and lyrics. *)
Upload(q) == req[q].pc = "idle" /\ AddSample(q, TRUE)

(* api_add_sample_from_generation: a take gives its version's prompt and       *)
(* lyrics, which may be empty.                                                 *)
FromGeneration(q) == req[q].pc = "idle" /\ \E told \in BOOLEAN : AddSample(q, told)

WriteFile(q) ==
    /\ req[q].pc = "write"
    /\ file' = file \cup {req[q].sample}
    /\ Step(q, "commit")
    /\ UNCHANGED <<voice, sample, training, lock, faults>>

CommitSample(q) ==
    /\ req[q].pc = "commit"
    /\ sample' = [sample EXCEPT ![req[q].sample] = [voice |-> req[q].voice, told |-> req[q].told]]
    /\ Become(q, Idle)
    /\ UNCHANGED <<voice, file, training, lock, faults>>

(* The disk or the database refuses: rolled back, what was written removed. *)
AddFails(q) ==
    /\ req[q].pc \in {"write", "commit"}
    /\ file' = file \ {req[q].sample}
    /\ Become(q, Idle)
    /\ UNCHANGED <<voice, sample, training, lock, faults>>

(* api_patch_sample, api_delete_sample: the voice is checked, *)
AskSample(q, s, pc) ==
    /\ req[q].pc = "idle" /\ sample[s].voice # None /\ Modifiable(sample[s].voice)
    /\ Become(q, [Idle EXCEPT !.pc = pc, !.sample = s])
    /\ UNCHANGED <<voice, sample, file, training, lock, faults>>

(* ... a row still there is changed, *)
PatchSample(q) ==
    /\ req[q].pc = "patch"
    /\ sample' = [sample EXCEPT ![req[q].sample].told = sample[req[q].sample].voice # None]
    /\ Become(q, Idle)
    /\ UNCHANGED <<voice, file, training, lock, faults>>

(* ... or deleted, and the deletion committed before the file is removed. *)
DropSample(q) ==
    /\ req[q].pc = "drop"
    /\ sample' = [sample EXCEPT ![req[q].sample] = NoSample]
    /\ IF sample[req[q].sample].voice = None THEN Become(q, Idle) ELSE Step(q, "unlink")
    /\ UNCHANGED <<voice, file, training, lock, faults>>

(* A file that cannot be removed is left behind with a warning. *)
UnlinkFile(q) ==
    /\ req[q].pc = "unlink" /\ Become(q, Idle)
    /\ \/ file' = file \ {req[q].sample} /\ UNCHANGED faults
       \/ faults < MaxFaults /\ faults' = faults + 1 /\ UNCHANGED file
    /\ UNCHANGED <<voice, sample, training, lock>>

-----------------------------------------------------------------------------
(* api_train_lora: the voice was found, then the lock is taken, *)
AskTrain(q, v) ==
    /\ req[q].pc = "idle" /\ voice[v].owner # None /\ ~voice[v].deleted
    /\ LockCapacity(q)
    /\ Become(q, [Idle EXCEPT !.pc = "train", !.voice = v])
    /\ UNCHANGED <<voice, sample, file, training, faults>>

(* ... the voice is read again, *)
Trainable(v) ==
    /\ Modifiable(v)
    /\ Cardinality(SamplesOf(v)) >= MinSamples
    /\ \A s \in SamplesOf(v) : sample[s].told
    /\ Cardinality(Waiting) < MaxQueued

RejectTrain(q) ==
    /\ req[q].pc = "train" /\ ~Trainable(req[q].voice)
    /\ Become(q, Idle) /\ Release(q)
    /\ UNCHANGED <<voice, sample, file, training, faults>>

AcceptTrain(q) ==
    /\ req[q].pc = "train" /\ Trainable(req[q].voice)
    /\ Step(q, "queue")
    /\ UNCHANGED <<voice, sample, file, training, lock, faults>>

(* ... and the job and the voice's new status are committed together. *)
QueueTraining(q) ==
    /\ req[q].pc = "queue" /\ \E t \in Trainings : training[t].status = "none"
    /\ LET t == NewId({u \in Trainings : training[u].status = "none"}) IN
         /\ training' = [training EXCEPT ![t] = [status |-> "queued", voice |-> req[q].voice]]
         /\ voice' = [voice EXCEPT ![req[q].voice].status = "queued"]
         /\ req' = [req EXCEPT ![q].pc = "enqueue", ![q].job = t]
    /\ Release(q)
    /\ UNCHANGED <<sample, file, faults>>

(* The task is enqueued, or job and voice fail (_fail_training_job). *)
Enqueue(q) ==
    /\ req[q].pc = "enqueue" /\ Become(q, Idle)
    /\ \/ UNCHANGED <<voice, training>>
       \/ /\ voice' = [voice EXCEPT ![req[q].voice].status = "resting"]
          /\ training' = [training EXCEPT ![req[q].job].status = "over"]
    /\ UNCHANGED <<sample, file, lock, faults>>

(* The run (LoraTraining) in any order of its writes: the job starts, is put   *)
(* back or ends; a run may write its voice's status even after its job was     *)
(* given up.                                                                   *)
Run(t) ==
    /\ training[t].status \notin {"none", "over"}
    /\ training' = [training EXCEPT ![t].status = IF @ = "running" THEN "put back" ELSE "running"]
    /\ UNCHANGED <<voice, sample, file, req, lock, faults>>
End(t) ==
    /\ training[t].status \notin {"none", "over"}
    /\ training' = [training EXCEPT ![t].status = "over"]
    /\ UNCHANGED <<voice, sample, file, req, lock, faults>>
RunVoice(v) ==
    /\ \E t \in Trainings : training[t].voice = v
    /\ \E status \in {"training", "resting"} :
         voice' = [voice EXCEPT ![v].status = status]
    /\ UNCHANGED <<sample, file, training, req, lock, faults>>

(* The web process dies: its transactions are rolled back and its lock freed,  *)
(* a file already written stays.                                               *)
Crash ==
    /\ faults < MaxFaults /\ faults' = faults + 1
    /\ req' = [q \in Requests |-> Idle] /\ lock' = None
    /\ UNCHANGED <<voice, sample, file, training>>

Next ==
    \/ Crash
    \/ \E t \in Trainings : Run(t) \/ End(t)
    \/ \E v \in Voices : RunVoice(v)
    \/ \E q \in Requests :
        \/ \E o \in Owners : AskCreate(q, o)
        \/ RejectCreate(q) \/ ChooseSlug(q) \/ InsertVoice(q)
        \/ \E v \in Voices : AskDelete(q, v) \/ AskTrain(q, v)
        \/ SoftDelete(q)
        \/ Upload(q) \/ FromGeneration(q) \/ WriteFile(q) \/ CommitSample(q) \/ AddFails(q)
        \/ \E s \in Samples, pc \in {"patch", "drop"} : AskSample(q, s, pc)
        \/ PatchSample(q) \/ DropSample(q) \/ UnlinkFile(q)
        \/ RejectTrain(q) \/ AcceptTrain(q) \/ QueueTraining(q) \/ Enqueue(q)

Spec == Init /\ [][Next]_vars

-----------------------------------------------------------------------------
(* However requests run at once, a musician has no more voices than allowed    *)
(* and no more trainings wait for their first start than the queue takes; the  *)
(* slug of a voice being created is still free, and no other training was      *)
(* queued for a voice whose training is being queued (lock_lora_capacity).     *)
CapacityHolds ==
    /\ \A o \in Owners : Cardinality(LiveVoices(o)) <= MaxVoices
    /\ Cardinality({t \in Trainings : training[t].status = "queued"}) <= MaxQueued
    /\ \A q \in Requests :
         /\ req[q].pc = "insert" => ~SlugTaken(q)
         /\ req[q].pc = "queue" => voice[req[q].voice].status # "queued"

(* A sample's row never lacks its file, so a training finds what the check     *)
(* counted; and no file outlives its row unless its removal was refused or the *)
(* process died (api_add_sample's rollback, api_delete_sample's late unlink).  *)
SamplesAreWhole ==
    /\ \A s \in Samples : sample[s].voice # None => s \in file
    /\ faults = 0 => \A s \in file \ InFlight({"commit", "unlink"}) : sample[s].voice # None

=============================================================================
