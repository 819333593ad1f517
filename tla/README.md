# Songmaker: a verification project

TLA+ models of the parts of Songmaker in which several processes, requests or
threads share a GPU, a row, a directory, a stream or a secret, with the TLC runs
that check them on small instances and TLAPS proofs for every instance. Paths are
relative to the repository (`src/` is its root here); every definition's source
lines are in `PROJECT.json`, "map".

## 1. The system

A web process (FastAPI) writes rows to PostgreSQL and enqueues arq jobs in
Redis. A *music worker* (arq, `music_max_jobs` slots) runs generation, LoRA
training and model jobs. An *ACE-Step worker* (FastAPI, one asyncio process per
GPU) has the models as child processes, renders takes and trains LoRA adapters
("voices"). A scoring worker rates takes through one child process. The web
process itself runs loops: reaper, reconciliation of voices, score backfill,
covers, retention. All share the audio directory. Scripts on the host mirror the
agent CLIs' logins and the stack's secrets.

| Component | State | Operations | What makes it correct |
|---|---|---|---|
| GPU hold and admission (`acestep_worker/heartbeat.py`, `wrapper.py`, `acestep_state.py`) | Redis: hold token, queue depth. Worker: admission lock, running takes, handover tokens, use counts | reserve, renew, probe, release, hand over; admit and end a take series; start and clean up a training; restart | a hold and a take exclude each other; a training keeps its hold; every hold is freed |
| Worker choice and heartbeat (`scheduler.py`, `heartbeat.py`, `registry_client.py`) | registrations, state keys with a TTL, queue depths | register, publish, expire, shut down; list, rank, admit | a refusal is true; no worker that is gone is offered |
| Generation job (`jobs/generation.py`, `db/queries/jobs.py`, `worker_base.py`, `lifecycle.py`) | row: status, progress, error, heartbeat, takes; arq deliveries; recovery lock | create, enqueue, run, report, save, finish, fail, cancel, reap, recover | outcomes are backed by takes; nothing follows the end; every job ends |
| LoRA training (`jobs/lora_training.py`, `lora_api.py`, `db/queries/loras.py`) | voice row, job row, four directories, completion record, samples | create, add samples, train, defer, submit, adopt by two renames, fail, reconcile | an adapter is never lost; READY means usable; every training ends; limits hold |
| Take delivery (`task_store.py`, `task_results.py`, `scheduler.py`, `thread_handoff.py`) | task record, event queue, result file, take file | submit, report, complete, subscribe, reconnect, fetch, free, sweep | no terminal event is missed; a take is whole or leaves nothing |
| Model cache and model jobs (`model_cache.py`, `jobs/model_lifecycle.py`, `downloads.py`) | loaded modes in LRU order, pins, use counts; download slot | load, evict, pin, acquire, release, download | never evicts a mode in use; stays within its budget; one download at a time |
| Covers (`covers.py`, `cover_runner.py`, `cover_suggestions.py`) | cover directory and key, suggestion rows and files, jobs | write, remove, request, claim, draw, publish, select, discard, cancel | a cover survives crashes; a suggestion is a picture on disk |
| Library (`db/queries/songs.py`, `versions.py`, `generations.py`, `albums.py`, `playlists.py`, `library.py`) | songs, versions, takes, marks, albums, trash, playlists, cursors | save, delete, mark, list, share, trash, restore, purge, reorder, page | a take keeps its words; a page shows what it serves; nothing marked is deleted |
| References (`reference_audio.py`, `reference_api.py`) | rows, files, links, stamps, locks | upload, link, detach, keep, delete, stamp, reconcile | rows have files; stamps are true; no lock cycle |
| Streams and events (`resource_event_api.py`, `queue_streams.py`, `jobs_api.py`) | event ledger, built streams, leases | append, replay, resync; build, serve, evict; open, poll, close | no event is missed; what is served is offered; limits hold |
| Co-writer (`conversation_api.py`, `cowriter/history.py`) | conversations, messages, summary, turn jobs | send, answer, compact, cancel, restart | each message answered and told once; every turn ends |
| Scoring (`jobs/scoring.py`, `scoring/subprocess_runner.py`, `lifecycle.py`) | child, pipe, rows, attempt counters | ask, poll, time out, recycle, store, backfill | scores are of their take; every take is scored |
| Liveness and limits (`worker_liveness.py`, `api_helpers.py`) | last-seen keys, job rows, limits | record, judge, reap; admit | a restart costs no job; limits hold |
| Sessions, host scripts (`auth_stores.py`, `scripts/`) | session rows; logins, secrets | sign in, renew, log out; mirror, copy, verify | a deleted session stays deleted; no renewal secret is mirrored; no secret is overwritten |

How they interact: the web process creates a job row under the limits
(JobLimits) and enqueues it (GenerationJob, LoraTraining, ModelJobs). A
generation job chooses a worker (WorkerChoice) and admits itself there (GpuHold),
then dispatches each take (TakeDelivery) on a loaded model (ModelCache). A LoRA
job reserves the hold, submits the training (GpuHold) and adopts the result
(LoraTraining). A saved take belongs to a version (SongTakes), is marked and shared
(Curation), scored (Scoring, ScoreBackfill) and announced (ResourceEvents). The
web process's loop judges workers (StaleJobs), reaps stale jobs and reconciles
crashed voices.

What is hard: two workers and a web process write one row; HTTP answers are
lost; holds lapse while their owner lives; a process dies between two renames;
arq delivers a job twice; a cancel arrives at any `await`; threads finish after
their coroutine was cancelled; a lock is waited for with stale values in hand.
`PROJECT.json`, "hazards", lists 40 places, each with the properties that would
notice. Hazards we know of and no run states a property about:
a killed music worker leaves the queue depth raised until the ACE-Step worker
restarts (`jobs/generation.py:962`); nothing bounds a training on the worker
(`wrapper.py:569`); the recovery lock expires after 30 s and is deleted without
looking at its owner (`worker_base.py:104`); all reconnects together may outlast
the 60 s a finished task is kept (`task_store.py:28`); a partly written result
stays until the next start (`task_results.py:20`).

## 2. Modules

An action is a Lua script, a database transaction under its locks, one
file-system operation that can fail or be the last, or a stretch of asyncio code
without `await`. A lost answer, a refused write or a kill is a disjunct or an
action of its own, bounded by a named constant.

**GpuHold**: `gpuHold` and `queueDepth` are the two Redis keys; `admissionLock`,
`generationTasks`, `handoverTokens` the fields of `WorkerDeps`; `child`, `inUse` the
model cache of one mode. `gen`, `lora`, `task`, `train` say where a job, a LoRA job, a
`/generate` and a `/train_lora` handler are. `WorkerCrash` forgets the process and
keeps Redis; `WorkerStart` is `clear_orphaned_queue`. A hold's TTL is `ExpireHold`,
which may also strike a renewed hold (a stalled loop). The queue depth may fall
below zero after a restart, as in the code.

**WorkerChoice**: registration, the heartbeat loop with its publication in flight,
expiry, shutdown and death of several workers, and a job that reads states, depths
and holds one by one, ranks and admits itself. What a heartbeat says is chosen
freely. After the choice an admission may still be refused ("became held") although
another worker is free; the job is then deferred and comes back. The TTL of 15 s
tolerates one failed publication of the 5 s interval.

**GenerationJob**: one row and its deliveries in `Slots`. `UpdateJobStatus` is the
guarded write (a terminal row refuses it); any `_update_job` may be lost.
Post-processing runs in a thread that survives its run's cancellation. Reapers read
a verdict, then write conditionally; recovery of a starting worker reads and writes
in two steps. Progress is in twentieths of a take (`_TAKE_SHARES`).

**LoraTraining**: one voice; `Jobs` are its trainings. `final`, `previous`, `tmp`,
`dataset`, `record` are what is on disk, an adapter being the job that trained it.
Each rename, removal and commit is a step, so a crash falls between any two.

**VoiceSamples**: requests that create, delete and train voices and add, change and
remove samples, each with its advisory lock, its row and its file in the code's
order, and a process that may die between them.

**TakeDelivery**: `state`, `progress`, `recorded`, `expired` are the task record;
`runner`, `reported`, `written` the rendering and its scheduled progress updates;
`client`, `queue`, `reconnects` the dispatch and its stream; `file` the worker's
result, `local`/`got` the music worker's copy. TakePromise is what the awaiting job may
rely on, whatever happens to the task: a dispatch ends once, with the whole take or with
nothing. `KeepsPromise` is the refinement (`INSTANCE TakePromise WITH`); `Outcome` and
`Copy` map the dispatch and its file to it.

**ModelSlots / ModelCache**: ModelSlots is the promise: a set of loaded modes, within
the budget apart from what other programs take, from which a mode in use never
leaves. ModelCache is the code: LRU order, pins, use counts, a plan made once and
carried out over several awaits under the lock, failing loaders and unloaders, a
failed language model that makes the worker leave and retry. `ImplementsModelSlots` is the
refinement (`INSTANCE ModelSlots WITH`).

**ModelJobs**: load and download jobs, the download slot in Redis with expiry,
attempts, the worker's task, an older task of the same mode, redelivery, reaping.

**Covers**: one album's cover directory (staging, final, old), its key, suggestion
rows and files, and suggestion jobs with the picture task a cancel must reach.

**SongTakes, Curation, AlbumTrash, PlaylistOrder, LibrarySearch**: versions and the
song lock with values loaded before it; marks, playlists, public pages and the
retention run that lists and re-checks; trash timestamps, purge and song
addresses reserved before they are written; positions; keyset paging while rows
change (a page is the next hits after the cursor, so nothing is sorted). In Curation `live` stands for a song and its album both out of the trash.

**References**: rows, files, links, stamps and the row, key-share and owner locks that
uploads, saves, deletes and the daily runs take.

**ResourceEvents, QueueStreams, PoolQueue, JobStreams**: the ledger with commit order,
retention, replay and gaps (the browser's `resourceSync` is external); building,
reusing, serving and evicting streams (of a file's age only which of two is `newer`
matters to the eviction); the pool's queue as a function of library, request and the
order of a shuffle, checked for every small library against what it must contain;
leases and connection deadlines.

**Conversation, Sessions**: turns with their job, messages, summary and boundary;
session rows loaded by a request and updated later (the webauth library is external).
**Selection** is what both Conversation and PoolQueue mean by filtering a sequence: the
elements at given places, in order, without the recursion of `SelectSeq`.

**Scoring, ScoreBackfill, JobLimits, StaleJobs**: jobs and a coherence verdict around
one child and its pipe; the backfill loop with attempt counters and their TTL;
admission under limits; signals, grace periods and the reaper that uses them.

**CredentialMirror, StackSecrets**: two runs of the mirror over documents written in
place cell by cell under `flock`; copying secrets out of `.env` by hard link,
verification, and the Grafana password.

**MC modules** (`MCGpuHold`, `MCGenerationJob`, `MCJobs`, `MCJobRaces`, `MCModels`,
`MCFiles`, `MCLibrary`, `MCService`) give bounds and symmetry, and some put several
modules side by side: `part` says which one a behaviour works on. The parts share no
state in the program, so nothing is lost, and each keeps the fairness of its own
module. MCFiles has a specification for each of its parts, Covers and References
(`MCCovers.cfg`, `MCReferences.cfg`). A run's property may join the named properties of
one part; their comments say which.

**Proof modules**: `GpuHoldProofs` and `GenerationJobProofs` extend the module they are
about; `JobsProofs`, `JobRacesProofs`, `ModelCacheProofs`, `FilesProofs`, `LibraryProofs`
and `ServiceProofs` extend the MC module that holds their parts.

## 3. Runs

A definition whose comment begins with "Mutant" is a wrong body of a definition
near it: `PROJECT.json`, "mutants", pairs each property with one that violates it
(the others were used while a module was checked alone). No specification uses them.

| Run | Instance | Shows |
|---|---|---|
| gpu_hold | 1 series of 2 takes, 1 LoRA job, a crash of either process; 2 workers, 1 choosing job, 1 end of a worker | a hold excludes takes although a restart cleared the depth (`HoldExcludesTakes`), a training keeps it, takes keep their child, holds are freed and refusals are true (`WorkersComeFree`) |
| generation_job | 1 take, 2 slots, 1 kill | outcomes are backed; a heartbeat beats the reaper; no take after the end |
| generation_job_liveness | 2 takes, 1 slot, 1 kill, 1 restart, fair | every job ends; progress, count and failures are told truly on the way |
| jobs | delivery: 1 take, 3 reports, 2 chunks, 2 reconnects, 3 drops, 1 kill, 2 disk errors; training: 1 job, 2 reconcilers, 2 kills; turns: 2; verdicts: 2 signals; backfill: 3 takes, one unscorable, pool 2 | what is awaited comes: delivery, training, turn, verdict, scores |
| job_races | 2 trainings, 1 cancel, 1 kill, 1 disk error; 2 scorings and a verdict; 2 users and 2 requests; 2 voices; 2 samples | leftovers are never adopted, scores are of their take and none is lost, limits hold, samples have files |
| models | 3 modes of sizes 1-3, budget 4, 2 users, 2 faults; 2 downloads, 1 load, 1 crash | the cache implements ModelSlots, plans stay true, jobs end |
| covers | 2 jobs, daily limit 1, 1 crash, fair | covers and suggestions stand; jobs end |
| library | 2 versions, 2 takes, 2 savers; 2 albums, 2 songs; 3 entries; 3 hits, 2 edits, pages of 1; 3 turns | see the six properties |
| references | 2 recordings, 2 holders, 2 requests, quota 1, 1 fault, fair | files, stamps and quota are true; everything settles |
| service | 3 events, 2 drops; 3 snapshots, 2 builders, quota 2, 1 edit; every library of 3 takes, 2 of them scanned or played; 2 clients; 3 session rows; 2 logins, 2 mirror runs; 2 secret runs | see the seven properties |
| scoring_refused | 2 scorings, a refused progress update | **violation**: finding 1 |
| training_cancel | 1 training, 1 cancel | **violation**: finding 2 |

No run checks for deadlock: jobs and edits are finite and every system here may
stop when they are done; that nothing stops early is what the liveness properties
state.

**Bounds.** Two takes are needed for the gap between takes, one kill of each
process for every recovery path, a second for a crash during recovery (LoRA). Two
slots are the default of `music_max_jobs` and suffice for a double delivery. One
LoRA job is enough for the hold of gpu_hold (a second one is beyond five minutes
with crashes; the proofs cover any number). Three reports, two reconnects and three
drops exceed the reconnect budget. Two savers, writers, builders, requests or users
are what a race needs; a third adds only waiting. Three modes with a budget of four
make every pair fit or not. A pool larger than its batch and one unscorable take
make the backfill look past it. Two requests, a quota of two files and three names for
snapshots let a build wait, take over a lock, evict, and meet a queue that changed. Voices (several, without samples) and samples (of one
voice) are two parts of job_races.

**Fairness.** Event loops and arq keep running handlers; a dead container is
restarted (`restart: unless-stopped`); time passes, so heartbeats age, holds and
keys that nobody renews expire and records become old; the reaper, the sweep, the
backfill and the daily runs go on (each catches its errors). Strong fairness is
assumed where a step retries on every tick against a lock that is given back
(LoRA reaper and reconciler) and for waits on PostgreSQL row locks, which queue
(References). Not assumed: that a training ends, that a DELETE arrives, that a user
cancels, that a scoring worker stays up. That rendering ends is assumed: the
engine's client has a deadline.

## 4. Findings

1. A progress update refused twice leaves a request in the scorer's pipe; the
   next job reads its answer and stores the scores under another take
   (`scoring/subprocess_runner.py`). `ScoresAreSound` holds without refused updates.
2. A cancelled training that is adopting its adapter and the reconciler of the
   cancelled job together lose both adapters. `VoiceIsWhole` is therefore checked
   without cancels.

### Known exceptions that the passing runs exclude

Each is shown by TLC with the constants named, or is outside a stated assumption.

- `AdmissionOwnedForSeries` (GpuHold, `MaxWorkerCrashes = 1`, `MaxTakes = 2`): a restart
  of the ACE-Step worker deletes the admission of a running series, so a hold is
  granted between two takes, against "the generation job owns that admission for its
  complete take series" (`scheduler.py`). Takes and trainings still exclude each other.
- `TerminalIsFinal` (GenerationJob, `MaxCrashes = 1`, `Count = 1`): `recover_stale_jobs_by_type`
  selects without a lock and overwrites a cancel committed in between.
- `EveryTrainingEnds` (LoraTraining, 2 jobs, `MaxCrashes = 1`, `MaxDiskErrors = 1`): a
  `.previous` directory that could not be removed makes every later reconciliation
  of that voice fail.
- `ReadyIsUsable` (1 training, 1 kill, 1 disk error): a failed replacement removes the
  record before it writes the old mode back; a crash between leaves the wrong mode.
- `RecoveredIsRecorded` (LoraTraining, 2 jobs, `MaxCrashes = 2`, or 3 jobs, a cancel and one
  kill): a training that gave up
  on its voice (the wait for the queue was too long) and is killed before its job is
  failed is delivered again, though the musician started another one meanwhile:
  nothing compares `training_job_id` with the job that runs. Both write the temporary
  directory, and a second kill after the other's record leaves an adapter that the
  reconciler takes for the recorded one.
- `VoiceIsWhole` (LoraTraining, 2 jobs, `MaxCrashes = 1`): for the same reason, and because a
  reconciler tidies *after* its commit, when a new training may already use the temporary
  directory, it is stated for one training of a voice. Without a kill two trainings
  keep the voice (TLC); of three, one that gives up can fail the row while another adopts
  its adapter.
- GenerationJob: progress, take count and failures are stated for a job without a
  kill or restart: two runs of one job report independently, and a kill between a
  held run's re-enqueue and its end leaves two tasks.
- A training whose hold has lapsed may leave its child running when another
  submission has it (`docs/acestep.md:77` does not mention it).
- Covers: one cover request at a time. Two at once can leave key and file of
  different formats or remove the newer cover; a crash between the rename and the
  commit of a new key hides a cover whose format changed, and one between a
  suggestion's rename and commit, or its row and its file, leaves a PNG.
- Library: trash, restore and purge of an album are one step each (a song moved or
  created into an album while it is trashed stays live and is purged with it; a
  song's own trash racing its album's; a restore racing the purge at the end of the
  window). Playlist requests are one at a time (concurrent adds read the last
  position without a lock). The search order is that of code points. A source take
  deleted while a repaint renders loses the new take; a rename with a stale album
  fails on the unique index.
- Streams: the quota is at least the number of concurrent requests (`QuotaHoldsBuilds`);
  beyond it `_enforce_cache_quota` can evict the file another request has just placed. A
  build that has only begun counts as no bytes. Build locks are of one server process.
- Conversation: two `api_new_conversation` at once can leave two active ones. Purging
  the song of the message at the summary's boundary makes `compact_conversation` fold
  messages again ("Cover every historical message once"); a reused message deleted
  between read and commit leaves the job to the reaper.
- Backfill: as many unscorable takes as the pool holds starve the rest; an outage of
  more ticks than attempts delays takes until the counters' seven days are over; a
  run in which every scorer failed, or a coherence verdict, makes a take count as scored.
- StaleJobs: a Redis outage longer than the grace fails queued jobs; the grace is
  in effect shorter by one reaper interval. A flapping worker counts as away.
- JobLimits: a refused request rolls back the stale recovery it made. The bound of a
  full queue ignores automatic scoring jobs, which have no owner.
- VoiceSamples: concurrent adds can exceed `USER_LORA_MAX_SAMPLES`; a sample can change
  after a train request (its status test is not locked); a delete racing a train
  request leaves a deleted voice in training. A training put back to QUEUED after it
  ran is not counted by `CapacityHolds`.
- CredentialMirror: after a partial write the message "leaving {target} as it was" is
  not true. StackSecrets: `.env` is not edited between a password run's read and its
  rewrite; a killed copy leaves a temporary file.

## 5. Proofs

TLAPS proves the following for every value of the constants. Assumed are only the
constant facts that the component modules state and TLC evaluates in a run: bounds are
natural numbers, sets that are counted are finite, a null value is no member of the set
it stands beside, and a lease outlives its connection (`StreamConstants`), which
`api_stream_job`'s settings guarantee. Modules that are only instantiated keep these
facts in an operator (`LimitConstants`, `SampleConstants`, `ScoringConstants`,
`StaleConstants`, `DownloadConstants`, `CoverConstants`, `ReferenceConstants`,
`SongConstants`, `TakeConstants`, `AlbumConstants`, `OrderConstants`, `SearchConstants`,
`ChatConstants`, `StreamConstants`, `EventConstants`, `MirrorConstants`,
`SecretConstants`, `QueueConstants`, `PoolConstants`); the module that puts the parts
side by side assumes them (`PartConstants`), and the theorems about its parts are
theorems of its own specification, with every constant free.

**GpuHoldProofs**: `TypeCorrect`, `HoldExclusion`, `HoldKept`, `TrainingExclusion`,
`ChildKeptForUsers`, `TrainingStopsChild`. `HoldExcludesTakes` is not inductive: that a
take on the GPU blocks a reservation needs `TasksTracked` (the worker's set is exactly
the takes on the GPU), and that a handler between test and recording blocks it needs
`LockOwned`. `TrainingKeepsItsHold` needs `ClaimsTracked` (a started training's token
stays recorded until its cleanup ends), `SubmittedOnce`, `SeriesOrder` (no task exists
yet for a take that is still to be posted) and `NothingRunsWhenDown` for the restart,
which deletes both keys. `IInv` is their conjunction; one step per action shows that it
is kept. `TrainingIsExclusive` (no take and no other training beside one that has its
hold) follows from the two and is not checked again by a run. `TakesKeepTheirChild`
counts: the proof splits the users of the child into `Renderers` and `Trainers` and
follows the two cardinalities through each step.

**GenerationJobProofs**: `TypeCorrect`, `HeartbeatIsRespected`, `NoLateTake`,
`OutcomeBacked`, and the conjuncts of `JobsEndHonestly` other than liveness
(`TakesBounded`, `ProgressRises`, `OomIsShown`, `FailureKnown`). `SeriesInv` ties a
run's place in its series to its counters; `StaleSeen` says that a heartbeat a reaper
found unchanged is still old; `Backed` that a run never counts more completed takes than
the library has. `OutcomeBacked` needs no more, whatever crashes: a duplicate delivery
only adds takes. The last three hold without a kill or restart and need `CalmInv`: then
at most one run is alive (`Alone`), and what the row shows is what this run's tracker
reported (`Shown`, `Steady`).

**JobsProofs** (three parts of MCJobs). Delivery: `TypeCorrect`, `FetchedIsWhole`,
`FailureLeavesNothing`, `TerminalEventArrives`, `LastWordIsLast`,
`DeliveryKeepsPromise`. `FileInv` says in
which states of the dispatch the take file exists and that it is whole in the last ones;
the two file properties follow. `RunnerInv` (a record without a runner is terminal) is
what makes the initial event of a late subscription the terminal one. `AppendHolds`,
`TailHolds` and `UpdateHolds` say what sending and receiving do to a stream that holds a
terminal event. `LastWordIsLast` is `TerminalEventIsLast`, the safety part of
DeliveryEnds: a record is terminal only when every scheduled report has been written,
and its progress is that of the last one (`RecordInv`), so what is appended never lies
behind (`StreamInv`). `DeliveryKeepsPromise` is the refinement of TakePromise, also a
part of DeliveryEnds: creating the file and its last chunk grow the copy, freeing the
result brings it, every failure and cancel is a giving up, and every other step is
invisible (`PromiseStep`); it needs `FileInv` and that nothing is in a file not yet
created (`EmptyInv`). `VoiceStaysWhole` is for one training of the voice (`OneTraining`)
and any number of deaths of the worker and of reconcilers; cancels and disk errors are
excluded (section 4). Whether an adapter may be removed depends on which of four
directories exist, what the record and the row say and who is at work, so `VoiceInv`
says for each step of the adoption what lies on disk (`DiskFits`: while the record
stands, the new adapter is in the temporary directory with at most one of the other two
names taken, or in place; without it nothing is set aside and the row fits what is in
place), that only the run of the RUNNING job is at work (`RunGoes`), and that what a
reconciler read before its renames still holds (`Reconciling`). One lemma per action.
`RestartsCostNoJob` is `RestartIsSpared`, a conjunct of VerdictsAreRight: a signal that
went while the server ran had just been observed, one that went while it did not has
been away for as long as the server is back (`AwayIsKnown`), so neither age can pass the
grace before the signal's absence has.

**ModelCacheProofs**: `CacheImplementsSlots` is the refinement: every step of a load, of
an eviction plan carried out over several awaits, of a failure or a restart is a step of
ModelSlots or a stutter, under `Slots`' mapping (`resident <- Occupying`, `users <-
inUse`). `BudgetHolds` is what it comes to. Also `TypeCorrect`, `UsesCounted`,
`UsedIsLoaded`, `PlanStaysRight` and `RetriedFirst`; with the jobs of MCModels,
`PlansKeepTrue`, the whole of `PlansStayTrue`: `JobInv` adds to what the property says
of ModelJobs that a mode whose download was delivered is on disk (`DeliveredIsOnDisk`).
The inductive invariant `CacheInv` has `ListOK` (no mode twice in the LRU list), `OpOK`
(while the lock is held the remaining plan is loaded, evictable, and sufficient for the
new mode) and `Counted` (the use count is the number of tasks that hold the mode, and a
used mode is loaded). That a plan is sufficient is a statement about a sum: `SumIsCount`
turns the fold into the cardinality of a set of units, after which additivity is that of
finite sets. It is proved by a least counterexample (`SmallestNat`: a nonempty set of
naturals has a least element), since the library's induction theorems cannot be
instantiated here.

**ServiceProofs** (seven parts of MCService): `StreamLimit` from `TabInv` (each stream
has a lease of its own that lasts until its deadline at least: `LeaseCovers`,
`LeasesApart`); `SessionsStayRevoked`; `EventsAreComplete` from `EventInv`: the
committed sequences are dense because the cursor row serialises the writers
(`LedgerIsDense`), the stream's cursor is the last id it sent, and a `created` frame
continues the frame before it without a hole (`FramesInOrder`). `MirrorStaysTrue` from
`MirrorInv`: the run that holds the flock has a whole document to write that is no older
than the login was when the run began, and what it has written so far is the beginning
of that document (`RunsFit`); no run and no copy knows a later login than there is
(`LoginsPast`); a copy nobody writes is as new as the newest success says
(`FreshStand`). It covers files half written by a killed run. `SecretsKeepStanding` from
`SecretInv`: what a copy is about to link is what the `.env` it read says
(`PlansStand`); from its read to the word "set" the password command has `.env` to
itself (`PasswordStands`, the assumption of section 4). `PasswordWritten` says what
rewriting does to the *effective* line of each key, the last one. `StreamsAreShared`
(one stream per queue, served only while offered) from `LocksHold` (a request holds or
waits for the entry it found in the table, entries of one queue are one, and the
reference count of an entry is the number of requests that know it) and `FilesAgree` (a
snapshot has one owner until its manifest is written, audio and manifest go together).
`StreamsStayTrue` adds that a stream's audio outlives the eviction of others, which is
true only if the quota has room for the concurrent requests (`QuotaHoldsBuilds`, a
hypothesis which the run's constants meet): `RoomInv` counts, for a file that was placed
and not yet listed, the files that are newer or may become so (`Ahead`): fewer than the
requests, so the eviction, which keeps the newest, does not reach it. `PoolStaysWhole`
is about a function: `PickedOut` says what `Selected` returns, by counting the places
below each (`Rank`), without induction; from it follow what is collected, that rotating
and shuffling lose nothing, and where the scan stops.

**JobRacesProofs** (three parts of MCJobRaces): `JobsWithinLimits`, `CapacityIsKept`,
`SamplesKeepTheirFiles`, together `LimitsAreKept`. What a request counts under the
advisory lock must still hold when it writes, so the invariants carry it along:
`RoomIsKept` for jobs (others may leave the window or finish meanwhile, which only makes
room), `StillRoom` for voices and trainings, `Adding` for a sample's id and file.
`ScoresStaySound` from `ScoringInv`: whoever uses the pipe holds its lock (`PipeHeld`);
between two jobs the pipe is empty and a live child with an abandoned scorer is tainted
(`PipeIdle`); while a job waits the child works on its request and no other, is dead, or
has answered it (`PipeOfOne`); a writer between reading and writing a take's scores has
the row locked (`MergesHoldRow`). A refused progress update (finding 1) breaks
`PipeIdle`: that is where the proof would fail.

**FilesProofs** (both parts of MCFiles): `CoversKeepStanding` from `CoverInv`: after the
second rename a cover is in place, a publication holds its job row, without a crash
every file belongs to a row, a removal or the publication (`Suggestions`), and the day
has room for the job under way (`DailyRoom`). `FilesStayTrue` from `ReferenceInv`: the
owner's lock keeps what an upload counted and what the daily run named (`OwnerLockHeld`,
`RoomForUpload`); rows come and go with their upload (`RowsAreStored`); a save keeps the
row it is about to link locked (`SavesHoldLocks`), so no recording under a link is
stamped or deleted.

**LibraryProofs** (six parts of MCLibrary): `WordsKeepStanding` from `SongInv`: a save
holds the song row and what it loaded *under* the lock is still true (`SaveHolds`), what
it found about active jobs stays true while it holds it (`CheckHolds`), an active job
renders a version that is there with its words (`JobsStand`). `PublicStaysTrue` from
`MarksInv` (a listed or shared take is kept and not archived unless its musician
released it). `OthersKeepStanding` from these, `SweepInv` (the retention run compares
with today's window) and `OrderInv` (no two entries share a position). `TrashStaysTrue`
from `AlbumInv`: moments lie in the past (`MomentsPast`), a trashed album has no live
song (`TrashedWhole`), the songs that share its moment are those it took (`TookStands`);
the search for a free slug ends because there are more numbers than songs
(`SlugIsFree`). `SearchLeavesOutNothing` from `SearchInv`: what was shown among the hits
that stay as they are is exactly what lies up to the cursor, in order
(`ShownUpToCursor`); the order is total, which is what a keyset cursor needs.
`HistoryStaysTrue` from `ChatInv`: ids grow along a conversation and a summary tells of
every message up to its boundary (`TalksStand`); one job runs, under the loop's lock
(`OneJobRuns`, `LoopHeld`); a turn that was prepared sends the summary and then every
message after the boundary, once (`TurnsStand`). `Compaction` says that folding the
older part and sending the rest neither drops nor repeats one.

Only model-checked:

- every liveness property (`EveryJobEnds`, `DeliveryEnds`, `EveryTurnEnds`, ...): fairness
  and `ENABLED` are beyond the prover;
- `RecoveredIsRecorded`: it holds for two trainings and one kill and not for every number
  of them (section 4), so there is no general theorem; it stays with TLC.

## 6. Plan

1. A composition of GenerationJob with TakePromise: its dispatch as the promise's
   steps.

## 7. Not modelled

- Scorers and mastering: numerical analysis and signal processing.
- The engine's HTTP client: its outcomes are inputs of TakeDelivery and GpuHold.
- Settings and administration: writes of single rows; their effect on limits is an
  input of JobLimits. Presets depend on how SQLAlchemy merges rows under a lock.
- The frontend presents the API; migrations, deployment and monitoring run once
  under an operator. OIDC and the request-rate counters are the webauth library's.
- Of modelled components: prompts, memories and the take block of a turn; lyric
  overrides of a repaint or cover version; admin access to others' rows; sample
  positions; statistics and lists, which only read.

`PROJECT.json`, "components", names the files.
