------------------------------ MODULE SongTakes ------------------------------
(* One song: its versions, the generation jobs that render them and the takes  *)
(* they leave (db/queries/songs.py, versions.py, generations.py and their      *)
(* endpoints).  A save locks the song row, loads the song, asks for active     *)
(* jobs and for takes, and rewrites the latest version or makes the next one;  *)
(* two savers, a version delete and the jobs interleave with it.               *)
(* Of a version's content only the creative part (words) and the rest          *)
(* (params) are told apart.                                                    *)
EXTENDS Naturals, FiniteSets, FiniteSetsExt

CONSTANTS
    Words,          \* creative contents: lyrics, prompt, tempo, key and length
    Params,         \* generation settings and reference of a version
    Savers,         \* requests that save the song at the same time
    Jobs,           \* generation jobs
    MaxVersions,    \* bound on the versions made
    MaxTakes,       \* bound on the takes made
    None, Keep      \* Keep: the request leaves the field alone

VARIABLES
    version,    \* version[i]: the i-th version made, or None when it is deleted
    made,       \* versions made so far
    take,       \* take[i]: the i-th take made, or None when it is deleted
    taken,      \* takes made so far
    job,        \* job[j]: status, version, words read at its start, source take
    lock,       \* who holds the song row FOR UPDATE
    save,       \* save[s]: a save in progress
    drop,       \* a version delete in progress
    trashed     \* songs.deleted_at is set

vars == <<version, made, take, taken, job, lock, save, drop, trashed>>

VersionIds == 1..MaxVersions
TakeIds == 1..MaxTakes
Active == {"queued", "running"}

Live == {v \in VersionIds : version[v] # None}
Takes == {t \in TakeIds : take[t] # None}

(* Song.latest_version: the last one created of those that are left. *)
Latest == IF Live = {} THEN None ELSE Max(Live)

(* A version row; the number is shown to the musician. *)
Version == [number : Nat, words : Words, params : Params]

(* A generation row, with the words the singer was given. *)
Take == [number : Nat, version : VersionIds \cup {None}, words : Words,
         src : TakeIds \cup {None}]

(* What the rows need of the constants: there is content to write, and None is *)
(* no saver, no number and no row.                                             *)
SongConstants ==
    /\ MaxVersions \in Nat \ {0} /\ MaxTakes \in Nat
    /\ Words # {} /\ Params # {}
    /\ None \notin Savers \cup {"drop"} /\ "drop" \notin Savers
    /\ None \notin VersionIds \cup Version \cup Take

NoJob == [st |-> "none", version |-> None, words |-> None, src |-> None]
NoSave == [pc |-> "idle", words |-> Keep, params |-> Keep, force |-> FALSE,
           prev |-> None, seen |-> None, busy |-> FALSE]
NoDrop == [pc |-> "idle", version |-> None, takes |-> FALSE]

(* api_create_song, create_song: a song starts with its first version. *)
Init ==
    /\ version \in {[v \in VersionIds |->
                       IF v = 1 THEN [number |-> 1, words |-> w, params |-> p] ELSE None] :
                    w \in Words, p \in Params}
    /\ made = 1
    /\ take = [t \in TakeIds |-> None] /\ taken = 0
    /\ job = [j \in Jobs |-> NoJob]
    /\ lock = None
    /\ save = [s \in Savers |-> NoSave]
    /\ drop = NoDrop
    /\ trashed = FALSE

-----------------------------------------------------------------------------
(* Saves.                                                                      *)

(* What a saver holds once it has locked the song and loaded it. *)
Loaded(w, p, f) ==
    [pc |-> "locked", words |-> w, params |-> p, force |-> f, busy |-> FALSE,
     prev |-> Latest, seen |-> IF Latest = None THEN None ELSE version[Latest]]

\* Mutant: the song is loaded without waiting for its row lock.
LoadOnly(s, r) ==
    /\ save[s].pc = "idle" /\ ~trashed
    /\ save' = [save EXCEPT ![s] = r]
    /\ UNCHANGED <<version, made, take, taken, job, lock, drop, trashed>>

(* lock_song_row: FOR UPDATE, then the song is loaded with committed values,   *)
(* whatever the access check loaded before; a trashed song is not found.       *)
LockSong(s, r) ==
    /\ save[s].pc = "idle" /\ ~trashed /\ lock = None
    /\ lock' = s
    /\ save' = [save EXCEPT ![s] = r]
    /\ UNCHANGED <<version, made, take, taken, job, drop, trashed>>

(* api_update_song *)
UpdateSong(s) ==
    \E w \in Words \cup {Keep}, p \in Params \cup {Keep}, f \in BOOLEAN :
        LockSong(s, Loaded(w, p, f))

(* api_rename_song: rename_song always forces a new version of the same content. *)
RenameSong(s) == LockSong(s, Loaded(Keep, Keep, TRUE))

(* tool_update_song_lyrics, _prompt, _style: a co-writer's write always makes a version. *)
CowriterEdit(s) ==
    \E w \in Words \cup {Keep}, p \in Params \cup {Keep} : LockSong(s, Loaded(w, p, TRUE))

(* tool_rename_song *)
CowriterRename(s) == LockSong(s, Loaded(Keep, Keep, TRUE))

(* execute_cowriter_tool: one call in a session of its own, committed on success and rolled  *)
(* back on any error (CommitSave, RollbackSave).                                           *)
CowriterTool(s) == CowriterEdit(s) \/ CowriterRename(s)

(* has_active_job_for_version *)
HasActiveJob(v) == \E j \in Jobs : job[j].version = v /\ job[j].st \in Active

(* The job check of _rewrites_in_place, a statement of its own. *)
CheckJobs(s) ==
    /\ save[s].pc = "locked"
    /\ save' = [save EXCEPT ![s].pc = "checked",
                 ![s].busy = save[s].prev # None /\ HasActiveJob(save[s].prev)]
    /\ UNCHANGED <<version, made, take, taken, job, lock, drop, trashed>>

(* _version_value, _version_generation_params, _carried_unless_set: a field    *)
(* the request leaves alone is carried over from the previous version.         *)
Content(r) ==
    [words |-> IF r.words # Keep THEN r.words
               ELSE IF r.seen = None THEN CHOOSE w \in Words : TRUE ELSE r.seen.words,
     params |-> IF r.params # Keep THEN r.params
                ELSE IF r.seen = None THEN CHOOSE p \in Params : TRUE ELSE r.seen.params]

HasTakes(v) == \E t \in Takes : take[t].version = v

(* _VersionContent.differs_from, creative_differs_from *)
CreativeDiffers(c, v) == c.words # v.words
Differs(c, v) == CreativeDiffers(c, v) \/ c.params # v.params

\* Mutant: a version that a job is about to render is rewritten.
IgnoresJobs(r) ==
    /\ ~r.force
    /\ LET c == Content(r) IN
         \/ ~Differs(c, r.seen)
         \/ ~(HasTakes(r.prev) /\ CreativeDiffers(c, r.seen))

(* _rewrites_in_place *)
RewritesInPlace(r) ==
    /\ ~r.force
    /\ LET c == Content(r) IN
         \/ ~Differs(c, r.seen)
         \/ ~r.busy /\ ~(HasTakes(r.prev) /\ CreativeDiffers(c, r.seen))

(* The end of update_song and the commit: the latest version is rewritten, or  *)
(* the next one is made.                                                       *)
CommitSave(s) ==
    LET r == save[s] IN
    /\ r.pc = "checked"
    /\ IF r.prev # None /\ RewritesInPlace(r)
         THEN /\ version' = [version EXCEPT ![r.prev] =
                     [number |-> r.seen.number, words |-> Content(r).words,
                      params |-> Content(r).params]]
              /\ UNCHANGED made
         ELSE /\ made < MaxVersions
              /\ made' = made + 1
              /\ version' = [version EXCEPT ![made + 1] =
                     [number |-> IF r.prev = None THEN 1 ELSE r.seen.number + 1,
                      words |-> Content(r).words, params |-> Content(r).params]]
    /\ lock' = None
    /\ save' = [save EXCEPT ![s] = NoSave]
    /\ UNCHANGED <<take, taken, job, drop, trashed>>

(* A save whose transaction fails (or that the bound stops) is rolled back. *)
RollbackSave(s) ==
    /\ save[s].pc \in {"locked", "checked"}
    /\ lock' = None
    /\ save' = [save EXCEPT ![s] = NoSave]
    /\ UNCHANGED <<version, made, take, taken, job, drop, trashed>>

-----------------------------------------------------------------------------
(* Deleting a version.                                                         *)

(* api_delete_version, delete_version: the row is found, the song is locked,   *)
(* the version is found again.                                                 *)
LockDrop(v, withTakes) ==
    /\ drop = NoDrop /\ lock = None /\ ~trashed /\ v \in Live
    /\ lock' = "drop"
    /\ drop' = [pc |-> "locked", version |-> v, takes |-> withTakes]
    /\ UNCHANGED <<version, made, take, taken, job, save, trashed>>

(* VersionInUseError, or the check passes. *)
CheckDrop ==
    /\ drop.pc = "locked"
    /\ IF HasActiveJob(drop.version)
         THEN drop' = NoDrop /\ lock' = None
         ELSE drop' = [drop EXCEPT !.pc = "checked"] /\ UNCHANGED lock
    /\ UNCHANGED <<version, made, take, taken, job, save, trashed>>

(* A deleted take stops being the source of others (ON DELETE SET NULL). *)
WithoutTakes(gone) ==
    [t \in TakeIds |->
       IF t \in gone \/ take[t] = None THEN None
       ELSE IF take[t].src \in gone THEN [take[t] EXCEPT !.src = None] ELSE take[t]]

(* _release_generations: the takes go with the version or lose their link. *)
ReleaseGenerations(v, withTakes) ==
    LET mine == {t \in Takes : take[t].version = v} IN
    IF withTakes THEN WithoutTakes(mine)
    ELSE [t \in TakeIds |-> IF t \in mine THEN [take[t] EXCEPT !.version = None] ELSE take[t]]

CommitDrop ==
    /\ drop.pc = "checked"
    /\ take' = ReleaseGenerations(drop.version, drop.takes)
    /\ version' = [version EXCEPT ![drop.version] = None]
    /\ job' = [j \in Jobs |-> IF job[j].version = drop.version
                              THEN [job[j] EXCEPT !.version = None] ELSE job[j]]
    /\ drop' = NoDrop /\ lock' = None
    /\ UNCHANGED <<made, taken, save, trashed>>

-----------------------------------------------------------------------------
(* Jobs and takes.                                                             *)

(* api_generate_song: the version is chosen from what the request loaded.      *)
AskTake(j) ==
    /\ job[j].st = "none" /\ ~trashed
    /\ \E v \in Live : job' = [job EXCEPT ![j] = [NoJob EXCEPT !.st = "asked", !.version = v]]
    /\ UNCHANGED <<version, made, take, taken, lock, save, drop, trashed>>

(* _generation_version_or_error: a named version of the song, or the source's own. *)
AskFrom(j, t, v) ==
    /\ job[j].st = "none" /\ ~trashed
    /\ t \in Takes /\ v \in Live
    /\ job' = [job EXCEPT ![j] = [NoJob EXCEPT !.st = "asked", !.version = v, !.src = t]]
    /\ UNCHANGED <<version, made, take, taken, lock, save, drop, trashed>>

(* api_repaint_generation, api_cover_generation: a take of the song is the source. *)
AskRepaint(j) == \E t \in Takes, v \in Live : AskFrom(j, t, v)
AskCover(j) == \E t \in Takes : AskFrom(j, t, take[t].version)

(* lock_song_and_find_version: the song is not in the trash and has the version. *)
VersionFound(v) == ~trashed /\ v \in Live

\* Mutant: the job row is inserted without waiting for the song's lock.
AdmitUnlocked(j) ==
    /\ job[j].st = "asked"
    /\ job' = [job EXCEPT ![j] =
                 IF VersionFound(job[j].version)
                 THEN [job[j] EXCEPT !.st = "queued"] ELSE [NoJob EXCEPT !.st = "ended"]]
    /\ UNCHANGED <<version, made, take, taken, lock, save, drop, trashed>>

(* create_job_with_rate_limit: the row is inserted                             *)
(* under the song's lock, if the version is still there.                       *)
Admit(j) ==
    /\ job[j].st = "asked" /\ lock = None
    /\ job' = [job EXCEPT ![j] =
                 IF VersionFound(job[j].version)
                 THEN [job[j] EXCEPT !.st = "queued"] ELSE [NoJob EXCEPT !.st = "ended"]]
    /\ UNCHANGED <<version, made, take, taken, lock, save, drop, trashed>>

(* _load_song_meta: the words are read when the job starts; a trashed song or  *)
(* a version that is gone fails it.                                            *)
Start(j) ==
    /\ job[j].st = "queued"
    /\ job' = [job EXCEPT ![j] =
                 IF ~trashed /\ job[j].version \in Live
                 THEN [job[j] EXCEPT !.st = "running", !.words = version[job[j].version].words]
                 ELSE [job[j] EXCEPT !.st = "ended"]]
    /\ UNCHANGED <<version, made, take, taken, lock, save, drop, trashed>>

(* _next_generation_number_under_song_lock *)
NextNumber == IF Takes = {} THEN 1 ELSE 1 + Max({take[t].number : t \in Takes})

(* create_generation: the job row is locked and still active, the song row is  *)
(* locked (a trashed song still gets its take).  A source take deleted         *)
(* meanwhile fails the insert on its key, and the files go.                    *)
SaveTake(j) ==
    /\ job[j].st = "running" /\ lock = None
    /\ taken < MaxTakes
    /\ job[j].src \in Takes \cup {None}
    /\ taken' = taken + 1
    /\ take' = [take EXCEPT ![taken + 1] = [number |-> NextNumber, version |-> job[j].version,
                                            words |-> job[j].words, src |-> job[j].src]]
    /\ UNCHANGED <<version, made, job, lock, save, drop, trashed>>

(* The job completes, fails, is cancelled or is reaped; no lock on the song is *)
(* needed to end it.                                                           *)
EndJob(j) ==
    /\ job[j].st \in Active
    /\ job' = [job EXCEPT ![j].st = "ended"]
    /\ UNCHANGED <<version, made, take, taken, lock, save, drop, trashed>>

(* api_delete_generation, api_bulk_delete_generations: the takes are locked in *)
(* id order and those that still exist are deleted.                            *)
DeleteTakes(ts) ==
    /\ ts # {} /\ ts \subseteq Takes /\ ~trashed
    /\ take' = WithoutTakes(ts)
    /\ UNCHANGED <<version, made, taken, job, lock, save, drop, trashed>>

(* api_delete_song, soft_delete_song: the update of the row waits for its lock. *)
TrashSong ==
    /\ ~trashed /\ lock = None
    /\ trashed' = TRUE
    /\ UNCHANGED <<version, made, take, taken, job, lock, save, drop>>

(* api_restore_song, restore_song *)
RestoreSong ==
    /\ trashed /\ lock = None
    /\ trashed' = FALSE
    /\ UNCHANGED <<version, made, take, taken, job, lock, save, drop>>

Next ==
    \/ \E s \in Savers : UpdateSong(s) \/ RenameSong(s) \/ CowriterTool(s) \/ CheckJobs(s)
                           \/ CommitSave(s) \/ RollbackSave(s)
    \/ \E v \in VersionIds, b \in BOOLEAN : LockDrop(v, b)
    \/ CheckDrop \/ CommitDrop
    \/ \E j \in Jobs : AskTake(j) \/ AskRepaint(j) \/ AskCover(j) \/ Admit(j) \/ Start(j)
                         \/ SaveTake(j) \/ EndJob(j)
    \/ \E ts \in SUBSET Takes : DeleteTakes(ts)
    \/ TrashSong \/ RestoreSong

Spec == Init /\ [][Next]_vars

-----------------------------------------------------------------------------
(* A take keeps the lyrics, prompt, tempo, key and length it was sung with:    *)
(* whatever saves, jobs and deletes interleave, the version a take is linked   *)
(* to still holds the words its singer was given.                              *)
TakeKeepsItsWords ==
    \A t \in Takes : take[t].version # None =>
        /\ take[t].version \in Live
        /\ version[take[t].version].words = take[t].words

(* A version that a queued or running job renders is not deleted under it.     *)
JobKeepsItsVersion == \A j \in Jobs : job[j].st \in Active => job[j].version \in Live

(* A save changes what its request names and nothing else, even when another   *)
(* save commits while it waits for the song: the words (settings) of the       *)
(* latest version only change by a save that sets them.                        *)
NoEditLost ==
    [][\A s \in Savers :
         (save[s].pc = "checked" /\ save'[s].pc = "idle" /\ version' # version /\ Latest # None) =>
             /\ save[s].words = Keep => version'[Latest'].words = version[Latest].words
             /\ save[s].params = Keep => version'[Latest'].params = version[Latest].params]_vars

=============================================================================
