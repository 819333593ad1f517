------------------------------- MODULE Covers -------------------------------
(* Covers.  One item (an album, a song or a playlist) with its cover           *)
(* directory on disk and the cover_key column that makes it visible            *)
(* (src/songmaker_cli/covers.py and the cover endpoints), and, when the item   *)
(* is an album, the jobs that draw suggestions for it (cover_suggestions.py,   *)
(* cover_runner.py): request, claim, picture, publication, cancellation,       *)
(* recovery after a restart, discarding and the purge of a deleted album.      *)
(* Pictures are abstracted to the two formats, which is all a key reveals.     *)
EXTENDS Naturals, FiniteSets

CONSTANTS
    Jobs,           \* cover jobs; each publishes at most one suggestion
    DailyLimit,     \* settings.cover_suggestions_daily_limit
    MaxCrashes,     \* bound on deaths of the web process
    None

CoverConstants == DailyLimit \in Nat /\ MaxCrashes \in Nat /\ None \notin Jobs \cup {"jpg", "png"}

VARIABLES
    kind,       \* what the item is
    item,       \* live, trashed (soft-deleted) or gone
    key,        \* the cover_key column: the format it names, or None
    final,      \* the cover directory: the format of its original, or None
    old,        \* the directory a replaced cover is set aside to
    req,        \* the cover request in progress: its step and its format
    job,        \* job[j]: status of the job row
    today,      \* jobs created since utc_day_start
    session,    \* is the asking browser session alive
    runner,     \* what the runner loop does: the job and its phase
    cancelling, \* cancel requests that committed and have not aborted the picture
    row,        \* jobs whose suggestion row exists
    png,        \* jobs whose published suggestion file exists
    staged,     \* jobs whose staging directory exists
    doomed,     \* suggestion files whose rows are deleted, not yet unlinked
    crashes

coverVars == <<key, final, old, req>>
jobVars == <<job, today, runner, cancelling>>
fileVars == <<row, png, staged, doomed>>
vars == <<kind, item, session, crashes, coverVars, jobVars, fileVars>>

Formats == {"jpg", "png"}
Active == {"queued", "running"}
Terminal == {"completed", "failed", "cancelled"}
Idle == [job |-> None, phase |-> "idle"]
NoRequest == [step |-> "idle", fmt |-> None]

Init ==
    /\ kind \in {"album", "song", "playlist"}
    /\ item = "live" /\ session = TRUE
    /\ key = None /\ final = None /\ old = None
    /\ req = NoRequest
    /\ job = [j \in Jobs |-> "none"]
    /\ runner = Idle
    /\ today = {} /\ cancelling = {}
    /\ row = {} /\ png = {} /\ staged = {} /\ doomed = {}
    /\ crashes = 0

-----------------------------------------------------------------------------
(* Cover files: write_cover, remove_cover_files, and the endpoints.           *)

(* _restore_cover_if_orphaned *)
Restored == IF final = None THEN old ELSE final
OldAfterRestore == IF final = None THEN None ELSE old

(* _resolve_cover_file: the original is looked up under the key's extension,  *)
(* the derivatives are always JPEG.                                           *)
Resolved(variant) == key # None /\ (IF variant = "original" THEN final = key ELSE final # None)

(* write_cover up to the saved variants: the picture was decoded, an orphaned *)
(* cover put back, the variants saved in a fresh staging directory.           *)
BeginWrite(fmt) ==
    /\ item = "live" /\ req = NoRequest
    /\ final' = Restored /\ old' = OldAfterRestore
    /\ req' = [step |-> "staged", fmt |-> fmt]
    /\ UNCHANGED <<kind, item, session, crashes, key, jobVars, fileVars>>

UploadAlbumCover == kind = "album" /\ \E f \in Formats : BeginWrite(f)
UploadSongCover == kind = "song" /\ \E f \in Formats : BeginWrite(f)
UploadPlaylistCover == kind = "playlist" /\ \E f \in Formats : BeginWrite(f)

(* api_select_album_cover_suggestion: the row and its file must exist; a      *)
(* suggestion is a PNG.                                                       *)
SelectSuggestion(j) == kind = "album" /\ j \in row \cap png /\ BeginWrite("png")

(* The picture cannot be saved: staging is removed, nothing else changed. *)
SaveFails ==
    /\ req.step = "staged"
    /\ req' = NoRequest
    /\ UNCHANGED <<kind, item, session, crashes, key, final, old, jobVars, fileVars>>

\* Mutant: the old cover is deleted before the new one is in place.
DeleteFirst ==
    /\ req.step = "staged"
    /\ old' = None /\ final' = None
    /\ req' = [req EXCEPT !.step = "aside"]
    /\ UNCHANGED <<kind, item, session, crashes, key, jobVars, fileVars>>

(* A cover in place is set aside; a leftover of an earlier write goes first.  *)
SetAside ==
    /\ req.step = "staged"
    /\ IF final # None THEN old' = final /\ final' = None ELSE UNCHANGED <<old, final>>
    /\ req' = [req EXCEPT !.step = "aside"]
    /\ UNCHANGED <<kind, item, session, crashes, key, jobVars, fileVars>>

MoveIn ==
    /\ req.step = "aside"
    /\ final' = req.fmt
    /\ req' = [req EXCEPT !.step = "moved"]
    /\ UNCHANGED <<kind, item, session, crashes, key, old, jobVars, fileVars>>

(* The second rename fails: staging is removed and the cover put back, unless *)
(* that fails too.                                                            *)
MoveInFails ==
    /\ req.step = "aside"
    /\ \/ final' = Restored /\ old' = OldAfterRestore
       \/ UNCHANGED <<final, old>>
    /\ req' = NoRequest
    /\ UNCHANGED <<kind, item, session, crashes, key, jobVars, fileVars>>

DropOld ==
    /\ req.step = "moved"
    /\ old' = None
    /\ req' = [req EXCEPT !.step = "commit"]
    /\ UNCHANGED <<kind, item, session, crashes, key, final, jobVars, fileVars>>

(* set_album_cover_key, set_song_cover_key, set_playlist_cover_key and the    *)
(* commit; the item may be trashed or the database away by now.               *)
SetCoverKey ==
    /\ req.step = "commit"
    /\ \/ item = "live" /\ key' = req.fmt
       \/ UNCHANGED key
    /\ req' = NoRequest
    /\ UNCHANGED <<kind, item, session, crashes, final, old, jobVars, fileVars>>

(* api_delete_album_cover and its siblings: the key is cleared and committed  *)
(* before the directories go.                                                 *)
DeleteCover ==
    /\ item = "live" /\ req = NoRequest
    /\ key' = None
    /\ req' = [step |-> "remove", fmt |-> None]
    /\ UNCHANGED <<kind, item, session, crashes, final, old, jobVars, fileVars>>

DeleteAlbumCover == kind = "album" /\ DeleteCover
DeleteSongCover == kind = "song" /\ DeleteCover
DeletePlaylistCover == kind = "playlist" /\ DeleteCover

(* remove_cover_files: the cover, the set-aside one and staging leftovers. *)
RemoveCoverFiles ==
    /\ req.step = "remove"
    /\ final' = None /\ old' = None
    /\ req' = NoRequest
    /\ UNCHANGED <<kind, item, session, crashes, key, jobVars, fileVars>>

(* api_delete_playlist: no trash, the row goes and then its files. *)
DeletePlaylist ==
    /\ kind = "playlist" /\ item = "live" /\ req = NoRequest
    /\ item' = "gone" /\ key' = None
    /\ req' = [step |-> "remove", fmt |-> None]
    /\ UNCHANGED <<kind, session, crashes, final, old, jobVars, fileVars>>

Trash ==
    /\ kind # "playlist" /\ item = "live"
    /\ item' = "trashed"
    /\ UNCHANGED <<kind, session, crashes, coverVars, jobVars, fileVars>>

Restore ==
    /\ item = "trashed" /\ item' = "live"
    /\ UNCHANGED <<kind, session, crashes, coverVars, jobVars, fileVars>>

(* run_cleanup_expired: the rows of an expired album go in one transaction,   *)
(* its suggestions with it; a running publication keeps its job row locked.   *)
Purge ==
    /\ item = "trashed" /\ req = NoRequest /\ runner.phase # "moved"
    /\ item' = "gone" /\ key' = None
    /\ row' = {} /\ doomed' = doomed \cup row
    /\ req' = [step |-> "remove", fmt |-> None]
    /\ UNCHANGED <<kind, session, crashes, final, old, jobVars, png, staged>>

-----------------------------------------------------------------------------
(* Suggestion jobs.                                                           *)

\* Mutant: the active-job check is left out.
LimitOnly == Cardinality({j \in today : job[j] = "completed"}) < DailyLimit

(* has_active_cover_job and count_cover_jobs_since, under the admission lock. *)
MayRequest ==
    /\ \A j \in Jobs : job[j] \notin Active
    /\ Cardinality({j \in today : job[j] = "completed"}) < DailyLimit

(* api_create_cover_suggestions, request_cover_suggestions *)
RequestSuggestion(j) ==
    /\ kind = "album" /\ item = "live" /\ session
    /\ job[j] = "none" /\ MayRequest
    /\ job' = [job EXCEPT ![j] = "queued"]
    /\ today' = today \cup {j}
    /\ UNCHANGED <<kind, item, session, crashes, coverVars, runner, cancelling, fileVars>>

(* claim_next_cover_job: atomically queued to running. *)
Claim(j) ==
    /\ runner = Idle /\ job[j] = "queued"
    /\ job' = [job EXCEPT ![j] = "running"]
    /\ runner' = [job |-> j, phase |-> "start"]
    /\ UNCHANGED <<kind, item, session, crashes, coverVars, today, cancelling, fileVars>>

(* update_job_status: refused for a terminal row. *)
Ended(j, status) == [job EXCEPT ![j] = IF @ \in Terminal THEN @ ELSE status]

(* _load_cover_start: a job that is no longer running, an album that is gone, *)
(* a user or session that is gone end the run.                                *)
LoadStart ==
    /\ runner.phase = "start"
    /\ IF job[runner.job] = "running" /\ item = "live" /\ session
       THEN runner' = [runner EXCEPT !.phase = "loaded"] /\ UNCHANGED job
       ELSE runner' = Idle /\ job' = Ended(runner.job, "failed")
    /\ UNCHANGED <<kind, item, session, crashes, coverVars, today, cancelling, fileVars>>

(* _draw: the picture task is entered in _running_pictures before it runs. *)
RegisterPicture ==
    /\ runner.phase = "loaded"
    /\ runner' = [runner EXCEPT !.phase = "registered"]
    /\ UNCHANGED <<kind, item, session, crashes, coverVars, job, today, cancelling, fileVars>>

\* Mutant: the request is sent without a second look at the job.
AskAnyway ==
    /\ runner.phase = "registered"
    /\ runner' = [runner EXCEPT !.phase = "drawing"]
    /\ UNCHANGED <<kind, item, session, crashes, coverVars, job, today, cancelling, fileVars>>

(* _is_still_running, read by the registered picture task; the request is     *)
(* sent only then.                                                            *)
AskGateway ==
    /\ runner.phase = "registered"
    /\ runner' = IF job[runner.job] = "running"
                 THEN [runner EXCEPT !.phase = "drawing"] ELSE Idle
    /\ UNCHANGED <<kind, item, session, crashes, coverVars, job, today, cancelling, fileVars>>

(* run_cover_picture ends: a picture, or one of the four problems; then       *)
(* _checked_picture, the staging directory and the staged file.               *)
Drawn ==
    /\ runner.phase = "drawing"
    /\ runner' = [runner EXCEPT !.phase = "staged"]
    /\ staged' = staged \cup {runner.job}
    /\ UNCHANGED <<kind, item, session, crashes, coverVars, job, today, cancelling, row, png, doomed>>

NoPicture ==
    /\ runner.phase = "drawing"
    /\ runner' = Idle
    /\ job' = Ended(runner.job, "failed")
    /\ UNCHANGED <<kind, item, session, crashes, coverVars, today, cancelling, fileVars>>

(* A failed run: staging is removed, the row fails unless it is terminal. *)
RunFails(j) ==
    /\ runner' = Idle
    /\ staged' = staged \ {j}
    /\ job' = Ended(j, "failed")

(* _publish_suggestion up to the rename: the status write locks the job row   *)
(* and is refused when a cancel, the reaper or a purge came first.            *)
BeginPublish ==
    /\ runner.phase = "staged"
    /\ IF job[runner.job] = "running"
       THEN /\ runner' = [runner EXCEPT !.phase = "moved"]
            /\ png' = png \cup {runner.job}
            /\ UNCHANGED <<job, staged>>
       ELSE RunFails(runner.job) /\ UNCHANGED png
    /\ UNCHANGED <<kind, item, session, crashes, coverVars, today, cancelling, row, doomed>>

\* Mutant: a failed commit leaves the moved file where it is.
CommitKeepsFile ==
    /\ runner.phase = "moved"
    /\ \/ /\ item # "gone"
          /\ job' = [job EXCEPT ![runner.job] = "completed"]
          /\ row' = row \cup {runner.job}
          /\ runner' = Idle /\ staged' = staged \ {runner.job}
       \/ RunFails(runner.job) /\ UNCHANGED row
    /\ UNCHANGED <<kind, item, session, crashes, coverVars, today, cancelling, png, doomed>>

(* The commit: row and COMPLETED together, then staging goes; a failed commit *)
(* (the album is gone, the database is away) removes the moved file.          *)
CommitPublish ==
    /\ runner.phase = "moved"
    /\ \/ /\ item # "gone"
          /\ job' = [job EXCEPT ![runner.job] = "completed"]
          /\ row' = row \cup {runner.job}
          /\ runner' = Idle /\ staged' = staged \ {runner.job}
          /\ UNCHANGED png
       \/ /\ RunFails(runner.job)
          /\ png' = png \ {runner.job}
          /\ UNCHANGED row
    /\ UNCHANGED <<kind, item, session, crashes, coverVars, today, cancelling, doomed>>

(* api_cancel_job: CANCELLED commits, waiting for a publication that holds    *)
(* the row; then abort_web_cover_job.                                         *)
CancelJob(j) ==
    /\ job[j] \in Active
    /\ ~(runner.job = j /\ runner.phase = "moved")
    /\ job' = [job EXCEPT ![j] = "cancelled"]
    /\ cancelling' = cancelling \cup {j}
    /\ UNCHANGED <<kind, item, session, crashes, coverVars, today, runner, fileVars>>

(* The table _running_pictures holds the job from before its status is read   *)
(* until its picture is there.                                                *)
PictureOf(j) == runner.job = j /\ runner.phase \in {"registered", "drawing"}

AbortPicture(j) ==
    /\ j \in cancelling
    /\ cancelling' = cancelling \ {j}
    /\ runner' = IF PictureOf(j) THEN Idle ELSE runner
    /\ UNCHANGED <<kind, item, session, crashes, coverVars, job, today, fileVars>>

(* reap_stale_jobs: a running row whose heartbeat went silent for 120 s,      *)
(* because its process died or stalled.                                       *)
Reap(j) ==
    /\ job[j] = "running" /\ ~(runner.job = j /\ runner.phase = "moved")
    /\ job' = [job EXCEPT ![j] = "failed"]
    /\ UNCHANGED <<kind, item, session, crashes, coverVars, today, runner, cancelling, fileVars>>

\* Mutant: the files are removed before the rows are committed away.
DiscardFilesFirst(S) ==
    /\ kind = "album" /\ item = "live" /\ S \subseteq row /\ S # {}
    /\ png' = png \ S /\ doomed' = doomed \cup S
    /\ UNCHANGED <<kind, item, session, crashes, coverVars, jobVars, row, staged>>

(* api_delete_cover_suggestions: the named rows are committed away first. *)
Discard(S) ==
    /\ kind = "album" /\ item = "live" /\ S \subseteq row /\ S # {}
    /\ row' = row \ S /\ doomed' = doomed \cup S
    /\ UNCHANGED <<kind, item, session, crashes, coverVars, jobVars, png, staged>>

(* remove_cover_suggestion_files, remove_album_cover_suggestion_files *)
RemoveSuggestionFiles ==
    /\ doomed # {}
    /\ png' = png \ doomed /\ doomed' = {}
    /\ UNCHANGED <<kind, item, session, crashes, coverVars, jobVars, row, staged>>

(* Logout or expiry of the session that asked. *)
EndSession ==
    /\ kind = "album" /\ session /\ session' = FALSE
    /\ UNCHANGED <<kind, item, crashes, coverVars, jobVars, fileVars>>

(* utc_day_start moves on. *)
NewDay ==
    /\ today # {} /\ today' = {}
    /\ UNCHANGED <<kind, item, session, crashes, coverVars, job, runner, cancelling, fileVars>>

-----------------------------------------------------------------------------
\* Mutant: only queued jobs are failed at startup.
RecoverQueued ==
    /\ job' = [j \in Jobs |-> IF job[j] = "queued" THEN "failed" ELSE job[j]]
    /\ UNCHANGED <<row, staged>>

(* recover_web_cover_jobs, before the runner starts: interrupted jobs fail,   *)
(* their suggestions and staging directories go.                              *)
Recover ==
    LET interrupted == {j \in Jobs : job[j] = "running"} IN
    /\ job' = [j \in Jobs |-> IF j \in interrupted THEN "failed" ELSE job[j]]
    /\ row' = row \ interrupted
    /\ staged' = staged \ interrupted

(* The web process dies and starts again. *)
CrashAndRestart ==
    /\ crashes < MaxCrashes /\ crashes' = crashes + 1
    /\ req' = NoRequest /\ runner' = Idle /\ cancelling' = {} /\ doomed' = {}
    /\ Recover
    /\ UNCHANGED <<kind, item, session, key, final, old, today, png>>

CoverStep ==
    \/ UploadAlbumCover \/ UploadSongCover \/ UploadPlaylistCover
    \/ \E j \in Jobs : SelectSuggestion(j)
    \/ SaveFails \/ SetAside \/ MoveIn \/ MoveInFails \/ DropOld \/ SetCoverKey
    \/ DeleteAlbumCover \/ DeleteSongCover \/ DeletePlaylistCover \/ RemoveCoverFiles
    \/ DeletePlaylist \/ Trash \/ Restore \/ Purge

RunnerStep ==
    \/ LoadStart \/ RegisterPicture \/ AskGateway \/ Drawn \/ NoPicture \/ BeginPublish \/ CommitPublish

JobStep ==
    \/ \E j \in Jobs : RequestSuggestion(j) \/ Claim(j) \/ CancelJob(j) \/ AbortPicture(j) \/ Reap(j)
    \/ \E S \in SUBSET Jobs : Discard(S)
    \/ RemoveSuggestionFiles \/ EndSession \/ NewDay

Next == CoverStep \/ RunnerStep \/ JobStep \/ CrashAndRestart

Spec == Init /\ [][Next]_vars

(* The runner loop polls for ever, every step of a run is bounded by a        *)
(* time-out, and a cancel request runs to its end.                            *)
Fairness == WF_vars(RunnerStep) /\ WF_vars(\E j \in Jobs : Claim(j))

FairSpec == Spec /\ Fairness

-----------------------------------------------------------------------------
(* A cover the database names can still be shown or put back: whatever a      *)
(* failed save, a failed rename or a crash between two renames leaves behind, *)
(* the item's cover directory or the set-aside one holds a whole picture.     *)
CoverSurvives == key # None => Resolved("card") \/ old # None

(* A suggestion a musician sees has its picture on disk and comes from a job  *)
(* that ended as completed: a cancel, the reaper, a crash or a purge racing   *)
(* the publication never leave a suggestion of another outcome.               *)
SuggestionIsBacked == \A j \in row : j \in png /\ job[j] = "completed"

(* Without a crash nothing is left on disk: once no run and no removal is     *)
(* under way, every published file has its row and no staging is left.        *)
NoSuggestionLitter ==
    (crashes = 0 /\ runner = Idle /\ doomed = {}) => png = row /\ staged = {}

(* An album never gets more suggestions in a day than its limit, although     *)
(* only completed jobs are counted and requests race the running job.         *)
DailyLimitHolds == Cardinality({j \in today : job[j] = "completed"}) <= DailyLimit

(* No picture is drawn for a cancelled job once the cancel request is over:   *)
(* either the request aborts it or it was never sent.                         *)
CancelReachesPicture ==
    (runner.phase = "drawing" /\ job[runner.job] = "cancelled") => runner.job \in cancelling

(* Every requested suggestion job ends, restarts included. *)
EveryCoverJobEnds == \A j \in Jobs : job[j] = "queued" ~> job[j] \in Terminal
=============================================================================
