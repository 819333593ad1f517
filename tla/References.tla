----------------------------- MODULE References -----------------------------
(* An owner's reference recordings (reference_api.py, reference_audio.py,      *)
(* db/queries/reference_recordings.py): rows, their files, the versions and    *)
(* takes of one song that link them, and the stamp unused_since from which an  *)
(* unlinked recording counts down.  Files are written and removed outside the  *)
(* database; row locks, the song's lock and the owner's advisory lock are      *)
(* explicit.                                                                   *)
EXTENDS Naturals, FiniteSets

CONSTANTS
    Refs,       \* recordings
    Holders,    \* versions and takes that can link one
    Requests,   \* saves at the same time
    Quota,      \* settings.reference_audio_quota_files
    MaxFaults,  \* bound on failed writes, unlinks, commits and dead processes
    None

VARIABLES
    row,        \* row[r]: stamp, keep and row lock of a recording, None: no row
    file,       \* recordings whose file exists
    link,       \* link[h]: the recording a version or take links
    song,       \* who holds the song's row lock
    req,        \* req[q]: a save in progress
    pend,       \* recordings a committed detach is about to stamp
    up,         \* up[r]: upload or removal of a recording in progress
    owner,      \* who holds the owner's advisory lock
    named,      \* the recordings the remnant run found rows for
    faults

vars == <<row, file, link, song, req, pend, up, owner, named, faults>>

(* A recording's row. *)
Recording == [unused : BOOLEAN, kept : BOOLEAN, lock : {"link", "stamp", None}, by : Requests \cup {None}]

ReferenceConstants ==
    /\ Quota \in Nat /\ IsFiniteSet(Refs)
    /\ "remnants" \notin Refs
    /\ None \notin Refs \cup Requests \cup Recording \cup {"remnants", "link", "stamp"}

Rows == {r \in Refs : row[r] # None}
Idle == [pc |-> "idle", holder |-> None, ref |-> None]

(* reference_link_counts: trashed and archived holders count. *)
Unlinked(r) == \A h \in Holders : link[h] # r

Init ==
    /\ row = [r \in Refs |-> None] /\ file = {}
    /\ link = [h \in Holders |-> None] /\ song = None
    /\ req = [q \in Requests |-> Idle]
    /\ pend = {}
    /\ up = [r \in Refs |-> "new"]
    /\ owner = None /\ named = None
    /\ faults = 0

Fault == faults < MaxFaults /\ faults' = faults + 1

-----------------------------------------------------------------------------
(* Upload and removal.                                                         *)

\* Mutant: an upload does not wait for the owner's lock.
AdmitAlone(r) == up[r] = "new"

(* _lock_reference_owner *)
LockOwner(r) == up[r] = "new" /\ owner = None

(* store_reference_audio, owner_reference_usage: the owner's lock, then the    *)
(* quota over the rows; every recording has the same size.                     *)
BeginUpload(r) ==
    /\ LockOwner(r)
    /\ Cardinality(Rows) + 1 <= Quota
    /\ up' = [up EXCEPT ![r] = "admitted"]
    /\ owner' = r
    /\ UNCHANGED <<row, file, link, song, req, pend, named, faults>>

(* _write_reference *)
WriteFile(r) ==
    /\ up[r] = "admitted"
    /\ file' = file \cup {r}
    /\ up' = [up EXCEPT ![r] = "written"]
    /\ UNCHANGED <<row, link, song, req, pend, owner, named, faults>>

Freed(r) == IF owner = r THEN None ELSE owner

(* _record_reference, create_reference_recording: a new row is unused from its *)
(* first moment.                                                               *)
CommitUpload(r) ==
    /\ up[r] = "written"
    /\ row' = [row EXCEPT ![r] = [unused |-> TRUE, kept |-> FALSE, lock |-> None, by |-> None]]
    /\ up' = [up EXCEPT ![r] = "stored"]
    /\ owner' = Freed(r)
    /\ UNCHANGED <<file, link, song, req, pend, named, faults>>

(* _remove_unrecorded_file, best effort, or a commit that failed and keeps the *)
(* file, or a dead process: the owner's lock goes with the transaction.        *)
UploadFails(r) ==
    /\ up[r] \in {"admitted", "written"} /\ Fault
    /\ file' \in {file, file \ {r}}
    /\ up' = [up EXCEPT ![r] = "failed"]
    /\ owner' = Freed(r)
    /\ UNCHANGED <<row, link, song, req, pend, named>>

(* api_delete_reference, delete_reference_recording: the row is locked; a link *)
(* refuses the delete.  The file goes after the commit.                        *)
DeleteReference(r) ==
    /\ r \in Rows /\ row[r].lock = None /\ Unlinked(r)
    /\ row' = [row EXCEPT ![r] = None]
    /\ up' = [up EXCEPT ![r] = "removing"]
    /\ UNCHANGED <<file, link, song, req, pend, owner, named, faults>>

(* remove_reference_file *)
RemoveFile(r) ==
    /\ up[r] = "removing"
    /\ file' = file \ {r}
    /\ up' = [up EXCEPT ![r] = "gone"]
    /\ UNCHANGED <<row, link, song, req, pend, owner, named, faults>>

RemoveFails(r) ==
    /\ up[r] = "removing" /\ Fault
    /\ up' = [up EXCEPT ![r] = "gone"]
    /\ UNCHANGED <<row, file, link, song, req, pend, owner, named>>

\* Mutant: the remnant run does not wait for the owner's lock.
BeginUnlocked ==
    /\ named = None /\ file \ Rows # {}
    /\ named' = Rows
    /\ UNCHANGED <<row, file, link, song, req, pend, up, owner, faults>>

(* reconcile_reference_remnants, _reconcile_owner: the owner's lock is held    *)
(* from reading the rows to the last unlink.                                   *)
BeginRemnants ==
    /\ owner = None /\ file \ Rows # {}
    /\ owner' = "remnants"
    /\ named' = Rows
    /\ UNCHANGED <<row, file, link, song, req, pend, up, faults>>

(* _remove_if_remnant *)
RemoveRemnant ==
    /\ named # None
    /\ \E r \in file \ named : file' = file \ {r}
    /\ UNCHANGED <<row, link, song, req, pend, up, owner, named, faults>>

EndRemnants ==
    /\ named # None /\ file \subseteq named
    /\ named' = None
    /\ owner' = IF owner = "remnants" THEN None ELSE owner
    /\ UNCHANGED <<row, file, link, song, req, pend, up, faults>>

-----------------------------------------------------------------------------
(* Links.                                                                      *)

(* FOR NO KEY UPDATE: it shuts out a delete, a stamp and another link, but not *)
(* the key share lock that the insert of a linking row takes.                  *)
MayLink(r) == r \in Rows /\ row[r].lock = None

\* Mutant: a link locks the row against readers of its key too.
MayShareKeyOnlyFree(r) == r \in Rows /\ row[r].lock = None

MayShareKey(r) == r \in Rows /\ row[r].lock # "stamp"

(* lock_and_mark_reference_used *)
LockReference(q, h, r) ==
    /\ MayLink(r)
    /\ row' = [row EXCEPT ![r].lock = "link", ![r].by = q]
    /\ req' = [req EXCEPT ![q] = [pc |-> "locked", holder |-> h, ref |-> r]]
    /\ UNCHANGED <<file, link, song, pend, up, owner, named, faults>>

(* _attach_reference of a save; a row that is gone refuses the save. *)
AttachReference(q, h, r) == req[q].pc = "idle" /\ LockReference(q, h, r)

(* resolve_linked_reference_audio: a take starts from a version's link; h is   *)
(* the take's own link to be.                                                  *)
StartTake(q, from, h) ==
    /\ req[q].pc = "idle" /\ link[h] = None /\ link[from] \in Rows \cap file
    /\ req' = [req EXCEPT ![q] = [pc |-> "rendering", holder |-> h, ref |-> link[from]]]
    /\ UNCHANGED <<row, file, link, song, pend, up, owner, named, faults>>

(* _lock_reference_or_fail, minutes later, with the take in hand ... *)
TakeLocks(q) == req[q].pc = "rendering" /\ LockReference(q, req[q].holder, req[q].ref)

(* ... or the version was rewritten, the recording deleted, and the job fails. *)
TakeRefused(q) ==
    /\ req[q].pc = "rendering" /\ req[q].ref \notin Rows
    /\ req' = [req EXCEPT ![q] = Idle]
    /\ UNCHANGED <<row, file, link, song, pend, up, owner, named, faults>>

(* api_update_song, create_generation: then the song's row. *)
LockSong(q) ==
    /\ req[q].pc = "locked" /\ song = None
    /\ song' = q
    /\ req' = [req EXCEPT ![q].pc = "saving"]
    /\ UNCHANGED <<row, file, link, pend, up, owner, named, faults>>

(* The save commits: the link, and the stamp cleared under the row's lock. *)
CommitLink(q) ==
    LET r == req[q].ref
        old == link[req[q].holder] IN
    /\ req[q].pc = "saving"
    /\ link' = [link EXCEPT ![req[q].holder] = r]
    /\ row' = [row EXCEPT ![r] = [@ EXCEPT !.unused = FALSE, !.lock = None, !.by = None]]
    /\ pend' = IF old \in {None, r} THEN pend ELSE pend \cup {old}
    /\ req' = [req EXCEPT ![q] = Idle] /\ song' = None
    /\ UNCHANGED <<file, up, owner, named, faults>>

(* A save of other fields: the song's lock first, and the version it makes     *)
(* carries the link of the one before.                                         *)
CarrySong(q, from, to) ==
    /\ req[q].pc = "idle" /\ song = None
    /\ link[from] # None /\ link[to] = None /\ \A p \in Requests : req[p].holder \notin {from, to}
    /\ song' = q
    /\ req' = [req EXCEPT ![q] = [pc |-> "carrying", holder |-> to, ref |-> link[from]]]
    /\ UNCHANGED <<row, file, link, pend, up, owner, named, faults>>

(* The insert takes the key share lock of the recording it links. *)
CommitCarry(q) ==
    /\ req[q].pc = "carrying" /\ MayShareKey(req[q].ref)
    /\ link' = [link EXCEPT ![req[q].holder] = req[q].ref]
    /\ req' = [req EXCEPT ![q] = Idle] /\ song' = None
    /\ UNCHANGED <<row, file, pend, up, owner, named, faults>>

(* A request that fails or dies lets go of everything it holds. *)
Rollback(q) ==
    /\ req[q].pc # "idle" /\ Fault
    /\ row' = [r \in Refs |-> IF r \in Rows /\ row[r].by = q
                              THEN [row[r] EXCEPT !.lock = None, !.by = None] ELSE row[r]]
    /\ song' = IF song = q THEN None ELSE song
    /\ req' = [req EXCEPT ![q] = Idle]
    /\ UNCHANGED <<file, link, pend, up, owner, named>>

(* A version or take is deleted, rewritten without its link, or purged: the    *)
(* commit, and the recordings it may have left unlinked.                       *)
Detach(h) ==
    /\ link[h] # None /\ song = None /\ \A q \in Requests : req[q].holder # h
    /\ link' = [link EXCEPT ![h] = None]
    /\ pend' = pend \cup {link[h]}
    /\ UNCHANGED <<row, file, song, req, up, owner, named, faults>>

-----------------------------------------------------------------------------
(* Stamps.                                                                     *)

(* mark_newly_unused: the row is locked if it is unstamped and not kept ...    *)
LockForStamp(r) ==
    /\ r \in pend
    /\ pend' = pend \ {r}
    /\ IF r \in Rows /\ ~row[r].unused /\ ~row[r].kept
         THEN row[r].lock = None /\ row' = [row EXCEPT ![r].lock = "stamp"]
         ELSE UNCHANGED row
    /\ UNCHANGED <<file, link, song, req, up, owner, named, faults>>

\* Mutant: the links are not counted again under the lock.
StampLocked(r) ==
    /\ r \in Rows /\ row[r].lock = "stamp"
    /\ row' = [row EXCEPT ![r].unused = TRUE, ![r].lock = None]
    /\ UNCHANGED <<file, link, song, req, pend, up, owner, named, faults>>

(* ... and stamped when a fresh count finds no link. *)
Stamp(r) ==
    /\ r \in Rows /\ row[r].lock = "stamp"
    /\ row' = [row EXCEPT ![r].unused = Unlinked(r), ![r].lock = None]
    /\ UNCHANGED <<file, link, song, req, pend, up, owner, named, faults>>

(* commit_unused_stamps: a failure is logged, the detach stands; a process     *)
(* that dies between the two commits never tries.                              *)
StampFails(r) ==
    /\ Fault
    /\ \/ r \in pend /\ pend' = pend \ {r} /\ UNCHANGED row
       \/ r \in Rows /\ row[r].lock = "stamp" /\ row' = [row EXCEPT ![r].lock = None] /\ UNCHANGED pend
    /\ UNCHANGED <<file, link, song, req, up, owner, named>>

(* clear_stamps_on_used_or_kept: the other half of the daily run, under the    *)
(* row's lock.                                                                 *)
ReconcileCleared(r) ==
    /\ r \in Rows /\ row[r].lock = None /\ row[r].unused
    /\ row' = [row EXCEPT ![r].unused = Unlinked(r) /\ ~row[r].kept]
    /\ UNCHANGED <<file, link, song, req, pend, up, owner, named, faults>>

\* Mutant: the daily run looks at the kept recordings.
ReconcileKept(r) ==
    /\ r \in Rows \ pend /\ ~row[r].unused /\ row[r].kept
    /\ pend' = pend \cup {r}
    /\ UNCHANGED <<row, file, link, song, req, up, owner, named, faults>>

(* reconcile_unused_stamps, _stamp_unstamped_unkept: once a day every unstamped *)
(* and unkept row is a candidate.                                              *)
ReconcileStamps(r) ==
    /\ r \in Rows \ pend /\ ~row[r].unused /\ ~row[r].kept
    /\ pend' = pend \cup {r}
    /\ UNCHANGED <<row, file, link, song, req, up, owner, named, faults>>

(* keep_reference *)
Keep(r) ==
    /\ r \in Rows /\ row[r].lock = None /\ ~row[r].kept
    /\ row' = [row EXCEPT ![r].kept = TRUE, ![r].unused = FALSE]
    /\ UNCHANGED <<file, link, song, req, pend, up, owner, named, faults>>

(* unkeep_reference: stamped at once unless a link holds it. *)
Unkeep(r) ==
    /\ r \in Rows /\ row[r].lock = None /\ row[r].kept
    /\ row' = [row EXCEPT ![r].kept = FALSE, ![r].unused = Unlinked(r)]
    /\ UNCHANGED <<file, link, song, req, pend, up, owner, named, faults>>

OfRef(r) ==
    \/ BeginUpload(r) \/ WriteFile(r) \/ CommitUpload(r) \/ UploadFails(r)
    \/ DeleteReference(r) \/ RemoveFile(r) \/ RemoveFails(r)
    \/ LockForStamp(r) \/ Stamp(r) \/ StampFails(r) \/ ReconcileStamps(r) \/ ReconcileCleared(r)
    \/ Keep(r) \/ Unkeep(r)

OfRequest(q) ==
    \/ \E h \in Holders, r \in Refs : AttachReference(q, h, r)
    \/ \E h, g \in Holders : CarrySong(q, h, g) \/ StartTake(q, h, g)
    \/ TakeLocks(q) \/ TakeRefused(q)
    \/ LockSong(q) \/ CommitLink(q) \/ CommitCarry(q) \/ Rollback(q)

Next ==
    \/ \E r \in Refs : OfRef(r)
    \/ \E q \in Requests : OfRequest(q)
    \/ \E h \in Holders : Detach(h)
    \/ BeginRemnants \/ RemoveRemnant \/ EndRemnants

(* Work under way goes on, a request that waits for a lock gets it in its      *)
(* turn, and the daily runs come round.                                        *)
UploadGoesOn(r) == WriteFile(r) \/ CommitUpload(r) \/ RemoveFile(r)
StampGoesOn(r) == LockForStamp(r) \/ Stamp(r) \/ ReconcileStamps(r)
RequestGoesOn(q) ==
    TakeLocks(q) \/ TakeRefused(q) \/ LockSong(q) \/ CommitLink(q) \/ CommitCarry(q)

Fairness ==
    /\ \A r \in Refs : WF_vars(UploadGoesOn(r)) /\ SF_vars(StampGoesOn(r))
    /\ \A q \in Requests : SF_vars(RequestGoesOn(q))
    /\ SF_vars(BeginRemnants) /\ WF_vars(RemoveRemnant \/ EndRemnants)

Spec == Init /\ [][Next]_vars /\ Fairness

-----------------------------------------------------------------------------
(* The stamp tells the truth: a recording that counts down is linked by no     *)
(* version or take and is not kept, whatever attaches, detaches, stamps and    *)
(* daily runs interleave.                                                      *)
StampIsTrue == \A r \in Rows : row[r].unused => Unlinked(r) /\ ~row[r].kept

(* Every recorded file exists: neither an upload that failed nor the remnant   *)
(* run takes the file of a row, not even of one that is just being committed.  *)
RowHasFile == Rows \subseteq file

(* Uploads at the same time never take the owner over the quota. *)
QuotaHolds == Cardinality(Rows) <= Quota

(* No save waits for ever: a save that locks the recording and then the song   *)
(* does not block one that holds the song and carries the same link.           *)
EverySaveEnds == \A q \in Requests : (req[q].pc # "idle") ~> (req[q].pc = "idle")

(* A recording that stays unlinked and unkept is stamped in the end, and a     *)
(* file without a row is removed in the end, also after a failed stamp or a    *)
(* dead process.                                                               *)
LeftoversAreFound ==
    \A r \in Refs :
        /\ []<>~(r \in Rows /\ Unlinked(r) /\ ~row[r].kept /\ ~row[r].unused)
        /\ []<>~(r \in file \ Rows)

=============================================================================
