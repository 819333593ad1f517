---------------------------- MODULE QueueStreams ----------------------------
(* Continuous streams of a shared album or playlist (queue_streams.py): a      *)
(* request lists the takes the page offers, builds one file of them or reuses  *)
(* one with the same content, and records it in a manifest; a play checks the  *)
(* manifest against what the page offers now.  Files are made and removed one  *)
(* by one, by builders, plays, the quota and the hourly cleanup.               *)
EXTENDS Naturals, FiniteSets

CONSTANTS
    Builders,   \* stream requests at the same time
    Snaps,      \* snapshot ids
    Takes,
    Quota,      \* streams of the longest duration QUEUE_STREAM_MAX_CACHE_BYTES holds
    MaxEdits,   \* bound on changes of what the page offers
    None

(* What the proofs assume of the constants. *)
QueueConstants ==
    /\ IsFiniteSet(Builders) /\ IsFiniteSet(Snaps) /\ Quota \in Nat /\ MaxEdits \in Nat
    /\ None \notin Snaps /\ None \notin Builders /\ \A c \in SUBSET Takes : c # None

(* The quota has room for a stream of each request under way. *)
QuotaHoldsBuilds == Cardinality(Builders) <= Quota

(* Ages in steps of eight hours: QUEUE_STREAM_TTL and QUEUE_STREAM_ORPHAN_MAX_AGE. *)
Ttl == 1
OrphanAge == 3

VARIABLES
    offer,      \* takes the page presents, None when it is not shared
    edits,
    tmp,        \* snapshots with a temporary file
    audio,      \* audio[s]: the takes in a snapshot's mp3
    manifest,   \* manifest[s]: the takes its manifest lists
    age,        \* age[s] of a snapshot's files
    newer,      \* newer[s]: snapshots with a file written after that of s
    gone,       \* snapshots whose manifest is removed and whose mp3 comes next
    used,       \* snapshot ids handed out
    task,       \* task[b]: a stream request
    lockOf,     \* _build_locks: the entry of a content, None when there is none
    entry       \* entry[e]: holder and number of waiters of a lock entry

vars == <<offer, edits, tmp, audio, manifest, age, newer, gone, used, task, lockOf, entry>>
locks == <<lockOf, entry>>
files == <<tmp, audio, manifest, age, newer, gone, used>>

Contents == (SUBSET Takes) \ {{}}
Idle == [pc |-> "idle", want |-> None, entry |-> None, snap |-> None, before |-> {}]
NoEntry == [holder |-> None, waiters |-> 0]

Init ==
    /\ offer = Takes /\ edits = 0
    /\ tmp = {} /\ audio = [s \in Snaps |-> None] /\ manifest = [s \in Snaps |-> None]
    /\ age = [s \in Snaps |-> 0] /\ newer = [s \in Snaps |-> {}] /\ gone = {} /\ used = {}
    /\ task = [b \in Builders |-> Idle]
    /\ lockOf = [c \in Contents |-> None] /\ entry = [e \in Builders |-> NoEntry]

-----------------------------------------------------------------------------
(* A pick changes, a take is archived, the page is unshared. *)
EditOffer ==
    /\ edits < MaxEdits /\ edits' = edits + 1
    /\ offer' \in ((SUBSET Takes) \cup {None}) \ {offer}
    /\ UNCHANGED <<files, task, locks>>

(* get_shared_album_stream, get_shared_playlist_stream, admission; the entry of *)
(* _build_lock is found or made, and counts this waiter before it blocks.      *)
Request(b) ==
    /\ task[b] = Idle /\ offer \notin {None, {}}
    /\ LET e == IF lockOf[offer] # None THEN lockOf[offer]
                ELSE CHOOSE x \in Builders : entry[x] = NoEntry IN
       /\ lockOf' = [lockOf EXCEPT ![offer] = e]
       /\ entry' = [entry EXCEPT ![e].waiters = @ + 1]
       /\ task' = [task EXCEPT ![b] = [pc |-> "waiting", want |-> offer, entry |-> e, snap |-> None, before |-> {}]]
    /\ UNCHANGED <<offer, edits, files>>

(* Snapshots with a file, of which a glob for *.mp3 finds the temporary one too. *)
Present == {s \in Snaps : s \in tmp \/ audio[s] # None}

(* The file of s is written now, and is gone. *)
Write(s) == [x \in Snaps |-> IF x \in Present \ {s} THEN newer[x] \cup {s} ELSE {}]
Forget(s) == [x \in Snaps |-> IF x = s THEN {} ELSE newer[x] \ {s}]

Reusable(c) == {s \in Snaps : manifest[s] = c /\ age[s] < Ttl /\ audio[s] # None}

(* entry.lock.acquire(), _find_reusable_snapshot: a hit is the answer; else a  *)
(* fresh id, and ffmpeg starts on the temporary file.                          *)
Acquire(b) ==
    /\ task[b].pc = "waiting" /\ entry[task[b].entry].holder = None
    /\ entry' = [entry EXCEPT ![task[b].entry].holder = b]
    /\ IF Reusable(task[b].want) # {}
         THEN task' = [task EXCEPT ![b].pc = "done"] /\ UNCHANGED <<used, tmp, newer>>
         ELSE \E s \in Snaps \ used :
                /\ used' = used \cup {s} /\ tmp' = tmp \cup {s} /\ newer' = Write(s)
                /\ task' = [task EXCEPT ![b].pc = "building", ![b].snap = s,
                                        ![b].before = {o \in Builders : task[o].pc = "placed"}]
    /\ UNCHANGED <<offer, edits, audio, manifest, age, gone, lockOf>>

(* run_ffmpeg_concat, then the rename.  A build takes seconds, the save after  *)
(* a rename milliseconds: what another request placed before this build began  *)
(* is saved before it ends.                                                    *)
PlaceAudio(b) ==
    LET s == task[b].snap IN
    /\ task[b].pc = "building" /\ s \in tmp
    /\ task[b].before = {}
    /\ tmp' = tmp \ {s}
    /\ audio' = [audio EXCEPT ![s] = task[b].want]
    /\ newer' = Write(s)
    /\ task' = [task EXCEPT ![b].pc = "placed"]
    /\ UNCHANGED <<offer, edits, manifest, age, gone, used, locks>>

(* A source that is gone, ffmpeg failing or timing out. *)
BuildFails(b) ==
    /\ task[b].pc = "building"
    /\ tmp' = tmp \ {task[b].snap} /\ newer' = Forget(task[b].snap)
    /\ task' = [task EXCEPT ![b].pc = "done", ![b].before = {}]
    /\ UNCHANGED <<offer, edits, audio, manifest, age, gone, used, locks>>

(* manifest.save *)
SaveManifest(b) ==
    /\ task[b].pc = "placed"
    /\ manifest' = [manifest EXCEPT ![task[b].snap] = task[b].want]
    /\ task' = [o \in Builders |-> IF o = b THEN [task[b] EXCEPT !.pc = "saved"]
                                   ELSE [task[o] EXCEPT !.before = @ \ {b}]]
    /\ UNCHANGED <<offer, edits, tmp, audio, age, newer, gone, used, locks>>

InBuild == {task[b].snap : b \in {o \in Builders : task[o].pc = "building"}}

(* Builds begun while a placed file is not saved yet have next to no bytes. *)
JustBegun == {task[b].snap : b \in {o \in Builders : task[o].pc = "building" /\ task[o].before # {}}}

(* Everything the glob finds but the caller's own. *)
Others(mine) == Present \ (gone \cup {mine})

(* total_bytes > QUEUE_STREAM_MAX_CACHE_BYTES, every stream being of the       *)
(* longest duration.                                                           *)
MayEvict(mine) == Cardinality(Present \ (gone \cup JustBegun)) > Quota /\ Others(mine) # {}

IsOldest(s, F) == s \in F /\ F \ {s} \subseteq newer[s]

(* The oldest comes first, and the temporary file of a build under way is      *)
(* being written and so the newest.                                            *)
Victim(s, mine) == IsOldest(s, IF Others(mine) \subseteq InBuild THEN Others(mine) ELSE Others(mine) \ InBuild)

\* Mutant: the mp3 goes before the manifest.
RemoveAudioFirst(s) ==
    /\ audio' = [audio EXCEPT ![s] = None] /\ tmp' = tmp \ {s}
    /\ newer' = Forget(s)
    /\ UNCHANGED <<manifest, gone>>

(* delete_snapshot_files_from_dir: the temporary file, the manifest, and the   *)
(* mp3 after them.                                                             *)
RemoveSnapshot(s) ==
    /\ manifest' = [manifest EXCEPT ![s] = None] /\ tmp' = tmp \ {s}
    /\ IF audio[s] # None THEN gone' = gone \cup {s} /\ UNCHANGED newer
                          ELSE newer' = Forget(s) /\ UNCHANGED gone
    /\ UNCHANGED audio

(* _enforce_cache_quota of a builder, one eviction at a time. *)
EvictFor(b) ==
    /\ task[b].pc = "saved" /\ MayEvict(task[b].snap)
    /\ \E s \in Snaps : Victim(s, task[b].snap) /\ RemoveSnapshot(s)
    /\ UNCHANGED <<offer, edits, age, used, task, locks>>

Answer(b) ==
    /\ task[b].pc = "saved" /\ ~MayEvict(task[b].snap)
    /\ task' = [task EXCEPT ![b].pc = "done"]
    /\ UNCHANGED <<offer, edits, files, locks>>

\* Mutant: the entry is dropped with the lock, though others wait on it.
AnyWaiter(e) == TRUE

(* The last one that knows the entry removes it. *)
LastWaiter(e) == entry[e].waiters = 1

(* _build_lock, on the way out. *)
Leave(b) ==
    LET e == task[b].entry c == task[b].want IN
    /\ task[b].pc = "done"
    /\ entry' = [entry EXCEPT ![e] = [holder |-> None, waiters |-> @.waiters - 1]]
    /\ lockOf' = IF LastWaiter(e) /\ lockOf[c] = e THEN [lockOf EXCEPT ![c] = None] ELSE lockOf
    /\ task' = [task EXCEPT ![b] = Idle]
    /\ UNCHANGED <<offer, edits, files>>

-----------------------------------------------------------------------------
(* The unlink of the mp3 that follows. *)
Unlink(s) ==
    /\ s \in gone
    /\ gone' = gone \ {s}
    /\ audio' = [audio EXCEPT ![s] = None]
    /\ newer' = Forget(s)
    /\ UNCHANGED <<offer, edits, tmp, manifest, age, used, task, locks>>

(* _remove_expired_queue_stream_snapshots, and a play of an expired stream. *)
RemoveExpired(s) ==
    /\ manifest[s] # None /\ age[s] >= Ttl
    /\ RemoveSnapshot(s)
    /\ UNCHANGED <<offer, edits, age, used, task, locks>>

(* _remove_expired_queue_stream_orphans: files with no live manifest. *)
RemoveOrphan(s) ==
    /\ manifest[s] = None /\ s \notin gone /\ age[s] >= OrphanAge
    /\ s \in tmp \/ audio[s] # None
    /\ tmp' = tmp \ {s} /\ audio' = [audio EXCEPT ![s] = None]
    /\ newer' = Forget(s)
    /\ UNCHANGED <<offer, edits, manifest, age, gone, used, task, locks>>

\* Mutant: a play trusts the manifest.
TrustsManifest(tracks) == offer # None

(* _validate_shared_queue_manifest: the page is shared, and each take listed   *)
(* is one it presents now.                                                     *)
Validated(tracks) == offer # None /\ tracks \subseteq offer

(* load_queue_stream_manifest, get_shared_queue_stream_audio *)
Playable(s) ==
    manifest[s] # None /\ age[s] < Ttl /\ audio[s] # None /\ Validated(manifest[s])

(* cleanup_expired_queue_streams ends with the quota, nothing protected. *)
EvictAny ==
    /\ MayEvict(None)
    /\ \E s \in Snaps : Victim(s, None) /\ RemoveSnapshot(s)
    /\ UNCHANGED <<offer, edits, age, used, task, locks>>

(* Eight hours: no build lasts that long. *)
Later ==
    /\ \A b \in Builders : task[b].pc \in {"idle", "waiting"}
    /\ \E s \in used : (s \in tmp \/ audio[s] # None) /\ age[s] < OrphanAge
    /\ age' = [s \in Snaps |-> IF s \in used /\ age[s] < OrphanAge THEN age[s] + 1 ELSE age[s]]
    /\ UNCHANGED <<offer, edits, tmp, audio, manifest, newer, gone, used, task, locks>>

(* The server dies: requests and locks are gone, files stay as they are; an    *)
(* eviction half done leaves an mp3 with no manifest.                          *)
Crash ==
    /\ \E b \in Builders : task[b] # Idle
    /\ task' = [b \in Builders |-> Idle]
    /\ lockOf' = [c \in Contents |-> None] /\ entry' = [e \in Builders |-> NoEntry]
    /\ gone' = {}
    /\ UNCHANGED <<offer, edits, tmp, audio, manifest, age, newer, used>>

Next ==
    \/ \E b \in Builders : \/ Request(b) \/ Acquire(b) \/ PlaceAudio(b) \/ BuildFails(b)
                           \/ SaveManifest(b) \/ EvictFor(b) \/ Answer(b) \/ Leave(b)
    \/ \E s \in Snaps : Unlink(s) \/ RemoveExpired(s) \/ RemoveOrphan(s)
    \/ EditOffer \/ EvictAny \/ Later \/ Crash

-----------------------------------------------------------------------------
(* A snapshot a manifest names has its whole audio, with the takes it lists,   *)
(* while builders, evictions, expiry and a crash take files away one by one.   *)
ManifestHasAudio == \A s \in Snaps : manifest[s] # None => audio[s] = manifest[s]

(* Whoever has the address of a stream hears only takes the page offers now,   *)
(* whatever it offered when the stream was built or first reused.              *)
ServedIsOffered == \A s \in Snaps : Playable(s) => offer # None /\ audio[s] \subseteq offer

(* The same queue is never kept twice: requests at the same time wait for the  *)
(* one that builds and take its result.                                        *)
OneStreamPerQueue == \A c \in Contents : Cardinality(Reusable(c)) <= 1
=============================================================================
