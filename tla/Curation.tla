------------------------------ MODULE Curation ------------------------------
(* The takes of one song: picking, keeping, sharing, archiving, the daily      *)
(* retention run, a playlist that holds them and the public pages that play    *)
(* them (generation_api.py, playlist_api.py, sharing_api.py, cleanup.py and    *)
(* their queries).  Takes are numbered in the order they were made, all of     *)
(* them at time 0; an endpoint that locks its take before it writes is one     *)
(* step, one that chooses a take first and locks it later is two, and the      *)
(* retention run lists first and writes take by take.                          *)
EXTENDS Integers, FiniteSets, FiniteSetsExt

CONSTANTS
    N,              \* takes of the song
    Anchors,        \* takes that are the source of a later take
    MaxShares,      \* bound on the kinds of page shared at the same time
    RetentionDays,  \* settings.generation_retention_days
    FinalDays,      \* settings.final_deletion_days
    MaxDay,         \* bound on the clock
    Covered,        \* which of the album, the song and the playlist have a cover file
    None

VARIABLES
    day,        \* the clock
    take,       \* take[t]: its marks, or None when it is deleted
    listed,     \* takes that have an entry in the playlist
    share,      \* which of the album, the song and the playlist are shared
    live,       \* neither the song nor its album is in the trash
    chosen,     \* a take chosen by a request that has not locked it yet
    sweep,      \* the retention run: takes still to archive and to delete
    released    \* history: takes whose musician took their Keep away

vars == <<day, take, listed, share, live, chosen, sweep, released>>

TakeIds == 1..N
Takes == {t \in TakeIds : take[t] # None}
Shareable == {"album", "song", "playlist"}
NoSweep == [on |-> FALSE, archive |-> {}, delete |-> {}, cutoff |-> 0]
NoChoice == [for |-> "none", take |-> None]

(* The marks of a take: its Pick, its Keep, when it was archived, its link. *)
Marks == [picked : BOOLEAN, kept : BOOLEAN, at : Nat \cup {None}, shared : BOOLEAN]

(* What the rows need of the constants: None is no row and no time. *)
TakeConstants ==
    /\ N \in Nat /\ {RetentionDays, FinalDays, MaxDay} \subseteq Nat
    /\ None \notin Nat \cup Marks

Archived(t) == take[t].at # None

(* is_playable_take, playable_take_filter: a finished take always has a file. *)
Playable(t) == t \in Takes /\ ~Archived(t)

Init ==
    /\ day = 0
    /\ take = [t \in TakeIds |-> [picked |-> FALSE, kept |-> FALSE, at |-> None, shared |-> FALSE]]
    /\ listed = {}
    /\ share = {} /\ live = TRUE
    /\ chosen = NoChoice /\ sweep = NoSweep /\ released = {}

-----------------------------------------------------------------------------
(* Marks (generation_api.py).                                                  *)

(* check_generation_access: a take in the trash answers 404. *)
Accessible(t) == live /\ t \in Takes

(* lock_unarchived_generation *)
Unarchived(t) == t \in Takes /\ ~Archived(t)

(* pick_generation: the siblings are locked in id order and lose their pick. *)
Picked(t) ==
    [u \in TakeIds |-> IF u \in Takes THEN [take[u] EXCEPT !.picked = (u = t)] ELSE None]

(* api_pick_generation *)
PickTake(t) ==
    /\ Accessible(t) /\ Unarchived(t)
    /\ take' = Picked(t)
    /\ UNCHANGED <<day, listed, share, live, chosen, sweep, released>>

UnpickTake(t) ==
    /\ Accessible(t)
    /\ take' = [take EXCEPT ![t].picked = FALSE]
    /\ UNCHANGED <<day, listed, share, live, chosen, sweep, released>>

KeepTake(t) ==
    /\ Accessible(t) /\ Unarchived(t)
    /\ take' = [take EXCEPT ![t].kept = TRUE]
    /\ released' = released \ {t}
    /\ UNCHANGED <<day, listed, share, live, chosen, sweep>>

UnkeepTake(t) ==
    /\ Accessible(t)
    /\ take' = [take EXCEPT ![t].kept = FALSE]
    /\ released' = released \cup {t}
    /\ UNCHANGED <<day, listed, share, live, chosen, sweep>>

(* A musician restores an archived take. *)
UnarchiveTake(t) ==
    /\ Accessible(t)
    /\ take' = [take EXCEPT ![t].at = None]
    /\ UNCHANGED <<day, listed, share, live, chosen, sweep, released>>

(* enable_generation_sharing: a shared take is kept. *)
ShareTake(t) ==
    /\ Accessible(t) /\ Unarchived(t)
    /\ take' = [take EXCEPT ![t].shared = TRUE, ![t].kept = TRUE]
    /\ released' = released \ {t}
    /\ UNCHANGED <<day, listed, share, live, chosen, sweep>>

UnshareTake(t) ==
    /\ Accessible(t)
    /\ take' = [take EXCEPT ![t].shared = FALSE]
    /\ UNCHANGED <<day, listed, share, live, chosen, sweep, released>>

(* The row goes, and its playlist entries with it (ON DELETE CASCADE). *)
Without(t) ==
    /\ take' = [take EXCEPT ![t] = None]
    /\ listed' = listed \ {t}

(* api_delete_generation *)
DeleteTake(t) ==
    /\ Accessible(t)
    /\ Without(t)
    /\ UNCHANGED <<day, share, live, chosen, sweep, released>>

-----------------------------------------------------------------------------
(* The playlist.                                                               *)

(* add_generation_to_playlist once the take is locked: a listed take is kept. *)
Append(t) ==
    /\ listed' = listed \cup {t}
    /\ take' = [take EXCEPT ![t].kept = TRUE]
    /\ released' = released \ {t}

(* api_add_generation_to_playlist *)
AddTake(t) ==
    /\ Accessible(t) /\ Unarchived(t)
    /\ Append(t)
    /\ UNCHANGED <<day, share, live, chosen, sweep>>

Picks == {t \in Takes : Playable(t) /\ take[t].picked}

(* best_playable_generation: the pick, else the newest playable take. *)
BestPlayable ==
    LET able == {t \in Takes : Playable(t)} IN
    IF able = {} THEN None ELSE IF Picks # {} THEN CHOOSE t \in Picks : TRUE ELSE Max(able)

ChooseFor(what) ==
    /\ live /\ chosen = NoChoice /\ BestPlayable # None
    /\ chosen' = [for |-> what, take |-> BestPlayable]
    /\ UNCHANGED <<day, take, listed, share, live, sweep, released>>

(* api_add_song_to_playlist, api_add_album_to_playlist: the take is chosen     *)
(* from what the request loaded; a song without a playable take is refused, or *)
(* skipped.                                                                    *)
AddSong == ChooseFor("playlist")
AddAlbum == ChooseFor("album playlist")

\* Mutant: the chosen take is added without looking at it again.
AppendChosenBlindly(what) ==
    /\ chosen.for = what
    /\ IF chosen.take \in Takes THEN Append(chosen.take)
       ELSE UNCHANGED <<take, listed, released>>
    /\ chosen' = NoChoice
    /\ UNCHANGED <<day, share, live, sweep>>

(* lock_unarchived_generation: the chosen take is locked and refused when it   *)
(* is archived or gone.                                                        *)
AppendChosen(what) ==
    /\ chosen.for = what
    /\ IF Unarchived(chosen.take) THEN Append(chosen.take)
       ELSE UNCHANGED <<take, listed, released>>
    /\ chosen' = NoChoice
    /\ UNCHANGED <<day, share, live, sweep>>

(* add_song_to_playlist; add_album_to_playlist, which goes on without the take. *)
AppendSong == AppendChosen("playlist")
AppendFromAlbum == AppendChosen("album playlist")

(* remove_from_playlist, delete_playlist: a take leaves the playlist and stays kept. *)
RemoveEntry(t) ==
    /\ t \in listed
    /\ listed' = listed \ {t}
    /\ UNCHANGED <<day, take, share, live, chosen, sweep, released>>

-----------------------------------------------------------------------------
(* Sharing the album, the song and the playlist.                               *)

MayShare(page) == Cardinality(share \cup {page}) <= MaxShares

(* enable_sharing, disable_sharing *)
EnableSharing(page) == share' = share \cup {page}
DisableSharing(page) == share' = share \ {page}

(* api_share_album, api_unshare_album and the like *)
ShareAlbum == live /\ MayShare("album") /\ EnableSharing("album")
              /\ UNCHANGED <<day, take, listed, live, chosen, sweep, released>>
UnshareAlbum == live /\ DisableSharing("album")
                /\ UNCHANGED <<day, take, listed, live, chosen, sweep, released>>
SharePlaylist == MayShare("playlist") /\ EnableSharing("playlist")
                 /\ UNCHANGED <<day, take, listed, live, chosen, sweep, released>>
UnsharePlaylist == DisableSharing("playlist")
                   /\ UNCHANGED <<day, take, listed, live, chosen, sweep, released>>
UnshareSong == live /\ DisableSharing("song")
               /\ UNCHANGED <<day, take, listed, live, chosen, sweep, released>>

(* api_share_song, enable_song_sharing: the song is shared and its pick is      *)
(* looked up ...                                                               *)
ShareSong ==
    /\ live /\ chosen = NoChoice /\ MayShare("song")
    /\ EnableSharing("song")
    /\ chosen' = IF \E t \in Takes : take[t].picked
                 THEN [for |-> "song", take |-> CHOOSE t \in Takes : take[t].picked] ELSE NoChoice
    /\ UNCHANGED <<day, take, listed, live, sweep, released>>

(* ... then locked and kept, unless it is archived by then. *)
KeepChosen ==
    /\ chosen.for = "song"
    /\ take' = IF Unarchived(chosen.take) THEN [take EXCEPT ![chosen.take].kept = TRUE] ELSE take
    /\ released' = IF Unarchived(chosen.take) THEN released \ {chosen.take} ELSE released
    /\ chosen' = NoChoice
    /\ UNCHANGED <<day, listed, share, live, sweep>>

TrashOrRestore == live' = ~live /\ UNCHANGED <<day, take, listed, share, chosen, sweep, released>>

(* _picked_generation, by which the album and the song page name their take:   *)
(* the first playable pick in the order of the song's takes, newest first,     *)
(* else the playable take with the highest number.                             *)
PickedGeneration ==
    LET able == {t \in Takes : Playable(t)} IN
    IF Picks # {} THEN {Max(Picks)} ELSE IF able # {} THEN {Max(able)} ELSE {}

(* _presented_playlist_entries *)
PresentedEntries == IF live THEN listed ELSE {}

(* get_shared_album, get_shared_song, get_shared_generation and                *)
(* get_shared_playlist: the takes for which some public page offers an         *)
(* address.  A shared take is offered even when it is archived.                *)
OfferedByAlbum == IF live /\ "album" \in share THEN PickedGeneration ELSE {}
OfferedBySong == IF live /\ "song" \in share THEN PickedGeneration ELSE {}
OfferedByTake == {t \in Takes : live /\ take[t].shared}
OfferedByPlaylist ==
    IF "playlist" \in share THEN {t \in PresentedEntries : Playable(t)} ELSE {}

(* _shared_pick_take_stored_path: the song's playable pick, or without one the *)
(* playable take with the highest number.                                      *)
PickPath(t) ==
    /\ Playable(t)
    /\ \/ take[t].picked /\ t = Max(Picks)
       \/ Picks = {} /\ t = Max({u \in Takes : Playable(u)})

\* Mutant: the playlist's audio does not ask whether the song is in the trash.
ServedAnyway(t) == "playlist" \in share /\ Playable(t) /\ t \in listed

(* shared_playlist_take_stored_path *)
ServedByPlaylist(t) ==
    "playlist" \in share /\ live /\ Playable(t) /\ t \in listed

(* get_shared_audio, get_shared_song_audio, get_shared_gen_audio *)
ServedByAlbum(t) == "album" \in share /\ live /\ PickPath(t)
ServedBySong(t) == "song" \in share /\ live /\ PickPath(t)
ServedByTake(t) == t \in Takes /\ live /\ take[t].shared

(* _offered_cover, for the pages of the album, the song, a take and the        *)
(* playlist: covers whose file exists, of what the page presents.              *)
CoversOfAlbum == IF live /\ "album" \in share THEN {"album"} \cap Covered ELSE {}
CoversOfSong == IF live /\ "song" \in share THEN {"song", "album"} \cap Covered ELSE {}
CoversOfTake(t) == IF t \in OfferedByTake THEN {"album"} \cap Covered ELSE {}

(* _shared_playlist_cover, _shared_entry_album_cover *)
CoversOfPlaylist ==
    IF "playlist" \notin share THEN {}
    ELSE ({"playlist"} \cup (IF PresentedEntries # {} THEN {"album"} ELSE {})) \cap Covered

(* _shared_cover_response: the cover of the entity the link resolves to. *)
CoverServed(found, what) == found /\ what \in Covered

(* get_shared_album_cover, get_shared_song_cover, get_shared_song_album_cover, *)
(* get_shared_generation_album_cover, get_shared_playlist_cover and            *)
(* get_shared_playlist_album_cover                                             *)
AlbumCoverServed == CoverServed("album" \in share /\ live, "album")
SongCoverServed == CoverServed("song" \in share /\ live, "song")
SongAlbumCoverServed == CoverServed("song" \in share /\ live, "album")
TakeAlbumCoverServed(t) == CoverServed(t \in Takes /\ live /\ take[t].shared, "album")
PlaylistCoverServed == CoverServed("playlist" \in share, "playlist")
PlaylistAlbumCoverServed ==
    CoverServed("playlist" \in share /\ \E t \in listed : live, "album")

-----------------------------------------------------------------------------
(* The daily retention run (cleanup.py).                                       *)

(* _expired_for_archive_filters *)
Archivable(t) == t \in Takes /\ ~take[t].picked /\ ~take[t].kept /\ ~Archived(t)

(* The take is the source of another one that is still there. *)
IsAnchor(t) == t \in Anchors /\ \E u \in Takes : u > t

(* _expired_for_delete_filters *)
Deletable(t, cutoff) ==
    /\ t \in Takes /\ Archived(t) /\ take[t].at < cutoff
    /\ ~take[t].picked /\ ~take[t].kept
    /\ ~IsAnchor(t)

(* run_generation_retention: both stages are listed first. *)
BeginSweep ==
    /\ ~sweep.on
    /\ sweep' = [on |-> TRUE, cutoff |-> day - FinalDays,
                 archive |-> {t \in Takes : Archivable(t) /\ 0 < day - RetentionDays},
                 delete |-> {t \in Takes : Deletable(t, day - FinalDays)}]
    /\ UNCHANGED <<day, take, listed, share, live, chosen, released>>

(* archive_generation: one transaction, which asks again. *)
ArchiveNext ==
    /\ sweep.archive # {}
    /\ LET t == Min(sweep.archive) IN
         /\ take' = IF Archivable(t) THEN [take EXCEPT ![t].at = day] ELSE take
         /\ sweep' = [sweep EXCEPT !.archive = @ \ {t}]
    /\ UNCHANGED <<day, listed, share, live, chosen, released>>

\* Mutant: what was listed is deleted without asking again.
DeleteListed ==
    /\ sweep.archive = {} /\ sweep.delete # {}
    /\ LET t == Min(sweep.delete) IN
         /\ IF t \in Takes THEN Without(t) ELSE UNCHANGED <<take, listed>>
         /\ sweep' = [sweep EXCEPT !.delete = @ \ {t}]
    /\ UNCHANGED <<day, share, live, chosen, released>>

(* delete_expired_generation: likewise, after all the archiving. *)
DeleteNext ==
    /\ sweep.archive = {} /\ sweep.delete # {}
    /\ LET t == Min(sweep.delete) IN
         /\ IF Deletable(t, sweep.cutoff) THEN Without(t) ELSE UNCHANGED <<take, listed>>
         /\ sweep' = [sweep EXCEPT !.delete = @ \ {t}]
    /\ UNCHANGED <<day, share, live, chosen, released>>

EndSweep ==
    /\ sweep.on /\ sweep.archive = {} /\ sweep.delete = {}
    /\ sweep' = NoSweep
    /\ UNCHANGED <<day, take, listed, share, live, chosen, released>>

NextDay ==
    /\ day < MaxDay /\ ~sweep.on
    /\ day' = day + 1
    /\ UNCHANGED <<take, listed, share, live, chosen, sweep, released>>

Mark(t) ==
    \/ PickTake(t) \/ UnpickTake(t) \/ KeepTake(t) \/ UnkeepTake(t) \/ UnarchiveTake(t)
    \/ ShareTake(t) \/ UnshareTake(t) \/ DeleteTake(t) \/ AddTake(t)
    \/ RemoveEntry(t)

Next ==
    \/ \E t \in TakeIds : Mark(t)
    \/ AddSong \/ AddAlbum \/ AppendSong \/ AppendFromAlbum
    \/ ShareAlbum \/ UnshareAlbum \/ ShareSong \/ KeepChosen \/ UnshareSong
    \/ SharePlaylist \/ UnsharePlaylist
    \/ TrashOrRestore
    \/ BeginSweep \/ ArchiveNext \/ DeleteNext \/ EndSweep \/ NextDay

Spec == Init /\ [][Next]_vars

-----------------------------------------------------------------------------
(* A take or cover that a public page offers is exactly one its own endpoint   *)
(* serves, for each kind of share, and no take of a song in the trash is       *)
(* public.                                                                     *)
PublicIsPresented ==
    /\ ("album" \in CoversOfAlbum) <=> AlbumCoverServed
    /\ ("song" \in CoversOfSong) <=> SongCoverServed
    /\ ("album" \in CoversOfSong) <=> SongAlbumCoverServed
    /\ ("playlist" \in CoversOfPlaylist) <=> PlaylistCoverServed
    /\ ("album" \in CoversOfPlaylist) <=> PlaylistAlbumCoverServed
    /\ \A t \in TakeIds :
        /\ ("album" \in CoversOfTake(t)) <=> TakeAlbumCoverServed(t)
        /\ (t \in OfferedByAlbum) <=> ServedByAlbum(t)
        /\ (t \in OfferedBySong) <=> ServedBySong(t)
        /\ (t \in OfferedByTake) <=> ServedByTake(t)
        /\ (t \in OfferedByPlaylist) <=> ServedByPlaylist(t)
        /\ ~live => ~ServedByAlbum(t) /\ ~ServedBySong(t) /\ ~ServedByTake(t) /\ ~ServedByPlaylist(t)

(* A take that a musician listed or shared stays playable: retention archives  *)
(* it only after the musician took its Keep away, whatever was archived        *)
(* between choosing a take and listing it.                                     *)
ListedIsPlayable ==
    \A t \in Takes :
        (take[t].shared \/ t \in listed) /\ Archived(t) => t \in released

(* Retention deletes a take only when at that moment it is no Pick, no Keep    *)
(* and no source of another take, and has been archived for the whole final    *)
(* window without a break.                                                     *)
RetentionSparesMarks ==
    [][\A t \in Takes :
         (take'[t] = None /\ sweep' # sweep) =>
             /\ ~take[t].picked /\ ~take[t].kept /\ ~IsAnchor(t)
             /\ Archived(t) /\ day - take[t].at > FinalDays]_vars

=============================================================================
