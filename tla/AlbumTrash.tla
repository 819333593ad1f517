----------------------------- MODULE AlbumTrash -----------------------------
(* Albums and songs in and out of the trash, and the addresses of songs within *)
(* their album (db/queries/albums.py, songs.py, api_helpers.py, cleanup.py).   *)
(* A create, rename or move reads first, reserves the song's slug under an     *)
(* advisory lock and writes it; nothing locks the album row.                   *)
(* Every trashing gets a moment of its own.                                    *)
EXTENDS Integers, FiniteSets, FiniteSetsExt

CONSTANTS
    Albums, Songs,
    Titles,         \* titles, each standing for its slug
    MaxCounter,     \* bound on the -2, -3 ... suffix of a slug
    Window,         \* settings.final_deletion_days
    MaxNow,         \* bound on the clock
    None, Gone

VARIABLES
    now,
    album,      \* album[a]: its deleted_at (None: not in the trash), Gone when it is purged
    song,       \* song[s]: its album, title, slug and deleted_at; Gone: no row
    ask,        \* a request that waits for the slug lock
    work,       \* the request that holds it
    took        \* history: the songs the last trashing of an album took with it

vars == <<now, album, song, ask, work, took>>

(* A slug: a title and a counter.  A song's row. *)
Slugs == Titles \X (1..MaxCounter)
Song == [album : Albums, title : Titles, slug : Slugs, at : Nat \cup {None}]

(* What the rows need of the constants: there are more counters than other     *)
(* songs, so that the bound on them never decides, and None and Gone are no    *)
(* moment and no row.                                                          *)
AlbumConstants ==
    /\ MaxCounter \in Nat /\ IsFiniteSet(Songs) /\ Cardinality(Songs) <= MaxCounter
    /\ Window \in Nat
    /\ None # Gone /\ None \notin Nat /\ Gone \notin Nat \cup Song

Rows == {s \in Songs : song[s] # Gone}
NoWork == [for |-> "none"]

(* The filter that hides what is in the trash from every other query. *)
InTrash(at) == at \notin {None, Gone}
SongsOf(a) == {s \in Rows : song[s].album = a}

(* api_create_album: albums are there from the start. *)
Init ==
    /\ now = 0
    /\ album = [a \in Albums |-> None]
    /\ song = [s \in Songs |-> Gone]
    /\ ask = NoWork /\ work = NoWork
    /\ took = [a \in Albums |-> {}]

-----------------------------------------------------------------------------
(* Slugs.                                                                      *)

\* Mutant: a song in the trash gives up its slug.
TakenByLive(a, slug, mine) ==
    \E s \in SongsOf(a) \ mine : song[s].slug = slug /\ song[s].at = None

(* unique_song_slug.is_taken: songs in the trash keep their slug. *)
IsTaken(a, slug, mine) == \E s \in SongsOf(a) \ mine : song[s].slug = slug

(* _first_free_slug: the title's own slug, else with the first free counter. *)
FirstFreeSlug(a, t, mine) ==
    <<t, Min({n \in 1..MaxCounter : ~IsTaken(a, <<t, n>>, mine)})>>

(* get_album, check_album_access: an album in the trash is not found. *)
OpenAlbum(a) == album[a] = None

(* check_song_access *)
OpenSong(s) == s \in Rows /\ song[s].at = None

(* What a request read before it waits for the lock. *)
Ask(kind, s, a, t) ==
    /\ ask = NoWork
    /\ ask' = [for |-> kind, song |-> s, album |-> a, title |-> t]
    /\ UNCHANGED <<now, album, song, work, took>>

(* api_create_song, api_rename_song and api_move_song up to the slug: a rename *)
(* keeps the album it read the song in.                                        *)
AskCreate(s, a, t) == song[s] = Gone /\ OpenAlbum(a) /\ Ask("create", s, a, t)
AskRename(s, t) == OpenSong(s) /\ Ask("rename", s, song[s].album, t)
AskMove(s, a) == OpenSong(s) /\ OpenAlbum(a) /\ Ask("move", s, a, song[s].title)

(* unique_song_slug, _acquire_unique_slug: the reads end, the advisory lock is *)
(* taken and the slug is chosen.                                               *)
Reserve ==
    /\ ask # NoWork /\ work = NoWork
    /\ work' = [for |-> ask.for, song |-> ask.song, album |-> ask.album, title |-> ask.title,
                slug |-> FirstFreeSlug(ask.album, ask.title, {ask.song})]
    /\ ask' = NoWork
    /\ UNCHANGED <<now, album, song, took>>

(* create_song *)
CreateSong ==
    /\ work.for = "create"
    /\ song' = IF song[work.song] = Gone /\ OpenAlbum(work.album)
               THEN [song EXCEPT ![work.song] = [album |-> work.album, title |-> work.title,
                                                 slug |-> work.slug, at |-> None]]
               ELSE song
    /\ work' = NoWork
    /\ UNCHANGED <<now, album, ask, took>>

(* rename_song: the song is locked and found again; a slug that is taken in    *)
(* the album the song has moved to meanwhile fails on the unique index.        *)
RenameSong ==
    LET s == work.song IN
    /\ work.for = "rename"
    /\ song' = IF OpenSong(s) /\ ~IsTaken(song[s].album, work.slug, {s})
               THEN [song EXCEPT ![s].title = work.title, ![s].slug = work.slug] ELSE song
    /\ work' = NoWork
    /\ UNCHANGED <<now, album, ask, took>>

(* move_song: song and album are found again. *)
MoveSong ==
    LET s == work.song IN
    /\ work.for = "move"
    /\ song' = IF OpenSong(s) /\ OpenAlbum(work.album) /\ song[s].album # work.album
               THEN [song EXCEPT ![s].album = work.album, ![s].slug = work.slug] ELSE song
    /\ work' = NoWork
    /\ UNCHANGED <<now, album, ask, took>>

-----------------------------------------------------------------------------
(* Trash, restore, purge.                                                      *)

LiveSongs(a) == {s \in SongsOf(a) : song[s].at = None}

(* soft_delete_album: one moment for the album and the songs that are live. *)
Trashed(a) ==
    /\ album' = [album EXCEPT ![a] = now]
    /\ song' = [s \in Songs |-> IF s \in LiveSongs(a) THEN [song[s] EXCEPT !.at = now] ELSE song[s]]

(* api_delete_album *)
TrashAlbum(a) ==
    /\ OpenAlbum(a) /\ now < MaxNow
    /\ Trashed(a)
    /\ took' = [took EXCEPT ![a] = LiveSongs(a)]
    /\ now' = now + 1
    /\ UNCHANGED <<ask, work>>

(* api_delete_song, soft_delete_song *)
TrashSong(s) ==
    /\ OpenSong(s) /\ now < MaxNow
    /\ song' = [song EXCEPT ![s].at = now]
    /\ now' = now + 1
    /\ UNCHANGED <<album, ask, work, took>>

(* RestoreWindowExpiredError *)
WithinWindow(at) == now - at <= Window

\* Mutant: every song of the album comes back with it.
RestoredAll(a) == {s \in SongsOf(a) : InTrash(song[s].at)}

(* restore_album: the songs that share the album's moment come back with it. *)
RestoredWith(a) == {s \in SongsOf(a) : song[s].at = album[a]}

(* api_restore_album *)
RestoreAlbum(a) ==
    /\ InTrash(album[a]) /\ WithinWindow(album[a])
    /\ song' = [s \in Songs |-> IF s \in RestoredWith(a) THEN [song[s] EXCEPT !.at = None] ELSE song[s]]
    /\ album' = [album EXCEPT ![a] = None]
    /\ UNCHANGED <<now, ask, work, took>>

(* api_restore_song, restore_song: refused while the album is in the trash. *)
RestoreSong(s) ==
    /\ s \in Rows /\ InTrash(song[s].at) /\ WithinWindow(song[s].at)
    /\ OpenAlbum(song[s].album)
    /\ song' = [song EXCEPT ![s].at = None]
    /\ UNCHANGED <<now, album, ask, work, took>>

(* list_expired_albums, list_expired_songs *)
Expired(at) == InTrash(at) /\ at < now - Window
ExpiredAlbums == {a \in Albums : Expired(album[a])}
OrphanSongs == {s \in Rows : Expired(song[s].at) /\ song[s].album \notin ExpiredAlbums}

(* delete_album *)
DeletedWithAlbum == {s \in Rows : song[s].album \in ExpiredAlbums}

(* run_cleanup_expired, _purge_expired: an expired album goes with all its     *)
(* songs, then the songs trashed on their own.                                 *)
Purge ==
    /\ ExpiredAlbums # {} \/ OrphanSongs # {}
    /\ album' = [a \in Albums |-> IF a \in ExpiredAlbums THEN Gone ELSE album[a]]
    /\ song' = [s \in Songs |->
                  IF s \in OrphanSongs \cup DeletedWithAlbum THEN Gone ELSE song[s]]
    /\ UNCHANGED <<now, ask, work, took>>

Tick == now < MaxNow /\ now' = now + 1 /\ UNCHANGED <<album, song, ask, work, took>>

Next ==
    \/ \E s \in Songs, a \in Albums, t \in Titles : AskCreate(s, a, t)
    \/ \E s \in Songs, t \in Titles : AskRename(s, t)
    \/ \E s \in Songs, a \in Albums : AskMove(s, a)
    \/ Reserve \/ CreateSong \/ RenameSong \/ MoveSong
    \/ \E a \in Albums : TrashAlbum(a) \/ RestoreAlbum(a)
    \/ \E s \in Songs : TrashSong(s) \/ RestoreSong(s)
    \/ Purge \/ Tick

-----------------------------------------------------------------------------
(* A slug that a create or a move has reserved is still free in its album when *)
(* it is written, songs in the trash included, so that neither the write nor a *)
(* later restore collides; no two songs of an album ever share one.            *)
SlugsStayUnique ==
    /\ \A s, r \in Rows : s # r /\ song[s].album = song[r].album => song[s].slug # song[r].slug
    /\ work.for \in {"create", "move"} =>
         \A s \in SongsOf(work.album) \ {work.song} : song[s].slug # work.slug

(* A restored album gets back exactly the songs its trashing took with it (a   *)
(* song trashed before stays in the trash), and a song trashed on its own      *)
(* leaves the trash only by its own restore.                                   *)
TrashIntentStands ==
    [][\A a \in Albums : (InTrash(album[a]) /\ album'[a] = None) =>
         {s \in Rows : InTrash(song[s].at) /\ song'[s].at = None} = took[a]]_vars

=============================================================================
