---- MODULE MCLibrary ----
(* Five parts of the library and the conversation about it, which share no     *)
(* state beyond what each module holds, checked side by side: a behaviour      *)
(* works on one of them.                                                       *)
EXTENDS Naturals, TLC

CONSTANTS Words, Params, Savers, Jobs, MaxVersions, MaxTakes,
          N, Anchors, MaxShares, RetentionDays, FinalDays, MaxDay, Covered,
          EntryIds, MaxPos,
          Items, Keys, Limit, MaxEdits,
          AlbumIds, SongIds, Titles, MaxCounter, Window, MaxNow,
          Texts, Songs, NTurns, Budgets, MaxConversations, MaxFaults,
          None, Gone, Keep

VARIABLES part,
          version, made, take, taken, job, lock, save, drop, trashed,
          day, mark, listed, share, live, chosen, sweep, released,
          now, album, song, ask, work, took,
          pos,
          sort, key, cursor, shown, more, steady, edits,
          conv, convs, written, about, budget, chat, turn, loop, serving, faults

T == INSTANCE SongTakes
C == INSTANCE Curation WITH take <- mark
A == INSTANCE AlbumTrash WITH Albums <- AlbumIds, Songs <- SongIds
P == INSTANCE PlaylistOrder
L == INSTANCE LibrarySearch
H == INSTANCE Conversation WITH made <- convs, song <- about, job <- chat, up <- serving

(* What the proofs assume of the constants holds here. *)
ASSUME PartConstants ==
    T!SongConstants /\ C!TakeConstants /\ A!AlbumConstants /\ P!OrderConstants /\ L!SearchConstants
    /\ H!ChatConstants

(* An album and two songs that match. *)
MCItems == {[type |-> "album", id |-> 1], [type |-> "song", id |-> 1], [type |-> "song", id |-> 2]}

Sym == Permutations(Savers)

takesVars == <<version, made, take, taken, job, lock, save, drop, trashed>>
curationVars == <<day, mark, listed, share, live, chosen, sweep, released>>
albumVars == <<now, album, song, ask, work, took>>
searchVars == <<sort, key, cursor, shown, more, steady, edits>>
chatVars == <<conv, convs, written, about, budget, chat, turn, loop, serving, faults>>
vars == <<part, takesVars, curationVars, albumVars, pos, searchVars, chatVars>>

Init ==
    /\ part \in {"takes", "curation", "albums", "playlist", "search", "chat"}
    /\ T!Init /\ C!Init /\ A!Init /\ P!Init /\ L!Init /\ H!Init
    /\ part # "search" => sort = "title" /\ \A i \in DOMAIN key : key[i] = None
    /\ part # "chat" => budget = 1
    /\ part # "takes" => version[1].words = CHOOSE w \in Words : TRUE
    /\ part # "takes" => version[1].params = CHOOSE p \in Params : TRUE

Next ==
    \/ part = "takes" /\ T!Next /\ UNCHANGED <<part, curationVars, albumVars, pos, searchVars, chatVars>>
    \/ part = "curation" /\ C!Next /\ UNCHANGED <<part, takesVars, albumVars, pos, searchVars, chatVars>>
    \/ part = "albums" /\ A!Next /\ UNCHANGED <<part, takesVars, curationVars, pos, searchVars, chatVars>>
    \/ part = "playlist" /\ P!Next /\ UNCHANGED <<part, takesVars, curationVars, albumVars, searchVars, chatVars>>
    \/ part = "search" /\ L!Next /\ UNCHANGED <<part, takesVars, curationVars, albumVars, pos, chatVars>>
    \/ part = "chat" /\ H!Next /\ UNCHANGED <<part, takesVars, curationVars, albumVars, pos, searchVars>>

Spec == Init /\ [][Next]_vars

-----------------------------------------------------------------------------
(* A take keeps the words it was sung with, and the version under a queued or  *)
(* running job is not deleted (SongTakes).                                     *)
WordsStand == T!TakeKeepsItsWords /\ T!JobKeepsItsVersion
(* A public page offers exactly what its endpoints serve, and a listed or      *)
(* shared take stays playable (Curation).                                      *)
PublicIsTrue == C!PublicIsPresented /\ C!ListedIsPlayable
(* Restoring an album brings back what its trashing took, and a reserved song  *)
(* address is still free when it is written (AlbumTrash).                      *)
TrashIsTrue == A!TrashIntentStands /\ []A!SlugsStayUnique
(* A step leaves what it was not asked to change: a save undoes nothing of the *)
(* one it waited for (SongTakes), retention deletes no Pick, Keep or source    *)
(* take (Curation), changing an entry of a playlist keeps the order of the     *)
(* others (PlaylistOrder).                                                     *)
OthersStand == T!NoEditLost /\ C!RetentionSparesMarks /\ P!PlaylistOrderStands
(* A hit that stays as it is is shown exactly once (LibrarySearch). *)
SteadyHitsShownOnce == L!SteadyHitsShownOnce
(* A message is answered once, trying again repeats none, and what is sent to  *)
(* the agent tells of each message once (Conversation).                        *)
HistoryIsTrue == H!AnsweredOnce /\ H!TryAgainIsOneMessage /\ H!HistoryCoveredOnce
====
