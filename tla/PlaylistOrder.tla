--------------------------- MODULE PlaylistOrder ---------------------------
(* The positions of a playlist's entries (db/queries/playlists.py): appending, *)
(* removing and moving rewrite the positions of the others.  Requests of one   *)
(* playlist are taken one after the other.                                     *)
EXTENDS Integers, FiniteSets, FiniteSetsExt

CONSTANTS
    EntryIds,   \* playlist entries
    MaxPos,     \* bound on the positions a client asks for
    None

VARIABLE pos    \* pos[e]: position of an entry, None when it does not exist

(* None is no position. *)
OrderConstants == MaxPos \in Nat /\ None \notin Nat

Entries == {e \in EntryIds : pos[e] # None}

(* create_playlist, api_create_playlist *)
Init == pos = [e \in EntryIds |-> None]

(* _next_position *)
NextPosition == IF Entries = {} THEN 0 ELSE 1 + Max({pos[e] : e \in Entries})

(* add_generation_to_playlist *)
AddEntry(e) ==
    /\ pos[e] = None /\ NextPosition <= MaxPos
    /\ pos' = [pos EXCEPT ![e] = NextPosition]

(* api_remove_from_playlist, remove_from_playlist: later entries move up. *)
RemoveEntry(e) ==
    /\ e \in Entries
    /\ pos' = [f \in EntryIds |->
                 IF f = e THEN None
                 ELSE IF f \in Entries /\ pos[f] > pos[e] THEN pos[f] - 1 ELSE pos[f]]

(* A deleted take takes its entries with it and leaves a gap. *)
Cascade(e) == e \in Entries /\ pos' = [pos EXCEPT ![e] = None]

\* Mutant: the entry at the new place does not make room.
ShiftedShort(e, new) ==
    [f \in EntryIds |->
       IF f \notin Entries THEN None
       ELSE IF f = e THEN new
       ELSE IF new < pos[f] /\ pos[f] < pos[e] THEN pos[f] + 1
       ELSE IF pos[e] < pos[f] /\ pos[f] <= new THEN pos[f] - 1
       ELSE pos[f]]

(* reorder_playlist_entry: the entries between the old and the new place make  *)
(* room; the new place may lie past the end.                                   *)
Shifted(e, new) ==
    [f \in EntryIds |->
       IF f \notin Entries THEN None
       ELSE IF f = e THEN new
       ELSE IF new <= pos[f] /\ pos[f] < pos[e] THEN pos[f] + 1
       ELSE IF pos[e] < pos[f] /\ pos[f] <= new THEN pos[f] - 1
       ELSE pos[f]]

(* api_reorder_playlist_entry *)
MoveEntry(e, new) == e \in Entries /\ new # pos[e] /\ pos' = Shifted(e, new)

Next ==
    \/ \E e \in EntryIds : AddEntry(e) \/ RemoveEntry(e) \/ Cascade(e)
    \/ \E e \in EntryIds, new \in 0..MaxPos : MoveEntry(e, new)

-----------------------------------------------------------------------------
(* No two entries of a playlist ever share a position, and a change of one     *)
(* entry leaves the others in the order they were in, gaps and positions past  *)
(* the end included.                                                           *)
PlaylistOrderStands ==
    [][/\ \A d, e \in Entries' : d # e => pos'[d] # pos'[e]
       /\ \E m \in EntryIds : \A d, e \in (Entries \cap Entries') \ {m} :
             pos[d] < pos[e] => pos'[d] < pos'[e]]_pos

=============================================================================
