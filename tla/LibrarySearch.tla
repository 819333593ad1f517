--------------------------- MODULE LibrarySearch ---------------------------
(* Paging through a library search (library_api.py, library_cursor.py and      *)
(* db/queries/library.py): albums and songs are two queries that are cut at    *)
(* the same cursor, merged and cut again, while rows come, go and are renamed. *)
(* Titles and times are numbers, ordered the same way by the database and by   *)
(* the merge (a database that collates by code point).                         *)
EXTENDS Integers, Sequences, FiniteSets, Functions

CONSTANTS
    Items,      \* search hits: [type, id]
    Keys,       \* values of the sort column
    Limit,      \* hits on a page
    MaxEdits,   \* bound on the changes made while a search is paged through
    None

VARIABLES
    sort,       \* the sort the search was started with
    key,        \* key[i]: sort value of an item, or None when it is not in the library
    cursor,     \* the signed cursor the page handed out, None before the first page
    shown,      \* hits shown so far, in order
    more,       \* whether another page is offered
    steady,     \* history: items that were there, unchanged, from the first page on
    edits

vars == <<sort, key, cursor, shown, more, steady, edits>>

Sorts == {"title", "oldest", "newest"}
Present == {i \in Items : key[i] # None}

(* What the search assumes of its constants: nothing else is its null value. *)
Cursors == [sort : Sorts, rank : {0, 1}, value : Keys, id : Int]
SearchConstants ==
    /\ Items \subseteq [type : {"album", "song"}, id : Int] /\ IsFiniteSet(Items)
    /\ Keys \subseteq Int /\ None \notin Int \cup Cursors
    /\ Limit \in Nat \ {0} /\ MaxEdits \in Nat

Init ==
    /\ sort \in Sorts
    /\ key \in [Items -> Keys \cup {None}]
    /\ cursor = None /\ shown = <<>> /\ more = TRUE
    /\ steady = Present
    /\ edits = 0

(* _hit_type; "album" < "song". *)
TypeRank(i) == IF i.type = "album" THEN 0 ELSE 1

(* cursor_from_hit, encode_library_cursor and decode_library_cursor: what of   *)
(* the last hit the client carries to the next page; the signature binds it to *)
(* the query and the sort, so that it comes back as it was made.               *)
CursorFromHit(i) == [sort |-> sort, rank |-> TypeRank(i), value |-> key[i], id |-> i.id]

(* _ascending_keyset_clause *)
AscendingKeyset(i, c) ==
    \/ key[i] > c.value
    \/ key[i] = c.value /\ TypeRank(i) > c.rank
    \/ key[i] = c.value /\ TypeRank(i) = c.rank /\ i.id > c.id

\* Mutant: the newest-first clause keeps the ascending comparison of ids.
DescendingById(i, c) ==
    \/ key[i] < c.value
    \/ key[i] = c.value /\ TypeRank(i) > c.rank
    \/ key[i] = c.value /\ TypeRank(i) = c.rank /\ i.id > c.id

(* _descending_keyset_clause: the types keep their order, the ids do not. *)
DescendingKeyset(i, c) ==
    \/ key[i] < c.value
    \/ key[i] = c.value /\ TypeRank(i) > c.rank
    \/ key[i] = c.value /\ TypeRank(i) = c.rank /\ i.id < c.id

(* _keyset_clause *)
After(i, c) ==
    \/ c = None
    \/ c # None /\ (IF sort = "newest" THEN DescendingKeyset(i, c) ELSE AscendingKeyset(i, c))

(* apply_library_sort: the order of one query, within a type. *)
SortedBefore(i, j) ==
    IF sort = "newest" THEN key[i] > key[j] \/ (key[i] = key[j] /\ i.id > j.id)
    ELSE key[i] < key[j] \/ (key[i] = key[j] /\ i.id < j.id)

(* _hit_before: the order of the merge. *)
HitBefore(i, j) ==
    IF key[i] # key[j] THEN (IF sort = "newest" THEN key[i] > key[j] ELSE key[i] < key[j])
    ELSE IF TypeRank(i) # TypeRank(j) THEN TypeRank(i) < TypeRank(j)
    ELSE SortedBefore(i, j)

(* The first n of a query's rows. *)
FirstOf(S, n) == {i \in S : Cardinality({j \in S : SortedBefore(j, i)}) < n}

(* _matching_albums, _matching_songs: one row more than the page holds. *)
MatchingAlbums == FirstOf({i \in Present : i.type = "album" /\ After(i, cursor)}, Limit + 1)
MatchingSongs == FirstOf({i \in Present : i.type = "song" /\ After(i, cursor)}, Limit + 1)

(* _merge_hits, _dedupe_hits: the rows of both queries, and where each comes. *)
MergeHits == MatchingAlbums \cup MatchingSongs
Place(i) == Cardinality({j \in MergeHits : HitBefore(j, i)}) + 1

(* search_library *)
PageSize == IF Cardinality(MergeHits) > Limit THEN Limit ELSE Cardinality(MergeHits)
Page == [n \in 1..PageSize |-> CHOOSE i \in MergeHits : Place(i) = n]

(* api_library_search: the client asks for the next page with the cursor of    *)
(* the last one.                                                               *)
NextPage ==
    /\ more
    /\ shown' = shown \o Page
    /\ more' = (Cardinality(MergeHits) > Limit)
    /\ cursor' = IF more' THEN CursorFromHit(Page[PageSize]) ELSE None
    /\ UNCHANGED <<sort, key, steady, edits>>

(* Rows that match come, go (trash, archive, delete) or change their title. *)
Edit(i, k) ==
    /\ more /\ cursor # None /\ edits < MaxEdits /\ k # key[i]
    /\ key' = [key EXCEPT ![i] = k]
    /\ steady' = steady \ {i}
    /\ edits' = edits + 1
    /\ UNCHANGED <<sort, cursor, shown, more>>

Next == NextPage \/ \E i \in Items, k \in Keys \cup {None} : Edit(i, k)

-----------------------------------------------------------------------------
(* Whatever changes between the pages, a hit that stays as it is is shown      *)
(* exactly once by the end of the search, and such hits are shown in the order *)
(* of the sort.                                                                *)
SteadyHitsShownOnce ==
    /\ ~more => steady \subseteq Range(shown)
    /\ \A m, n \in 1..Len(shown) :
         (m < n /\ shown[m] \in steady /\ shown[n] \in steady) => HitBefore(shown[m], shown[n])

=============================================================================
