------------------------------ MODULE PoolQueue ------------------------------
(* The queue of a library pool (queue_streams.py, library_api.py): which takes *)
(* it plays, in which order, from which start, and which it had to skip.  One  *)
(* request is one step from an input to its answer.                            *)
EXTENDS Naturals, Sequences, SequencesExt, FiniteSets, Selection

CONSTANTS
    NumTakes,       \* takes in library order: album, track, newest first
    ScanLimit,      \* LIBRARY_QUEUE_STREAM_SCAN_LIMIT
    PlayableLimit,  \* QUEUE_STREAM_MAX_TRACKS + 1
    None, Refused  \* no value yet; the request is refused

(* What the proofs assume of the constants. *)
PoolConstants ==
    /\ NumTakes \in Nat /\ ScanLimit \in Nat \ {0} /\ PlayableLimit \in Nat \ {0}
    /\ None \notin 1..NumTakes

TakeIds == 1..NumTakes
Pools == {"mix", "picks", "keeps", "all"}
Marks == {"picked", "kept", "plain", "archived"}

VARIABLES
    lib,        \* lib[t]: a take's mark and whether its file can be read
    ask,        \* pool, start and shuffle of the request
    answer      \* the queue, the skipped takes, and whether all were scanned

vars == <<lib, ask, answer>>

(* generation_matches_pool *)
Matches(t, pool) ==
    /\ lib[t].mark # "archived"
    /\ CASE pool = "mix" -> lib[t].mark \in {"picked", "kept"}
         [] pool = "picks" -> lib[t].mark = "picked"
         [] pool = "keeps" -> lib[t].mark = "kept"
         [] pool = "all" -> TRUE

(* collect_library_pool_generations: a start outside the pool comes first. *)
Collected(pool, start) ==
    LET members == Selected([t \in TakeIds |-> t], {t \in TakeIds : Matches(t, pool)}) IN
    IF start = None \/ start \in ToSet(members) THEN members ELSE <<start>> \o members

Position(queue, t) == CHOOSE i \in 1..Len(queue) : queue[i] = t

\* Mutant: the takes before the start are dropped.
RotatedShort(queue, start) == SubSeq(queue, Position(queue, start), Len(queue))

(* _rotate_sources_to_start *)
Rotated(queue, start) ==
    LET i == Position(queue, start) IN SubSeq(queue, i, Len(queue)) \o SubSeq(queue, 1, i - 1)

Orders(S) == {q \in [1..Cardinality(S) -> S] : \A i, j \in 1..Cardinality(S) : i # j => q[i] # q[j]}

(* shuffle_library_sources: the start stays first, the rest in any order. *)
Shuffles(queue, start) ==
    IF start = None THEN Orders(ToSet(queue))
    ELSE {<<start>> \o q : q \in Orders(ToSet(queue) \ {start})}

(* _order_library_candidates *)
Arrangements(queue, start, shuffle) ==
    IF shuffle THEN Shuffles(queue, start)
    ELSE {IF start = None THEN queue ELSE Rotated(queue, start)}

(* _library_skip: no path, no file, or none that can be read. *)
Reads(t) == lib[t].readable

PlayableAmong(queue, n) == Cardinality({i \in 1..n : Reads(queue[i])})

(* _scan_library_candidates: how many are looked at before a limit is reached. *)
Scanned(queue) ==
    Cardinality({i \in 1..Len(queue) : i <= ScanLimit /\ PlayableAmong(queue, i - 1) < PlayableLimit})

(* resolve_library_pool_membership; an error is the answer to a start that is  *)
(* archived or cannot be read, and to a pool with nothing to play.             *)
Membership(start, collected, queue) ==
    LET seen == SubSeq(queue, 1, Scanned(queue))
        sources == Selected(seen, {i \in DOMAIN seen : Reads(seen[i])})
        skipped == Selected(collected, {i \in DOMAIN collected : collected[i] \in ToSet(seen) /\ ~Reads(collected[i])}) IN
    IF (start # None /\ start \in ToSet(skipped)) \/ sources = <<>> THEN Refused
    ELSE [sources |-> sources, skipped |-> skipped, complete |-> Len(seen) = Len(queue)]

(* api_library_pool_queue *)
PoolQueue ==
    /\ answer = None
    /\ IF ask.start # None /\ lib[ask.start].mark = "archived" THEN answer' = Refused
       ELSE LET collected == Collected(ask.pool, ask.start) IN
            \E queue \in Arrangements(collected, ask.start, ask.shuffle) :
                answer' = Membership(ask.start, collected, queue)
    /\ UNCHANGED <<lib, ask>>

Init ==
    /\ lib \in [TakeIds -> [mark : Marks, readable : BOOLEAN]]
    /\ ask \in [pool : Pools, start : TakeIds \cup {None}, shuffle : BOOLEAN]
    /\ answer = None

Next == PoolQueue

-----------------------------------------------------------------------------
(* A queue starts where it was asked to, plays nothing twice, and between what *)
(* it plays and what it names as skipped leaves out no take of the pool unless *)
(* it says the scan ended early; unshuffled it keeps the library's order from  *)
(* the start on round.                                                         *)
PoolIsWhole ==
    answer \notin {None, Refused} =>
        LET pool == {t \in TakeIds : Matches(t, ask.pool)} \cup ({ask.start} \ {None})
            played == ToSet(answer.sources)
            skipped == ToSet(answer.skipped) IN
        /\ ask.start # None => answer.sources[1] = ask.start
        /\ Cardinality(played) = Len(answer.sources)
        /\ played \cup skipped \subseteq pool /\ \A t \in skipped : ~lib[t].readable
        /\ answer.complete => played \cup skipped = pool
        /\ ~answer.complete => \/ Len(answer.sources) = PlayableLimit
                               \/ Len(answer.sources) + Len(answer.skipped) = ScanLimit
        /\ (~ask.shuffle /\ (ask.start = None \/ Matches(ask.start, ask.pool))) =>
              \E i \in 1..Len(answer.sources) : \A j, k \in 1..Len(answer.sources) :
                  (j < k /\ answer.sources[j] > answer.sources[k]) => j < i /\ i <= k

=============================================================================
