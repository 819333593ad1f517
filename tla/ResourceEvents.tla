--------------------------- MODULE ResourceEvents ---------------------------
(* The ledger of resource events of one user and the stream that replays it   *)
(* (db/queries/resource_events.py, resource_event_api.py).  Workers append in  *)
(* transactions that also save a take; a client keeps the id of the last frame *)
(* it read, loses connections and resumes; retention deletes old rows.         *)
EXTENDS Naturals, Sequences, FiniteSets

CONSTANTS
    Writers,    \* transactions that append an event
    MaxSeq,     \* bound on events
    PageSize,   \* RESOURCE_EVENT_STREAM_PAGE_SIZE
    MaxDrops,   \* bound on lost connections and stream deadlines
    None

Frames == [kind : {"hello", "resync", "created"}, id : Nat]

(* A connection before and after its first frame (ResourceEventStreamState). *)
Opening == [pc : {"opening"}, high : Nat]
Streaming == [pc : {"polling", "paging"}, cursor : Nat, through : Nat \cup {None},
              resynced : BOOLEAN, high : Nat \cup {None}]

EventConstants == None \notin Nat /\ None \notin Opening /\ None \notin Streaming

VARIABLES
    mark,       \* ResourceEventCursor.high_water_mark, committed
    rows,       \* sequences of the retained, committed ResourceEvent rows
    appended,   \* every sequence ever committed
    alloc,      \* alloc[w]: the sequence an open transaction has taken
    conn,       \* the stream of the connection, None when there is none
    wire,       \* frames sent and not yet read
    lastId,     \* the client's Last-Event-ID
    known,      \* events the client has seen, or whose effect it has fetched
    drops

vars == <<mark, rows, appended, alloc, conn, wire, lastId, known, drops>>
ledger == <<mark, rows, appended, alloc>>

Init ==
    /\ mark = 0 /\ rows = {} /\ appended = {}
    /\ alloc = [w \in Writers |-> None]
    /\ conn = None /\ wire = <<>> /\ lastId = None /\ known = {}
    /\ drops = 0

Least(S) == CHOOSE x \in S : \A y \in S : x <= y
Most(S) == CHOOSE x \in S : \A y \in S : y <= x
Taken == {alloc[w] : w \in Writers} \ {None}

-----------------------------------------------------------------------------
(* The ledger.                                                                 *)

\* Mutant: the sequence comes from a counter that no transaction holds.
AllocateFromCounter(w) ==
    /\ alloc[w] = None
    /\ LET n == Most({mark} \cup Taken) + 1 IN n <= MaxSeq /\ alloc' = [alloc EXCEPT ![w] = n]
    /\ UNCHANGED <<mark, rows, appended, conn, wire, lastId, known, drops>>

(* UPDATE resource_event_cursors ... RETURNING: the cursor row stays locked    *)
(* until the transaction ends, so a second one waits here.                     *)
Allocate(w) ==
    /\ alloc[w] = None /\ Taken = {} /\ mark < MaxSeq
    /\ alloc' = [alloc EXCEPT ![w] = mark + 1]
    /\ UNCHANGED <<mark, rows, appended, conn, wire, lastId, known, drops>>

(* create_generation_created_event, and the commit of the take's transaction. *)
CommitEvent(w) ==
    /\ alloc[w] # None
    /\ mark' = Most({mark, alloc[w]})
    /\ rows' = rows \cup {alloc[w]} /\ appended' = appended \cup {alloc[w]}
    /\ alloc' = [alloc EXCEPT ![w] = None]
    /\ UNCHANGED <<conn, wire, lastId, known, drops>>

RollbackEvent(w) ==
    /\ alloc[w] # None
    /\ alloc' = [alloc EXCEPT ![w] = None]
    /\ UNCHANGED <<mark, rows, appended, conn, wire, lastId, known, drops>>

(* delete_resource_events_before: by created_at, whose order need not be that *)
(* of the sequence; the cursor row stays.                                      *)
Cleanup ==
    /\ \E s \in rows : rows' = rows \ {s}
    /\ UNCHANGED <<mark, appended, alloc, conn, wire, lastId, known, drops>>

-----------------------------------------------------------------------------
(* The stream.                                                                 *)

Hello(id) == [kind |-> "hello", id |-> id]
Resync(id) == [kind |-> "resync", id |-> id]
Created(id) == [kind |-> "created", id |-> id]

(* has_replay_gap *)
HasReplayGap(last, high, oldest) ==
    \/ last > high
    \/ last < high /\ (oldest = None \/ last + 1 < oldest)

(* api_stream_resource_events: the mark and the oldest row in two statements. *)
ReadMark ==
    /\ conn = None
    /\ conn' = [pc |-> "opening", high |-> mark]
    /\ UNCHANGED <<ledger, wire, lastId, known, drops>>

(* _initialize_resource_stream, _resync_resource_stream *)
Open ==
    /\ conn # None /\ conn.pc = "opening"
    /\ LET oldest == IF rows = {} THEN None ELSE Least(rows)
           fresh == lastId = None
           start == IF fresh THEN conn.high ELSE lastId
           gap == ~fresh /\ HasReplayGap(start, conn.high, oldest) IN
       /\ conn' = [pc |-> "polling", cursor |-> IF gap THEN conn.high ELSE start,
                   through |-> IF fresh \/ gap THEN None ELSE conn.high,
                   resynced |-> gap, high |-> None]
       /\ wire' = <<Hello(start)>> \o (IF gap THEN <<Resync(conn.high)>> ELSE <<>>)
    /\ UNCHANGED <<ledger, lastId, known, drops>>

(* _read_event_page, first statement: the mark. *)
BeginPage ==
    /\ conn # None /\ conn.pc = "polling"
    /\ conn' = [conn EXCEPT !.pc = "paging", !.high = IF conn.through = None THEN mark ELSE conn.through]
    /\ UNCHANGED <<ledger, wire, lastId, known, drops>>

(* list_resource_events_after: the next rows in order, at most a page. *)
PagesAfter(cursor, high) ==
    LET found == {s \in rows : cursor < s /\ s <= high}
        kept == {s \in found : Cardinality({t \in found : t <= s}) <= PageSize}
    IN {page \in [1..Cardinality(kept) -> kept] :
            \A i, j \in 1..Cardinality(kept) : i < j => page[i] < page[j]}

\* Mutant: a page that starts after the cursor counts as contiguous.
IsSorted(events, cursor) == \A i \in 1..Len(events) : events[i] > cursor

(* _is_contiguous *)
IsContiguous(events, cursor) == \A i \in 1..Len(events) : events[i] = cursor + i

(* _finish_replay *)
Through(cursor) == IF conn.through # None /\ cursor >= conn.through THEN None ELSE conn.through

(* _resource_page_frames: a gap resyncs once, a second one ends the stream. *)
EndPage ==
    /\ conn # None /\ conn.pc = "paging"
    /\ \E events \in PagesAfter(conn.cursor, conn.high) :
       LET gap == conn.cursor < conn.high /\ (events = <<>> \/ ~IsContiguous(events, conn.cursor))
           last == IF events = <<>> THEN conn.cursor ELSE events[Len(events)] IN
       IF gap
         THEN IF conn.resynced THEN conn' = None /\ wire' = <<>>
              ELSE /\ wire' = Append(wire, Resync(conn.high))
                   /\ conn' = [conn EXCEPT !.pc = "polling", !.cursor = conn.high, !.through = None, !.resynced = TRUE]
         ELSE /\ wire' = wire \o [i \in 1..Len(events) |-> Created(events[i])]
              /\ conn' = [conn EXCEPT !.pc = "polling", !.cursor = last, !.through = Through(last)]
    /\ UNCHANGED <<ledger, lastId, known, drops>>

(* The deadline, the middleware's or the client's end: frames may be lost. *)
Disconnect ==
    /\ conn # None /\ drops < MaxDrops
    /\ conn' = None /\ wire' = <<>> /\ drops' = drops + 1
    /\ UNCHANGED <<ledger, lastId, known>>

(* The browser reads a frame.  It fetches everything after its first hello and *)
(* after a resync.                                                             *)
ReadFrame ==
    /\ wire # <<>>
    /\ LET f == Head(wire) IN
       /\ known' = IF f.kind = "created" THEN known \cup {f.id}
                   ELSE IF f.kind = "resync" \/ lastId = None THEN known \cup appended
                   ELSE known
       /\ lastId' = f.id
    /\ wire' = Tail(wire)
    /\ UNCHANGED <<ledger, conn, drops>>

Next ==
    \/ \E w \in Writers : Allocate(w) \/ CommitEvent(w) \/ RollbackEvent(w)
    \/ Cleanup \/ ReadMark \/ Open \/ BeginPage \/ EndPage \/ Disconnect \/ ReadFrame

Spec == Init /\ [][Next]_vars

-----------------------------------------------------------------------------
(* A client that has read up to an id has seen every event up to it, or has    *)
(* fetched since: replay, lost connections, retention between two statements   *)
(* and transactions that commit together never skip one.                       *)
NoEventMissed == lastId # None => \A s \in appended : s <= lastId => s \in known

=============================================================================
