--------------------------- MODULE ServiceProofs ---------------------------
(***************************************************************************)
(* Proofs about the seven parts of the service that MCService puts side by  *)
(* side, for every value of their constants: the streams of a job's status  *)
(* (JobStreams), session rows (Sessions), the ledger of resource events     *)
(* with the page that follows it (ResourceEvents), the mirrored logins of   *)
(* the agent CLIs (CredentialMirror), the secrets of the stack              *)
(* (StackSecrets), the built streams of queues (QueueStreams) and the queue *)
(* of a library pool (PoolQueue).  A behaviour of MCService is one of each  *)
(* part: a part that is not at work does not change.                        *)
(***************************************************************************)
EXTENDS MCService, FiniteSetTheorems, SequenceTheorems, WellFoundedInduction, TLAPS
-----------------------------------------------------------------------------
(* The streams of a job's status.                                           *)

\* The operators of FiniteSets that JobStreams brings with it.
LEMMA StreamSets ==
    ASSUME NEW S PROVE (T!IsFiniteSet(S) <=> IsFiniteSet(S)) /\ T!Cardinality(S) = Cardinality(S)
  <1>1. T!IsFiniteSet(S) <=> IsFiniteSet(S)
    BY DEF T!IsFiniteSet, IsFiniteSet
  <1>2. T!Cardinality(S) = Cardinality(S)
    BY DEF T!Cardinality, Cardinality, T!IsFiniteSet, IsFiniteSet
  <1> QED
    BY <1>1, <1>2

\* The types of the tabs and their leases.
TabType ==
    /\ lease \in [Slots -> Nat]
    /\ tab \in [Clients -> [pc : {"closed", "admitted", "open"}, age : Nat,
                            slot : Slots \cup {None}, prev : {None} \cup T!Statuses, shown : T!Statuses]]
    /\ followed \in T!Statuses
    /\ tabFaults \in Nat

\* A stream, from its admission, has a lease of its own that lasts until the
\* stream's deadline at least.
LeaseCovers ==
    \A c \in Clients :
        /\ IF tab[c].pc = "closed" THEN tab[c].age = 0 ELSE tab[c].slot \in Slots
        /\ tab[c].pc = "admitted" =>
              /\ tab[c].age <= LeaseTicks - ConnTicks - 1
              /\ lease[tab[c].slot] + tab[c].age >= LeaseTicks
        /\ tab[c].pc = "open" =>
              /\ tab[c].age <= ConnTicks
              /\ lease[tab[c].slot] + tab[c].age >= ConnTicks + 1

\* Two streams do not share a lease.
LeasesApart ==
    \A c, d \in Clients :
        (c # d /\ tab[c].pc # "closed" /\ tab[d].pc # "closed") => tab[c].slot # tab[d].slot

\* No more leases are held than the limiter allows.
LeasesCounted == Cardinality(T!Held) <= MaxOpen

\* The inductive invariant of the limit on streams.
TabInv == TabType /\ LeaseCovers /\ LeasesApart /\ LeasesCounted

\* Before the first tab opens no lease is held.
LEMMA TabInit == ASSUME T!StreamConstants PROVE T!Init => TabInv
  <1> SUFFICES ASSUME T!Init PROVE TabInv
    OBVIOUS
  <1>1. T!Held = {}
    BY DEF T!Init, T!Held
  <1>2. LeasesCounted
    BY <1>1, FS_EmptySet DEF LeasesCounted, T!StreamConstants
  <1> QED
    BY <1>2 DEF T!Init, T!Closed, TabInv, TabType, LeaseCovers, LeasesApart, T!StreamConstants, T!Statuses, T!Terminal

\* A lease given or not renewed keeps the count of the leases held.
LEMMA HeldIsFinite == ASSUME T!StreamConstants PROVE IsFiniteSet(T!Held) /\ Cardinality(T!Held) \in Nat
  <1>1. IsFiniteSet(Slots) /\ T!Held \in SUBSET Slots
    BY StreamSets DEF T!Held, T!StreamConstants
  <1>2. IsFiniteSet(T!Held)
    BY <1>1, FS_Subset
  <1> QED
    BY <1>2, FS_CardinalityType

\* A step that only gives leases back keeps them counted.
LEMMA HeldShrinks ==
    ASSUME T!StreamConstants, LeasesCounted, T!Held' \subseteq T!Held
    PROVE  LeasesCounted'
  <1>1. Cardinality(T!Held') <= Cardinality(T!Held) /\ Cardinality(T!Held') \in Nat
    BY HeldIsFinite, FS_Subset, FS_CardinalityType
  <1> QED
    BY <1>1, HeldIsFinite DEF LeasesCounted, T!StreamConstants

\* Every step of a tab, of its lease and of the job keeps that.
LEMMA TabNext == ASSUME T!StreamConstants PROVE TabInv /\ [T!Next]_(T!vars) => TabInv'
  <1> SUFFICES ASSUME TabInv, [T!Next]_(T!vars) PROVE TabInv'
    OBVIOUS
  <1> USE DEF TabInv
  <1>1. CASE T!Work
    <2>1. T!Held' = T!Held
      BY <1>1 DEF T!Work, T!Held
    <2> QED
      BY <1>1, <2>1, HeldShrinks DEF T!Work, TabType, LeaseCovers, LeasesApart, T!Statuses, T!Terminal
  <1>2. CASE T!Tick
    <2>1. T!Held' \subseteq T!Held
      BY <1>2 DEF T!Tick, T!Held, TabType
    <2>2. TabType' /\ LeaseCovers' /\ LeasesApart'
      BY <1>2 DEF T!Tick, TabType, LeaseCovers, LeasesApart, T!StreamConstants
    <2> QED
      BY <2>1, <2>2, HeldShrinks
  <1>3. ASSUME NEW c \in Clients, T!Admit(c) PROVE TabInv'
    <2>1. PICK t \in Slots : /\ T!Acquirable(t)
                            /\ lease' = [lease EXCEPT ![t] = LeaseTicks]
                            /\ tab' = [tab EXCEPT ![c] = [@ EXCEPT !.pc = "admitted", !.slot = t]]
      BY <1>3 DEF T!Admit, T!LeaseLength
    <2>2. T!Held' = T!Held \cup {t} /\ t \notin T!Held
      BY <2>1 DEF T!Held, T!Acquirable, TabType, T!StreamConstants
    <2>3. Cardinality(T!Held') = Cardinality(T!Held) + 1
      BY <2>2, HeldIsFinite, FS_AddElement
    <2>4. Cardinality(T!Held) < MaxOpen /\ MaxOpen \in Nat /\ Cardinality(T!Held) \in Nat
      BY <2>1, HeldIsFinite, StreamSets DEF T!Acquirable, T!StreamConstants
    <2>7. LeasesCounted'
      BY <2>3, <2>4 DEF LeasesCounted
    <2>5. \A d \in Clients : tab[d].pc # "closed" => tab[d].slot # t
      BY <2>1 DEF T!Acquirable, T!Held, LeaseCovers, TabType, T!StreamConstants
    <2>6. TabType' /\ LeaseCovers' /\ LeasesApart'
      <3>1. TabType'
        BY <1>3, <2>1 DEF T!Admit, TabType, T!StreamConstants
      <3>2. LeaseCovers'
        <4>1. /\ tab[c].pc = "closed" /\ tab[c].age = 0
              /\ tab'[c].pc = "admitted" /\ tab'[c].age = 0 /\ tab'[c].slot = t
              /\ lease'[t] = LeaseTicks
          <5>1. tab[c].pc = "closed"
            BY <1>3 DEF T!Admit
          <5>2. tab[c].age = 0
            BY <5>1 DEF LeaseCovers
          <5> QED
            BY <2>1, <5>1, <5>2 DEF TabType
        <4>2. \A d \in Clients \ {c} : tab'[d] = tab[d]
          BY <2>1 DEF TabType
        <4>3. \A u \in Slots \ {t} : lease'[u] = lease[u]
          BY <2>1 DEF TabType
        <4>4. 0 <= LeaseTicks - ConnTicks - 1 /\ LeaseTicks + 0 >= LeaseTicks
          BY DEF T!StreamConstants
        <4> QED
          BY <2>5, <4>1, <4>2, <4>3, <4>4 DEF LeaseCovers
      <3>3. LeasesApart'
        BY <1>3, <2>1, <2>5 DEF T!Admit, TabType, LeasesApart
      <3> QED
        BY <3>1, <3>2, <3>3
    <2> QED
      BY <2>6, <2>7
  <1>4. ASSUME NEW c \in Clients, T!Start(c) PROVE TabInv'
    <2>1. T!Held' = T!Held
      BY <1>4 DEF T!Start, T!Held
    <2>2. TabType' /\ LeasesApart'
      BY <1>4 DEF T!Start, TabType, LeasesApart
    <2>3. LeaseCovers'
      BY <1>4 DEF T!Start, TabType, LeaseCovers, T!StreamConstants
    <2> QED
      BY <2>1, <2>2, <2>3, HeldShrinks
  <1>5. ASSUME NEW c \in Clients, T!Poll(c) \/ T!Deadline(c) \/ T!Leak(c) PROVE TabInv'
    <2>1. T!Held' \subseteq T!Held
      BY <1>5 DEF T!Poll, T!Deadline, T!Leak, T!Release, T!Held, TabType
    <2>2. TabType'
      BY <1>5 DEF T!Poll, T!Deadline, T!Leak, T!Fault, T!Release, T!Closed, TabType, T!Statuses, T!StreamConstants
    <2>3. LeaseCovers' /\ LeasesApart'
      BY <1>5 DEF T!Poll, T!Deadline, T!Leak, T!Release, T!Closed, TabType, LeaseCovers, LeasesApart, T!StreamConstants
    <2> QED
      BY <2>1, <2>2, <2>3, HeldShrinks
  <1>6. CASE UNCHANGED T!vars
    <2>1. T!Held' = T!Held
      BY <1>6 DEF T!vars, T!Held
    <2> QED
      BY <1>6, <2>1, HeldShrinks DEF T!vars, TabType, LeaseCovers, LeasesApart
  <1> QED
    BY <1>1, <1>2, <1>3, <1>4, <1>5, <1>6 DEF T!Next

\* As many streams as leases held at most: each has a lease of its own.
LEMMA LeasePerStream == ASSUME T!StreamConstants, TabInv PROVE T!StreamsWithinLimit
  <1> DEFINE Live == {c \in Clients : tab[c].pc # "closed"}
             f == [c \in Live |-> tab[c].slot]
  <1>1. IsFiniteSet(Live) /\ Cardinality(Live) \in Nat
    <2>1. IsFiniteSet(Clients) /\ Live \in SUBSET Clients
      BY StreamSets DEF T!StreamConstants
    <2> QED
      BY <2>1, FS_Subset, FS_CardinalityType
  <1>2. f \in Injection(Live, T!Held)
    BY DEF TabInv, TabType, LeaseCovers, LeasesApart, T!Held, T!StreamConstants, Injection, IsInjective
  <1>3. Cardinality(Live) <= Cardinality(T!Held)
    BY <1>1, <1>2, HeldIsFinite, FS_Injection
  <1>4. Cardinality(T!Held) <= MaxOpen /\ MaxOpen \in Nat
    BY DEF TabInv, LeasesCounted, T!StreamConstants
  <1>5. Cardinality(Live) <= MaxOpen
    BY <1>1, <1>3, <1>4, HeldIsFinite
  <1> QED
    BY <1>5, StreamSets DEF T!StreamsWithinLimit

\* No more streams of a user's jobs are open than allowed: a lease outlives the
\* connection it admitted, however late the response started and whatever
\* clients go away or releases fail (RedisConcurrentLeaseLimiter).
THEOREM StreamLimit == Spec => []StreamsWithinLimit
  <1>1. T!Init => TabInv
    BY PartConstants, TabInit
  <1>2. TabInv /\ [T!Next]_(T!vars) => TabInv'
    BY PartConstants, TabNext
  <1>3. TabInv => StreamsWithinLimit
    BY PartConstants, LeasePerStream DEF StreamsWithinLimit
  <1>4. Init => T!Init
    BY DEF Init
  <1>5. [Next]_vars => [T!Next]_(T!vars)
    BY DEF Next, vars, T!vars, tabVars
  <1> QED
    BY <1>1, <1>2, <1>3, <1>4, <1>5, PTL DEF Spec

-----------------------------------------------------------------------------
(* The sessions.                                                            *)

\* Rows are numbered by the order of their creation.
RowsNumbered == sessionRows \in 0..MaxRows /\ row = [s \in A!Sids |-> row[s]]

\* No session row exists at first.
LEMMA RowsInit == ASSUME MaxRows \in Nat PROVE A!Init => RowsNumbered
  BY DEF A!Init, RowsNumbered

\* renew_session and the storing of a rotated token write no row that is gone.
LEMMA UpdatesKeep ==
    ASSUME RowsNumbered, NEW s, NEW new, row' = A!UpdateExisting(s, new)
    PROVE  /\ row' = [x \in A!Sids |-> row'[x]]
           /\ \A x \in A!Sids : row[x] = None => row'[x] = None
  BY DEF RowsNumbered, A!UpdateExisting

\* A step numbers at most the next row, and revokes for good.
LEMMA RowsNext ==
    ASSUME MaxRows \in Nat, RowsNumbered, A!Next
    PROVE  RowsNumbered' /\ \A s \in 1..sessionRows : row[s] = None => row'[s] = None
  <1> USE DEF RowsNumbered, A!Sids
  <1>1. ASSUME NEW u \in Users, A!SignIn(u)
        PROVE  RowsNumbered' /\ \A s \in 1..sessionRows : row[s] = None => row'[s] = None
    BY <1>1 DEF A!SignIn
  <1>2. ASSUME NEW u \in Users, A!BackchannelLogout(u)
        PROVE  RowsNumbered' /\ \A s \in 1..sessionRows : row[s] = None => row'[s] = None
    BY <1>2 DEF A!BackchannelLogout
  <1>3. ASSUME NEW u \in Users, NEW g \in A!Groups, A!ChangeGroup(u, g)
        PROVE  RowsNumbered' /\ \A s \in 1..sessionRows : row[s] = None => row'[s] = None
    BY <1>3 DEF A!ChangeGroup
  <1>4. ASSUME NEW x \in A!Sids, A!Logout(x) \/ A!Expire(x)
        PROVE  RowsNumbered' /\ \A s \in 1..sessionRows : row[s] = None => row'[s] = None
    BY <1>4 DEF A!Logout, A!Expire
  <1>5. CASE A!DeleteExpired
    BY <1>5 DEF A!DeleteExpired
  <1>6. ASSUME NEW r \in Requests, A!Renew(r) \/ A!StoreToken(r)
        PROVE  RowsNumbered' /\ \A s \in 1..sessionRows : row[s] = None => row'[s] = None
    <2>1. \E new : row' = A!UpdateExisting(call[r].sid, new)
      BY <1>6 DEF A!Renew, A!StoreToken
    <2>2. sessionRows' = sessionRows
      BY <1>6 DEF A!Renew, A!StoreToken
    <2> QED
      BY <2>1, <2>2, UpdatesKeep
  <1>7. ASSUME NEW r \in Requests, NEW x \in A!Sids, A!LoadSession(r, x) \/ A!BeginGrant(r, x)
        PROVE  RowsNumbered' /\ \A s \in 1..sessionRows : row[s] = None => row'[s] = None
    BY <1>7 DEF A!LoadSession, A!BeginGrant
  <1> QED
    BY <1>1, <1>2, <1>3, <1>4, <1>5, <1>6, <1>7 DEF A!Next

\* A session that was logged out, pruned or swept never comes back, whatever a
\* request or an agent run that had read it before writes afterwards
\* (renew_session, replace_session_refresh_token).
THEOREM SessionsStayRevoked == Spec => RevokedStaysRevoked
  <1>0. MaxRows \in Nat
    BY PartConstants
  <1>1. A!Init => RowsNumbered
    BY <1>0, RowsInit
  <1>2. RowsNumbered /\ [A!Next]_(A!vars) => RowsNumbered'
    BY <1>0, RowsNext DEF A!vars, RowsNumbered, A!Sids
  <1>3. RowsNumbered /\ [A!Next]_(A!vars)
        => [\A s \in 1..sessionRows : row[s] = None => row'[s] = None]_(A!vars)
    BY <1>0, RowsNext
  <1>4. Init => A!Init
    BY DEF Init
  <1>5. [Next]_vars => [A!Next]_(A!vars)
    BY DEF Next, vars, A!vars, sessionVars
  <1> QED
    BY <1>1, <1>2, <1>3, <1>4, <1>5, PTL DEF Spec, RevokedStaysRevoked, A!RevokedStaysRevoked

-----------------------------------------------------------------------------
(* The ledger of resource events.                                           *)

\* The operators of FiniteSets that ResourceEvents brings with it.
LEMMA EventSets == ASSUME NEW S PROVE E!Cardinality(S) = Cardinality(S)
  BY DEF E!Cardinality, Cardinality, E!IsFiniteSet, IsFiniteSet

\* The committed events are numbered without a hole: the cursor's row is locked
\* from the allocation of a number to the end of its transaction.
LedgerIsDense ==
    /\ mark \in Nat /\ appended = 1..mark /\ rows \subseteq 1..mark
    /\ alloc \in [Writers -> {None, mark + 1}]
    /\ \A v, w \in Writers : (alloc[v] # None /\ alloc[w] # None) => v = w

\* The types of the frames on the way and of the connection.
EventType ==
    /\ wire \in Seq(E!Frames)
    /\ lastId \in Nat \cup {None}
    /\ conn # None => conn \in IF conn.pc = "opening" THEN E!Opening ELSE E!Streaming

\* The connection has sent its opening frame.
Streams == conn # None /\ conn.pc # "opening"

\* No id on the way is beyond the mark.
IdsWithinMark ==
    /\ lastId # None => lastId <= mark
    /\ \A i \in 1..Len(wire) : wire[i].id <= mark
    /\ conn # None /\ conn.pc = "opening" => conn.high <= mark
    /\ Streams =>
          /\ conn.cursor <= mark
          /\ conn.through # None => conn.through <= mark
          /\ conn.high # None => conn.high <= mark
          /\ conn.pc = "paging" => conn.high # None

\* The stream's cursor is the id of the last frame it sent.
CursorIsLastSent ==
    IF Streams
      THEN conn.cursor = IF wire = <<>> THEN lastId ELSE wire[Len(wire)].id
      ELSE wire = <<>>

\* A "created" frame follows, without a hole, the frame before it; a "hello" is
\* the first frame and repeats the id a resuming client sent.
FramesInOrder ==
    \A i \in 1..Len(wire) :
        /\ wire[i].kind = "created" =>
              IF i = 1 THEN lastId # None /\ wire[i].id = lastId + 1 ELSE wire[i].id = wire[i - 1].id + 1
        /\ wire[i].kind = "hello" => i = 1 /\ (lastId = None \/ wire[i].id = lastId)

\* The inductive invariant of the events: what the client has and what is on the way make a whole prefix.
EventInv ==
    LedgerIsDense /\ EventType /\ IdsWithinMark /\ CursorIsLastSent /\ FramesInOrder /\ E!NoEventMissed

\* An empty ledger, and a page that has not connected.
LEMMA EventInit == ASSUME E!EventConstants PROVE E!Init => EventInv
  <1> SUFFICES ASSUME E!Init PROVE EventInv
    OBVIOUS
  <1>1. LedgerIsDense /\ EventType
    BY DEF E!Init, LedgerIsDense, EventType, E!EventConstants
  <1>2. IdsWithinMark /\ CursorIsLastSent /\ FramesInOrder /\ E!NoEventMissed
    BY DEF E!Init, IdsWithinMark, CursorIsLastSent, FramesInOrder, E!NoEventMissed, Streams
  <1> QED
    BY <1>1, <1>2 DEF EventInv

\* What is on its way to the page are frames with a number.
LEMMA WireType == ASSUME EventType
                  PROVE  wire \in Seq(E!Frames) /\ \A i \in 1..Len(wire) : wire[i] \in E!Frames /\ wire[i].id \in Nat
  <1>1. wire \in Seq(E!Frames)
    BY DEF EventType
  <1>2. \A i \in 1..Len(wire) : wire[i] \in E!Frames
    BY <1>1
  <1>3. \A f \in E!Frames : f.id \in Nat
    BY DEF E!Frames
  <1> QED
    BY <1>1, <1>2, <1>3

\* A page holds committed events only, and none when there is nothing between
\* the cursor and the mark.
LEMMA PageOfEvents ==
    ASSUME LedgerIsDense, NEW cursor \in Nat, NEW high \in Nat, NEW events \in E!PagesAfter(cursor, high)
    PROVE  /\ events \in Seq(Nat)
           /\ \A i \in 1..Len(events) : events[i] <= mark
           /\ cursor >= high => events = <<>>
  <1> DEFINE found == {s \in rows : cursor < s /\ s <= high}
             kept == {s \in found : E!Cardinality({t \in found : t <= s}) <= PageSize}
             n == E!Cardinality(kept)
  <1>1. kept \subseteq 1..mark /\ mark \in Nat
    BY DEF LedgerIsDense
  <1>2. IsFiniteSet(kept) /\ Cardinality(kept) \in Nat
    <2>1. IsFiniteSet(1..mark)
      BY <1>1, FS_Interval
    <2>2. IsFiniteSet(kept)
      BY <1>1, <2>1, FS_Subset
    <2> QED
      BY <2>2, FS_CardinalityType
  <1>3. n \in Nat /\ n = Cardinality(kept)
    BY <1>2, EventSets
  <1>4. cursor >= high => n = 0
    <2>1. \A s \in rows : s \in Nat
      BY <1>1 DEF LedgerIsDense
    <2>2. cursor >= high => found = {}
      BY <2>1
    <2>3. cursor >= high => kept = {}
      BY <2>2
    <2> QED
      BY <1>3, <2>3, FS_EmptySet
  <1>5. events \in [1..n -> kept]
    BY DEF E!PagesAfter
  <1> HIDE DEF kept, n
  <1>6. events \in Seq(kept) /\ Len(events) = n
    BY <1>3, <1>5
  <1>7. \A i \in 1..Len(events) : events[i] \in kept
    BY <1>5, <1>6
  <1>8. kept \subseteq Nat
    BY <1>1
  <1>9. events \in Seq(Nat)
    <2>1. events \in [1..n -> Nat]
      BY <1>5, <1>8
    <2> QED
      BY <1>3, <2>1
  <1>10. \A i \in 1..Len(events) : events[i] <= mark
    <2>1. \A s \in kept : s <= mark
      BY <1>1
    <2> QED
      BY <1>7, <2>1
  <1>11. cursor >= high => events = <<>>
    BY <1>4, <1>6
  <1> QED
    BY <1>9, <1>10, <1>11

\* The end of a page of rows: the cursor moves to what was read.
LEMMA EndPageKeeps == ASSUME E!EventConstants, EventInv, E!EndPage PROVE EventInv'
  <1> USE DEF EventInv, Streams, E!EventConstants
  <1>1. /\ conn # None /\ conn.pc = "paging" /\ conn \in E!Streaming
        /\ conn.cursor \in Nat /\ conn.high \in Nat /\ conn.cursor <= mark /\ conn.high <= mark
        /\ mark \in Nat
    BY DEF E!EndPage, EventType, IdsWithinMark, E!Streaming, LedgerIsDense
  <1>2. PICK events \in E!PagesAfter(conn.cursor, conn.high) :
          LET gap == conn.cursor < conn.high /\ (events = <<>> \/ ~E!IsContiguous(events, conn.cursor))
              last == IF events = <<>> THEN conn.cursor ELSE events[Len(events)] IN
          IF gap
            THEN IF conn.resynced THEN conn' = None /\ wire' = <<>>
                 ELSE /\ wire' = Append(wire, E!Resync(conn.high))
                      /\ conn' = [conn EXCEPT !.pc = "polling", !.cursor = conn.high, !.through = None, !.resynced = TRUE]
            ELSE /\ wire' = wire \o [i \in 1..Len(events) |-> E!Created(events[i])]
                 /\ conn' = [conn EXCEPT !.pc = "polling", !.cursor = last, !.through = E!Through(last)]
    BY DEF E!EndPage
  <1>3. UNCHANGED <<mark, rows, appended, alloc, lastId, known>>
    BY DEF E!EndPage, E!ledger
  <1>4. LedgerIsDense' /\ E!NoEventMissed'
    BY <1>3 DEF LedgerIsDense, E!NoEventMissed
  <1>5. wire \in Seq(E!Frames) /\ \A i \in 1..Len(wire) : wire[i] \in E!Frames /\ wire[i].id \in Nat
    BY WireType
  <1>6. CASE conn' = None /\ wire' = <<>>
    BY <1>3, <1>4, <1>6 DEF EventType, IdsWithinMark, CursorIsLastSent, FramesInOrder
  <1>7. CASE /\ wire' = Append(wire, E!Resync(conn.high))
             /\ conn' = [conn EXCEPT !.pc = "polling", !.cursor = conn.high, !.through = None, !.resynced = TRUE]
    <2>1. /\ Len(wire') = Len(wire) + 1 /\ Len(wire) \in Nat
          /\ \A i \in 1..Len(wire) : wire'[i] = wire[i]
          /\ wire'[Len(wire) + 1] = E!Resync(conn.high)
      BY <1>5, <1>7
    <2>2. E!Resync(conn.high).kind = "resync" /\ E!Resync(conn.high).id = conn.high
          /\ E!Resync(conn.high) \in E!Frames
      BY <1>1 DEF E!Resync, E!Frames
    <2>3. /\ conn' \in E!Streaming /\ conn'.pc = "polling" /\ conn' # None
          /\ conn'.cursor = conn.high /\ conn'.through = None /\ conn'.high = conn.high
      BY <1>1, <1>7 DEF E!Streaming
    <2>4. EventType'
      BY <1>3, <1>5, <1>7, <2>2, <2>3 DEF EventType
    <2>5. IdsWithinMark'
      BY <1>1, <1>3, <2>1, <2>2, <2>3 DEF IdsWithinMark
    <2>6. CursorIsLastSent'
      BY <2>1, <2>2, <2>3 DEF CursorIsLastSent
    <2>7. FramesInOrder'
      BY <1>3, <2>1, <2>2 DEF FramesInOrder
    <2> QED
      BY <1>4, <2>4, <2>5, <2>6, <2>7
  <1>8. CASE ~(conn.cursor < conn.high /\ (events = <<>> \/ ~E!IsContiguous(events, conn.cursor)))
    <2> DEFINE L == Len(wire)
               n == Len(events)
               last == IF events = <<>> THEN conn.cursor ELSE events[n]
    <2>1. events \in Seq(Nat) /\ n \in Nat /\ \A i \in 1..n : events[i] <= mark
      BY <1>1, PageOfEvents
    <2>2. \A i \in 1..n : events[i] = conn.cursor + i
      BY <1>1, <1>8, <2>1, PageOfEvents DEF E!IsContiguous
    <2>3. /\ wire' = wire \o [i \in 1..n |-> E!Created(events[i])]
          /\ conn' = [conn EXCEPT !.pc = "polling", !.cursor = last, !.through = E!Through(last)]
      BY <1>2, <1>8
    <2>4. [i \in 1..n |-> E!Created(events[i])] \in Seq(E!Frames)
      BY <2>1 DEF E!Created, E!Frames
    <2>5. /\ Len(wire') = L + n /\ L \in Nat /\ wire' \in Seq(E!Frames)
          /\ \A i \in 1..L : wire'[i] = wire[i]
          /\ \A i \in L + 1..L + n : wire'[i] = E!Created(events[i - L])
      BY <1>5, <2>1, <2>3, <2>4
    <2>6. \A i \in L + 1..L + n : wire'[i].kind = "created" /\ wire'[i].id = conn.cursor + (i - L)
      <3> SUFFICES ASSUME NEW i \in L + 1..L + n
                   PROVE  wire'[i].kind = "created" /\ wire'[i].id = conn.cursor + (i - L)
        OBVIOUS
      <3>1. i - L \in 1..n
        BY <2>1, <2>5
      <3>2. wire'[i] = E!Created(events[i - L]) /\ events[i - L] = conn.cursor + (i - L)
        BY <2>2, <2>5, <3>1
      <3> QED
        BY <3>2 DEF E!Created
    <2>7. last = conn.cursor + n /\ last \in Nat /\ last <= mark
      BY <1>1, <2>1, <2>2
    <2>8. E!Through(last) \in {None, conn.through}
      BY DEF E!Through
    <2>9. /\ conn' \in E!Streaming /\ conn'.pc = "polling" /\ conn' # None
          /\ conn'.cursor = last /\ conn'.through \in {None, conn.through} /\ conn'.high = conn.high
      BY <1>1, <2>3, <2>7, <2>8 DEF E!Streaming
    <2>10. EventType'
      BY <1>3, <2>5, <2>9 DEF EventType
    <2>11. IdsWithinMark'
      <3>1. \A i \in 1..Len(wire') : wire'[i].id <= mark
        <4>1. \A i \in 1..L : wire'[i].id <= mark
          BY <2>5 DEF IdsWithinMark
        <4>2. \A i \in L + 1..L + n : conn.cursor + (i - L) <= mark
          BY <1>1, <2>1, <2>2, <2>5, <2>7
        <4>3. \A i \in 1..Len(wire') : i \in 1..L \/ i \in L + 1..L + n
          BY <2>1, <2>5
        <4> QED
          BY <2>6, <4>1, <4>2, <4>3
      <3> QED
        BY <1>1, <1>3, <2>7, <2>9, <3>1 DEF IdsWithinMark
    <2>12. CursorIsLastSent'
      <3>1. CASE n = 0
        BY <1>1, <1>3, <2>5, <2>7, <2>9, <3>1 DEF CursorIsLastSent
      <3>2. CASE n > 0
        BY <1>3, <2>1, <2>5, <2>6, <2>7, <2>9, <3>2 DEF CursorIsLastSent
      <3> QED
        BY <2>1, <3>1, <3>2
    <2>13. FramesInOrder'
      <3>1. conn.cursor = IF wire = <<>> THEN lastId ELSE wire[L].id
        BY <1>1 DEF CursorIsLastSent
      <3>2. \A i \in L + 1..L + n :
               IF i = 1 THEN lastId # None /\ wire'[i].id = lastId + 1 ELSE wire'[i].id = wire'[i - 1].id + 1
        <4> SUFFICES ASSUME NEW i \in L + 1..L + n
                     PROVE  IF i = 1 THEN lastId # None /\ wire'[i].id = lastId + 1 ELSE wire'[i].id = wire'[i - 1].id + 1
          OBVIOUS
        <4>1. CASE i = 1
          BY <1>1, <1>5, <2>1, <2>5, <2>6, <3>1, <4>1
        <4>2. CASE i # 1 /\ i = L + 1
          <5>1. L \in 1..L /\ i - 1 = L /\ i - L = 1 /\ wire # <<>>
            BY <1>5, <2>1, <2>5, <4>2
          <5>2. wire'[i].id = conn.cursor + 1 /\ wire'[L].id = conn.cursor
            BY <2>5, <2>6, <3>1, <5>1
          <5> QED
            BY <4>2, <5>1, <5>2
        <4>3. CASE i > L + 1
          <5>1. i - 1 \in L + 1..L + n /\ i \in Int /\ i # 1
            BY <2>1, <2>5, <4>3
          <5>2. wire'[i].id = conn.cursor + (i - L) /\ wire'[i - 1].id = conn.cursor + (i - 1 - L)
            BY <2>6, <5>1
          <5>3. conn.cursor \in Int /\ L \in Int /\ i \in Int
            BY <1>1, <2>5, <5>1
          <5>4. \A a, b, c \in Int : a + (b - c) = a + (b - 1 - c) + 1
            OBVIOUS
          <5>5. conn.cursor + (i - L) = conn.cursor + (i - 1 - L) + 1
            BY <5>3, <5>4
          <5> QED
            BY <5>1, <5>2, <5>5
        <4> QED
          BY <2>1, <2>5, <4>1, <4>2, <4>3
      <3>3. \A i \in 1..L : i = 1 \/ wire'[i - 1] = wire[i - 1]
        BY <2>5
      <3>4. \A i \in 1..Len(wire') : i \in 1..L \/ i \in L + 1..L + n
        BY <2>1, <2>5
      <3>5. \A i \in 1..L :
              /\ wire'[i].kind = "created" =>
                    IF i = 1 THEN lastId' # None /\ wire'[i].id = lastId' + 1 ELSE wire'[i].id = wire'[i - 1].id + 1
              /\ wire'[i].kind = "hello" => i = 1 /\ (lastId' = None \/ wire'[i].id = lastId')
        BY <1>3, <2>5, <3>3 DEF FramesInOrder
      <3> QED
        BY <1>3, <2>6, <3>2, <3>4, <3>5 DEF FramesInOrder
    <2> QED
      BY <1>4, <2>10, <2>11, <2>12, <2>13
  <1> QED
    BY <1>2, <1>6, <1>7, <1>8

\* The page takes the next frame off the wire.
LEMMA ReadFrameKeeps == ASSUME E!EventConstants, EventInv, E!ReadFrame PROVE EventInv'
  <1> USE DEF EventInv, Streams, E!EventConstants
  <1> DEFINE f == wire[1]
  <1>1. wire \in Seq(E!Frames) /\ \A i \in 1..Len(wire) : wire[i] \in E!Frames /\ wire[i].id \in Nat
    BY WireType
  <1>2. wire # <<>> /\ Len(wire) \in Nat /\ Len(wire) >= 1 /\ f \in E!Frames /\ f.id \in Nat
    BY <1>1 DEF E!ReadFrame
  <1>3. /\ known' = IF f.kind = "created" THEN known \cup {f.id}
                    ELSE IF f.kind = "resync" \/ lastId = None THEN known \cup appended
                    ELSE known
        /\ lastId' = f.id /\ wire' = Tail(wire)
        /\ UNCHANGED <<mark, rows, appended, alloc, conn, drops>>
    <2>1. Head(wire) = f
      BY <1>1, <1>2
    <2> QED
      BY <2>1 DEF E!ReadFrame, E!ledger
  <1>4. /\ wire' \in Seq(E!Frames) /\ Len(wire') = Len(wire) - 1
        /\ \A i \in 1..Len(wire') : wire'[i] = wire[i + 1]
    BY <1>1, <1>2, <1>3
  <1>5. f.kind \in {"hello", "resync", "created"}
    BY <1>2 DEF E!Frames
  <1>6. conn # None /\ conn.pc # "opening"
    BY <1>2 DEF CursorIsLastSent
  <1>7. LedgerIsDense'
    BY <1>3 DEF LedgerIsDense
  <1>8. EventType'
    BY <1>2, <1>3, <1>4 DEF EventType
  <1>9. IdsWithinMark'
    BY <1>2, <1>3, <1>4 DEF IdsWithinMark
  <1>10. CursorIsLastSent'
    <2>1. conn.cursor = wire[Len(wire)].id
      BY <1>2, <1>6 DEF CursorIsLastSent
    <2>2. CASE Len(wire) = 1
      BY <1>3, <1>4, <1>6, <2>1, <2>2 DEF CursorIsLastSent
    <2>3. CASE Len(wire) > 1
      <3>1. wire' # <<>> /\ wire'[Len(wire')] = wire[Len(wire)]
        BY <1>2, <1>4, <2>3
      <3> QED
        BY <1>3, <1>6, <2>1, <3>1 DEF CursorIsLastSent
    <2>4. Len(wire) = 1 \/ Len(wire) > 1
      <3>1. \A k \in Nat : k >= 1 => k = 1 \/ k > 1
        OBVIOUS
      <3> QED
        BY <1>2, <3>1, Zenon
    <2> QED
      BY <2>2, <2>3, <2>4
  <1>11. FramesInOrder'
    BY <1>2, <1>3, <1>4 DEF FramesInOrder
  <1>12. E!NoEventMissed'
    <2>1. CASE f.kind = "created"
      <3>1. lastId \in Nat /\ lastId # None /\ f.id = lastId + 1
        BY <1>2, <2>1 DEF FramesInOrder, EventType
      <3>2. appended \subseteq Nat
        BY DEF LedgerIsDense
      <3> QED
        BY <1>3, <2>1, <3>1, <3>2 DEF E!NoEventMissed
    <2>2. CASE f.kind = "resync"
      BY <1>3, <2>2 DEF E!NoEventMissed
    <2>3. CASE f.kind = "hello"
      BY <1>2, <1>3, <2>3 DEF E!NoEventMissed, FramesInOrder
    <2> QED
      BY <1>5, <2>1, <2>2, <2>3
  <1> QED
    BY <1>7, <1>8, <1>9, <1>10, <1>11, <1>12

\* Every step of the writers, of the stream and of the page keeps the invariant.
LEMMA EventNext == ASSUME E!EventConstants PROVE EventInv /\ [E!Next]_(E!vars) => EventInv'
  <1> SUFFICES ASSUME EventInv, [E!Next]_(E!vars) PROVE EventInv'
    OBVIOUS
  <1> USE DEF EventInv, Streams, E!EventConstants
  <1>1. ASSUME NEW w \in Writers, E!Allocate(w) PROVE EventInv'
    <2>1. \A v \in Writers : alloc[v] = None
      BY <1>1 DEF E!Allocate, E!Taken
    <2>2. LedgerIsDense'
      BY <1>1, <2>1 DEF E!Allocate, LedgerIsDense
    <2> QED
      BY <1>1, <2>2 DEF E!Allocate, EventType, IdsWithinMark, CursorIsLastSent, FramesInOrder, E!NoEventMissed
  <1>2. ASSUME NEW w \in Writers, E!CommitEvent(w) PROVE EventInv'
    <2>1. alloc[w] = mark + 1 /\ \A v \in Writers \ {w} : alloc[v] = None
      BY <1>2 DEF E!CommitEvent, LedgerIsDense
    <2>2. mark' = mark + 1
      BY <1>2, <2>1 DEF E!CommitEvent, E!Most, LedgerIsDense
    <2>3. LedgerIsDense'
      <3>1. /\ mark' \in Nat /\ appended' = 1..mark' /\ rows' \subseteq 1..mark'
        <4>1. mark \in Nat /\ appended = 1..mark /\ rows \subseteq 1..mark
          BY DEF LedgerIsDense
        <4>2. rows' = rows \cup {mark + 1} /\ appended' = appended \cup {mark + 1}
          BY <1>2, <2>1 DEF E!CommitEvent
        <4>3. 1..(mark + 1) = 1..mark \cup {mark + 1}
          BY <4>1
        <4> QED
          BY <2>2, <4>1, <4>2, <4>3
      <3>2. \A v \in Writers : alloc'[v] = None
        BY <1>2, <2>1 DEF E!CommitEvent, LedgerIsDense
      <3>3. alloc' \in [Writers -> {None, mark' + 1}]
        BY <1>2, <3>2 DEF E!CommitEvent, LedgerIsDense
      <3> QED
        BY <3>1, <3>2, <3>3 DEF LedgerIsDense
    <2>4. IdsWithinMark'
      <3>1. \A n \in Nat : n <= mark => n <= mark'
        BY <2>2 DEF LedgerIsDense
      <3>2. \A i \in 1..Len(wire) : wire[i].id \in Nat
        BY WireType
      <3> QED
        BY <1>2, <3>1, <3>2 DEF E!CommitEvent, IdsWithinMark, EventType, E!Opening, E!Streaming
    <2>5. E!NoEventMissed'
      <3>1. appended' = appended \cup {mark + 1} /\ lastId' = lastId /\ known' = known
        BY <1>2, <2>1 DEF E!CommitEvent
      <3>2. lastId # None => lastId \in Nat /\ lastId <= mark /\ mark \in Nat
        BY DEF IdsWithinMark, EventType, LedgerIsDense
      <3> QED
        BY <3>1, <3>2 DEF E!NoEventMissed
    <2> QED
      BY <1>2, <2>3, <2>4, <2>5 DEF E!CommitEvent, EventType, CursorIsLastSent, FramesInOrder
  <1>3. ASSUME NEW w \in Writers, E!RollbackEvent(w) PROVE EventInv'
    BY <1>3 DEF E!RollbackEvent, LedgerIsDense, EventType, IdsWithinMark, CursorIsLastSent, FramesInOrder, E!NoEventMissed
  <1>4. CASE E!Cleanup
    BY <1>4 DEF E!Cleanup, LedgerIsDense, EventType, IdsWithinMark, CursorIsLastSent, FramesInOrder, E!NoEventMissed
  <1>5. CASE E!ReadMark
    <2>1. wire = <<>> /\ conn'.pc = "opening" /\ conn'.high = mark
      BY <1>5 DEF E!ReadMark, CursorIsLastSent
    <2>2. LedgerIsDense' /\ E!NoEventMissed' /\ FramesInOrder'
      BY <1>5 DEF E!ReadMark, E!ledger, LedgerIsDense, FramesInOrder, E!NoEventMissed
    <2>3. EventType'
      BY <1>5, <2>1 DEF E!ReadMark, EventType, E!Opening, LedgerIsDense
    <2> QED
      BY <1>5, <2>1, <2>2, <2>3 DEF E!ReadMark, E!ledger, IdsWithinMark, CursorIsLastSent, LedgerIsDense
  <1>6. CASE E!Open
    <2> DEFINE unread == lastId = None
               start == IF unread THEN conn.high ELSE lastId
               oldest == IF rows = {} THEN None ELSE E!Least(rows)
               gap == ~unread /\ E!HasReplayGap(start, conn.high, oldest)
    <2>1. conn # None /\ conn.pc = "opening" /\ conn.high \in Nat /\ conn.high <= mark /\ wire = <<>>
      BY <1>6 DEF E!Open, EventType, E!Opening, IdsWithinMark, CursorIsLastSent
    <2>2. /\ conn' = [pc |-> "polling", cursor |-> IF gap THEN conn.high ELSE start,
                      through |-> IF unread \/ gap THEN None ELSE conn.high,
                      resynced |-> gap, high |-> None]
          /\ wire' = <<E!Hello(start)>> \o (IF gap THEN <<E!Resync(conn.high)>> ELSE <<>>)
          /\ UNCHANGED <<E!ledger, lastId, known, drops>>
      BY <1>6 DEF E!Open
    <2>3. start \in Nat /\ start <= mark
      BY <2>1 DEF EventType, IdsWithinMark
    <2>4. gap \in BOOLEAN
      OBVIOUS
    <2> HIDE DEF gap
    <2>5. wire' = IF gap THEN <<E!Hello(start), E!Resync(conn.high)>> ELSE <<E!Hello(start)>>
      BY <2>2
    <2>6. EventType'
      <3>1. E!Hello(start) \in E!Frames /\ E!Resync(conn.high) \in E!Frames
        BY <2>1, <2>3 DEF E!Frames, E!Hello, E!Resync
      <3>2. wire' \in Seq(E!Frames)
        BY <2>5, <3>1
      <3>3. conn' \in E!Streaming /\ conn'.pc = "polling"
        BY <2>1, <2>2, <2>3, <2>4 DEF E!Streaming
      <3> QED
        BY <2>2, <3>2, <3>3 DEF EventType
    <2>7. LedgerIsDense' /\ E!NoEventMissed'
      BY <2>2 DEF E!ledger, LedgerIsDense, E!NoEventMissed
    <2>8. IdsWithinMark'
      BY <2>1, <2>2, <2>3, <2>5 DEF IdsWithinMark, E!Hello, E!Resync, E!ledger
    <2>9. CursorIsLastSent' /\ FramesInOrder'
      <3>1. /\ conn' # None /\ conn'.pc = "polling" /\ conn'.cursor = (IF gap THEN conn.high ELSE start)
            /\ lastId' = lastId
        BY <2>1, <2>2, <2>3, <2>4 DEF E!Streaming
      <3>2. CASE gap
        <4>1. Len(wire') = 2 /\ wire'[1] = E!Hello(start) /\ wire'[2] = E!Resync(conn.high)
          BY <2>5, <3>2
        <4> QED
          BY <3>1, <3>2, <4>1 DEF CursorIsLastSent, FramesInOrder, E!Hello, E!Resync
      <3>3. CASE ~gap
        <4>1. Len(wire') = 1 /\ wire'[1] = E!Hello(start)
          BY <2>5, <3>3
        <4> QED
          BY <3>1, <3>3, <4>1 DEF CursorIsLastSent, FramesInOrder, E!Hello
      <3> QED
        BY <3>2, <3>3
    <2> QED
      BY <2>6, <2>7, <2>8, <2>9
  <1>7. CASE E!BeginPage
    <2>1. conn # None /\ conn.pc = "polling" /\ conn \in E!Streaming
      BY <1>7 DEF E!BeginPage, EventType
    <2>2. /\ conn' = [conn EXCEPT !.pc = "paging", !.high = IF conn.through = None THEN mark ELSE conn.through]
          /\ UNCHANGED <<E!ledger, wire, lastId, known, drops>>
      BY <1>7 DEF E!BeginPage
    <2>3. /\ conn' \in E!Streaming /\ conn' # None /\ conn'.pc = "paging"
          /\ conn'.cursor = conn.cursor /\ conn'.through = conn.through
          /\ conn'.high = IF conn.through = None THEN mark ELSE conn.through
      BY <2>1, <2>2 DEF E!Streaming, LedgerIsDense
    <2>4. LedgerIsDense' /\ E!NoEventMissed' /\ FramesInOrder'
      BY <2>2 DEF E!ledger, LedgerIsDense, E!NoEventMissed, FramesInOrder
    <2>5. EventType' /\ CursorIsLastSent'
      BY <2>1, <2>2, <2>3 DEF EventType, CursorIsLastSent
    <2>6. mark \in Nat /\ mark' = mark
      BY <2>2 DEF LedgerIsDense, E!ledger
    <2>7. IdsWithinMark'
      BY <2>1, <2>2, <2>3, <2>6 DEF IdsWithinMark
    <2> QED
      BY <2>4, <2>5, <2>7
  <1>8. CASE E!EndPage
    BY <1>8, EndPageKeeps
  <1>9. CASE E!Disconnect
    <2>1. conn' = None /\ wire' = <<>> /\ UNCHANGED <<E!ledger, lastId, known>>
      BY <1>9 DEF E!Disconnect
    <2> QED
      BY <2>1 DEF E!ledger, LedgerIsDense, EventType, IdsWithinMark, CursorIsLastSent, FramesInOrder, E!NoEventMissed
  <1>10. CASE E!ReadFrame
    BY <1>10, ReadFrameKeeps
  <1>11. CASE UNCHANGED E!vars
    BY <1>11 DEF E!vars, LedgerIsDense, EventType, IdsWithinMark, CursorIsLastSent, FramesInOrder, E!NoEventMissed
  <1> QED
    BY <1>1, <1>2, <1>3, <1>4, <1>5, <1>6, <1>7, <1>8, <1>9, <1>10, <1>11 DEF E!Next

\* A client that has read up to an id knows every event up to it, through lost
\* connections, resumes, retention between two statements of the stream and
\* transactions that commit in between (resource_event_api.py).
THEOREM EventsAreComplete == Spec => []NoEventMissed
  <1>1. E!Init => EventInv
    BY PartConstants, EventInit
  <1>2. EventInv /\ [E!Next]_(E!vars) => EventInv'
    BY PartConstants, EventNext
  <1>3. EventInv => NoEventMissed
    BY DEF EventInv, NoEventMissed
  <1>4. Init => E!Init
    BY DEF Init
  <1>5. [Next]_vars => [E!Next]_(E!vars)
    BY DEF Next, vars, E!vars, eventVars
  <1> QED
    BY <1>1, <1>2, <1>3, <1>4, <1>5, PTL DEF Spec

-----------------------------------------------------------------------------
(* The mirrored logins of the agent CLIs.                                   *)

\* What a copy may hold of a login.
Kept == {{}, {"needed"}}

\* What a redaction lets through has no field but the needed ones.
LEMMA RedactKeeps ==
    ASSUME C!MirrorConstants, NEW c, NEW has \in Shapes \cup {None}, C!Redact(c, has) # Blank
    PROVE  C!Redact(c, has) \in Kept
  <1>1. CASE has = None
    BY <1>1 DEF C!Redact, Kept
  <1>2. CASE has # None
    <2>1. has \in SUBSET {"needed", "renewal", "person", "unseen"} /\ has # Blank
      BY <1>2 DEF C!MirrorConstants, C!Fields, C!Redact
    <2>2. CASE c \in Strict
      <3>1. "unseen" \notin has /\ "needed" \in has /\ C!Redact(c, has) = has \ {"renewal", "person"}
        BY <1>2, <2>1, <2>2 DEF C!Redact, C!RedactStrict, C!RejectUnknown
      <3>2. has \ {"renewal", "person"} = {"needed"}
        BY <2>1, <3>1
      <3> QED
        BY <3>1, <3>2 DEF Kept
    <2>3. CASE c \notin Strict
      BY <1>2, <2>1, <2>3 DEF C!Redact, C!RedactAllowed, Kept
    <2> QED
      BY <2>2, <2>3
  <1> QED
    BY <1>1, <1>2

\* What write_in_place writes, padded.
LEMMA PaddedIs ==
    ASSUME NEW S, NEW s \in Seq(S), NEW n \in Nat, Blank \in S
    PROVE  /\ C!Padded(s, n) \in Seq(S)
           /\ Len(C!Padded(s, n)) = IF n > Len(s) THEN n ELSE Len(s)
           /\ \A i \in 1..Len(C!Padded(s, n)) : C!Padded(s, n)[i] = IF i <= Len(s) THEN s[i] ELSE Blank
  <1> DEFINE k == IF n > Len(s) THEN n - Len(s) ELSE 0
             p == [i \in 1..k |-> Blank]
  <1>1. k \in Nat /\ Len(s) \in Nat
    OBVIOUS
  <1>2. 1..(n - Len(s)) = 1..k
    OBVIOUS
  <1> HIDE DEF k
  <1>3. p \in Seq(S) /\ Len(p) = k /\ \A i \in 1..k : p[i] = Blank
    BY <1>1
  <1>4. C!Padded(s, n) = s \o p
    BY <1>2, Zenon DEF C!Padded
  <1> HIDE DEF p
  <1>5. /\ s \o p \in Seq(S) /\ Len(s \o p) = Len(s) + k
        /\ \A i \in 1..Len(s \o p) : (s \o p)[i] = IF i <= Len(s) THEN s[i] ELSE Blank
    BY <1>1, <1>3
  <1>6. Len(s) + k = IF n > Len(s) THEN n ELSE Len(s)
    BY <1>1 DEF k
  <1> QED
    BY <1>4, <1>5, <1>6

\* The cells and the content of a copy.
KeptCell == [version : Nat, has : Kept, cell : Nat, of : Nat]
Content == Seq(KeptCell \cup {Blank})

\* A whole document and nothing behind it, of version v or later.
WholeDoc(s, v) ==
    /\ s \in Content
    /\ \E w \in Nat, h \in Kept, n \in 1..Len(s) :
        /\ w >= v
        /\ \A i \in 1..Len(s) :
              s[i] = IF i <= n THEN [version |-> w, has |-> h, cell |-> i, of |-> n] ELSE Blank

\* The places of a run that holds the lock, and of one that has a CLI to go through.
AtWork == {"read", "open", "write", "end"}
AtCli == {"idle", "lock", "read", "open", "write"}

\* What a run of the script knows.
RunRow ==
    [pc : AtCli \cup {"end", "over"}, cli : Nat, todo : Content, at : Nat,
     since : [C!Names -> Nat] \cup {<<>>}, failed : BOOLEAN]

\* The types of the mirrored logins.
MirrorType ==
    /\ source \in [C!Names -> [version : Nat, has : Shapes \cup {None}, size : Nat \ {0}]]
    /\ target \in [C!Names -> Content \cup {None}]
    /\ run \in [Runs -> RunRow]
    /\ fresh \in [C!Names -> Nat \cup {None}]

\* The CLI a run is at.
PlaceFits(q) ==
    /\ q.pc \in {"idle", "lock"} => q.cli = 1
    /\ q.pc \in AtCli => q.cli \in 1..Len(Clis)
    /\ q.pc = "end" => q.cli = Len(Clis) + 1
    /\ q.pc \in AtWork \cup {"lock"} => q.since \in [C!Names -> Nat]

\* Run q, with copies t and versions f, has a whole document to write that is no older
\* than it must be, and what it wrote so far is the beginning of that document.
InPlace(q, s) ==
    /\ s \in Content
    /\ q.at \in 1..(Len(q.todo) + 1) /\ q.at <= Len(s) + 1 /\ Len(s) <= Len(q.todo)
    /\ \A i \in 1..(q.at - 1) : s[i] = q.todo[i]
Writing(q, t, f) ==
    q.pc \in {"open", "write"} =>
        /\ WholeDoc(q.todo, q.since[Clis[q.cli]])
        /\ f[Clis[q.cli]] \in Nat => WholeDoc(q.todo, f[Clis[q.cli]])
        /\ q.pc = "write" => InPlace(q, t[Clis[q.cli]])

\* The CLIs it went through without an error have a whole copy.
Covers(q, t) ==
    q.pc \in AtWork /\ ~q.failed =>
        \A i \in 1..(q.cli - 1) : WholeDoc(t[Clis[i]], q.since[Clis[i]])

RunsFit ==
    \A r \in Runs :
        /\ PlaceFits(run[r]) /\ Writing(run[r], target, fresh) /\ Covers(run[r], target)
        /\ run[r].pc \in AtWork => flock = r

\* No run, and no copy, knows of a later login than there is.
LoginsPast ==
    \A c \in C!Names :
        /\ fresh[c] \in Nat => fresh[c] <= source[c].version
        /\ \A r \in Runs : run[r].pc \in AtWork \cup {"lock"} => run[r].since[c] <= source[c].version

\* A copy nobody writes is whole and as new as the newest success says.
FreshStand ==
    \A c \in C!Names :
        fresh[c] \in Nat /\ (\A r \in Runs : run[r].pc = "write" => Clis[run[r].cli] # c)
            => WholeDoc(target[c], fresh[c])

\* The inductive invariant of the mirrored logins.
MirrorInv == MirrorType /\ RunsFit /\ LoginsPast /\ FreshStand

\* The CLIs in their order.
LEMMA CliOrder ==
    ASSUME C!MirrorConstants
    PROVE  /\ Len(Clis) \in Nat \ {0}
           /\ \A i \in 1..Len(Clis) : Clis[i] \in C!Names
           /\ \A i, j \in 1..Len(Clis) : Clis[i] = Clis[j] => i = j
           /\ \A c \in C!Names : \E i \in 1..Len(Clis) : Clis[i] = c
  <1>1. Clis \in Seq(C!Names) /\ Clis # <<>>
    BY DEF C!MirrorConstants
  <1>2. DOMAIN Clis = 1..Len(Clis) /\ Len(Clis) \in Nat \ {0}
    BY <1>1, EmptySeq, LenProperties
  <1> QED
    BY <1>1, <1>2 DEF C!MirrorConstants, C!Names

\* A document as mirror_one makes it, and padded.
LEMMA CellsWhole ==
    ASSUME NEW w \in Nat, NEW v \in Nat, w >= v, NEW h \in Kept, NEW n \in Nat \ {0}
    PROVE  WholeDoc(C!Cells(w, h, n), v)
  <1> DEFINE s == [i \in 1..n |-> [version |-> w, has |-> h, cell |-> i, of |-> n]]
  <1>1. \A i \in 1..n : [version |-> w, has |-> h, cell |-> i, of |-> n] \in KeptCell
    BY DEF KeptCell
  <1>2. s \in [1..n -> KeptCell \cup {Blank}]
    BY <1>1
  <1>3. s \in Content /\ Len(s) = n
    BY <1>2 DEF Content
  <1>4. \A i \in 1..n : s[i] = [version |-> w, has |-> h, cell |-> i, of |-> n]
    OBVIOUS
  <1> HIDE DEF s
  <1>5. WholeDoc(s, v)
    BY <1>3, <1>4 DEF WholeDoc
  <1> QED
    BY <1>5 DEF s, C!Cells

\* Cells that no document fills are blanked: a copy padded is as whole as before.
LEMMA PaddedWhole ==
    ASSUME NEW s, NEW v, NEW m \in Nat, WholeDoc(s, v)
    PROVE  WholeDoc(C!Padded(s, m), v)
  <1> DEFINE t == C!Padded(s, m)
  <1>1. s \in Seq(KeptCell \cup {Blank})
    BY DEF WholeDoc, Content
  <1>2. /\ t \in Content
        /\ Len(t) = IF m > Len(s) THEN m ELSE Len(s)
        /\ \A i \in 1..Len(t) : t[i] = IF i <= Len(s) THEN s[i] ELSE Blank
    BY <1>1, PaddedIs DEF Content
  <1>3. PICK w \in Nat, h \in Kept, n \in 1..Len(s) :
          /\ w >= v
          /\ \A i \in 1..Len(s) :
               s[i] = IF i <= n THEN [version |-> w, has |-> h, cell |-> i, of |-> n] ELSE Blank
    BY DEF WholeDoc
  <1> HIDE DEF t
  <1>4. Len(s) \in Nat /\ Len(t) \in Nat /\ n \in 1..Len(t)
    BY <1>1, <1>2, <1>3
  <1>5. \A i \in 1..Len(t) :
          t[i] = IF i <= n THEN [version |-> w, has |-> h, cell |-> i, of |-> n] ELSE Blank
    BY <1>2, <1>3, <1>4
  <1>6. t \in Content /\ w >= v
    BY <1>2, <1>3
  <1>7. WholeDoc(t, v)
    BY <1>4, <1>5, <1>6, Zenon DEF WholeDoc
  <1> QED
    BY <1>7 DEF t

\* The first document is not there yet.
LEMMA MirrorInit == ASSUME C!MirrorConstants PROVE C!Init => MirrorInv
  <1> SUFFICES ASSUME C!Init PROVE MirrorInv
    OBVIOUS
  <1>1. None \notin Nat /\ Len(Clis) \in Nat \ {0}
    BY CliOrder DEF C!MirrorConstants
  <1>2. <<>> \in Content
    BY EmptySeq DEF Content
  <1>3. C!NoRun \in RunRow /\ C!NoRun.pc = "idle" /\ C!NoRun.cli = 1
    BY <1>2 DEF C!NoRun, RunRow, AtCli
  <1>4. MirrorType
    BY <1>3 DEF C!Init, MirrorType
  <1>5. \A r \in Runs : run[r] = C!NoRun
    BY DEF C!Init
  <1>6. RunsFit
    BY <1>1, <1>3, <1>5 DEF RunsFit, PlaceFits, Writing, Covers, AtWork, AtCli
  <1>7. \A c \in C!Names : fresh[c] \notin Nat
    BY <1>1 DEF C!Init
  <1> QED
    BY <1>3, <1>4, <1>5, <1>6, <1>7 DEF MirrorInv, LoginsPast, FreshStand, AtWork

\* What run[r] may become while it goes through its CLIs, with the copies t and the
\* versions f there are then.
RunFits(r, q, t, f) ==
    /\ q \in RunRow /\ q.pc \in AtWork /\ q.since = run[r].since
    /\ PlaceFits(q) /\ Writing(q, t, f) /\ Covers(q, t)
    /\ \A c \in C!Names :
        \/ t[c] = target[c] /\ f[c] = fresh[c] /\ (run[r].pc = "write" /\ Clis[run[r].cli] = c
                                                     => q.pc = "write" /\ Clis[q.cli] = c)
        \/ f[c] \in Nat /\ ~(q.pc = "write" /\ Clis[q.cli] = c) => WholeDoc(t[c], f[c])

\* A step of the run that holds the lock.
LEMMA RunKeeps ==
    ASSUME MirrorInv, NEW r \in Runs, run[r].pc \in AtWork, NEW q, run' = [run EXCEPT ![r] = q],
           UNCHANGED <<source, flock>>, target' \in [C!Names -> Content \cup {None}],
           fresh' \in [C!Names -> Nat \cup {None}], None \notin Nat,
           \A c \in C!Names : fresh'[c] \in {fresh[c], None},
           RunFits(r, q, target', fresh')
    PROVE  MirrorInv'
  <1>1. run \in [Runs -> RunRow] /\ q \in RunRow
    BY DEF MirrorInv, MirrorType, RunFits
  <1>2. \A x \in Runs : run'[x] = IF x = r THEN q ELSE run[x]
    BY <1>1
  <1>3. MirrorType'
    BY <1>1 DEF MirrorInv, MirrorType
  <1>4. flock = r /\ \A x \in Runs : x # r => run[x].pc \notin AtWork
    BY DEF MirrorInv, RunsFit
  <1>5. RunsFit'
    <2>1. ASSUME NEW x \in Runs, x # r
          PROVE  /\ PlaceFits(run'[x]) /\ Writing(run'[x], target', fresh') /\ Covers(run'[x], target')
                 /\ run'[x].pc \in AtWork => flock' = x
      BY <1>2, <1>4, <2>1 DEF MirrorInv, RunsFit, Writing, Covers, AtWork
    <2>2. /\ PlaceFits(run'[r]) /\ Writing(run'[r], target', fresh') /\ Covers(run'[r], target')
          /\ run'[r].pc \in AtWork => flock' = r
      BY <1>2, <1>4 DEF RunFits
    <2> QED
      BY <2>1, <2>2 DEF RunsFit
  <1>6. LoginsPast'
    BY <1>2, <1>4 DEF MirrorInv, LoginsPast, RunFits
  <1>7. FreshStand'
    <2> SUFFICES ASSUME NEW c \in C!Names, fresh'[c] \in Nat,
                        \A x \in Runs : run'[x].pc = "write" => Clis[run'[x].cli] # c
                 PROVE  WholeDoc(target'[c], fresh'[c])
      BY DEF FreshStand
    <2>1. q.pc = "write" => Clis[q.cli] # c
      BY <1>2
    <2>2. CASE /\ target'[c] = target[c] /\ fresh'[c] = fresh[c]
               /\ run[r].pc = "write" /\ Clis[run[r].cli] = c => q.pc = "write" /\ Clis[q.cli] = c
      <3>1. \A x \in Runs : run[x].pc = "write" => Clis[run[x].cli] # c
        BY <1>4, <2>1, <2>2 DEF AtWork
      <3> QED
        BY <2>2, <3>1 DEF MirrorInv, FreshStand
    <2> QED
      BY <2>1, <2>2 DEF RunFits
  <1> QED
    BY <1>3, <1>5, <1>6, <1>7 DEF MirrorInv

\* A run goes on to its next CLI, or to its end.
LEMMA AdvanceIs ==
    ASSUME C!MirrorConstants, NEW r \in Runs, run[r] \in RunRow, PlaceFits(run[r]),
           run[r].pc \in {"read", "write"}, NEW f \in BOOLEAN
    PROVE  LET q == C!Advance(r, f) IN
             /\ q \in RunRow /\ q.pc \in {"read", "end"} /\ q.cli = run[r].cli + 1
             /\ q.since = run[r].since /\ (~q.failed => ~f /\ ~run[r].failed)
             /\ PlaceFits(q)
  <1>1. PICK b \in BOOLEAN : b = (run[r].failed \/ f)
    BY Zenon
  <1> DEFINE pc == IF run[r].cli = Len(Clis) THEN "end" ELSE "read"
             q == [run[r] EXCEPT !.cli = @ + 1, !.todo = <<>>, !.at = 0, !.failed = b, !.pc = pc]
  <1>2. <<>> \in Content
    BY EmptySeq DEF Content
  <1>3. C!Advance(r, f) = q
    BY <1>1, Zenon DEF C!Advance
  <1> DEFINE p == run[r]
  <1>4. /\ q \in RunRow /\ q.cli = p.cli + 1 /\ q.since = p.since /\ q.failed = b /\ q.pc = pc
    <2>1. pc \in AtCli \cup {"end", "over"} /\ p.cli + 1 \in Nat /\ p \in RunRow
      BY DEF AtCli, RunRow
    <2>2. q = [p EXCEPT !.cli = p.cli + 1, !.todo = <<>>, !.at = 0, !.failed = b, !.pc = pc]
      OBVIOUS
    <2> HIDE DEF p, pc, q
    <2> QED
      BY <1>2, <2>1, <2>2 DEF RunRow
  <1>5. ~b => ~f /\ ~run[r].failed
    BY <1>1
  <1>6. Len(Clis) \in Nat \ {0} /\ run[r].cli \in 1..Len(Clis) /\ run[r].since \in [C!Names -> Nat]
    BY CliOrder DEF PlaceFits, AtWork, AtCli
  <1> HIDE DEF q, p
  <1>7. PlaceFits(q) /\ q.pc \in {"read", "end"}
    BY <1>4, <1>6 DEF PlaceFits, AtWork, AtCli, p
  <1> QED
    BY <1>3, <1>4, <1>5, <1>7 DEF p

\* What a step of run r starts from.
LEMMA AtItsCli ==
    ASSUME C!MirrorConstants, MirrorInv, NEW r \in Runs, run[r].pc \in {"read", "open", "write"}
    PROVE  /\ run[r] \in RunRow /\ PlaceFits(run[r]) /\ run[r].pc \in AtWork
           /\ Writing(run[r], target, fresh) /\ Covers(run[r], target)
           /\ C!Cli(r) \in C!Names /\ C!Cli(r) = Clis[run[r].cli]
           /\ run[r].since \in [C!Names -> Nat]
           /\ run[r].since[C!Cli(r)] <= source[C!Cli(r)].version
           /\ run[r].cli \in 1..Len(Clis) /\ Len(Clis) \in Nat
           /\ None \notin Nat
  BY CliOrder DEF C!MirrorConstants, MirrorInv, MirrorType, RunsFit, LoginsPast, PlaceFits, AtWork, AtCli, C!Cli

\* read_source and the redaction.
LEMMA ReadSourceKeeps ==
    ASSUME C!MirrorConstants, MirrorInv, NEW r \in Runs, C!ReadSource(r) PROVE MirrorInv'
  <1> DEFINE c == C!Cli(r)
             s == source[c]
             out == C!Redact(c, s.has)
             size == IF out = {} THEN 1 ELSE s.size
             q == IF out = Blank THEN C!Advance(r, TRUE)
                  ELSE [run[r] EXCEPT !.pc = "open", !.todo = C!Cells(s.version, out, size)]
  <1>1. /\ run[r].pc = "read" /\ UNCHANGED <<source, target, flock, fresh>>
        /\ run' = [run EXCEPT ![r] = q]
    BY DEF C!ReadSource
  <1>2. /\ run[r] \in RunRow /\ PlaceFits(run[r]) /\ run[r].pc \in AtWork
        /\ Covers(run[r], target)
        /\ c \in C!Names /\ c = Clis[run[r].cli]
        /\ run[r].since \in [C!Names -> Nat] /\ run[r].since[c] <= s.version
        /\ run[r].cli \in 1..Len(Clis) /\ Len(Clis) \in Nat /\ None \notin Nat
    BY <1>1, AtItsCli
  <1>3. /\ s \in [version : Nat, has : Shapes \cup {None}, size : Nat \ {0}]
        /\ target \in [C!Names -> Content \cup {None}] /\ fresh \in [C!Names -> Nat \cup {None}]
        /\ fresh[c] \in Nat => fresh[c] <= s.version
    BY <1>2 DEF MirrorInv, MirrorType, LoginsPast
  <1>4. RunFits(r, q, target, fresh)
    <2>1. CASE out = Blank
      <3>1. q = C!Advance(r, TRUE)
        BY <2>1
      <3> HIDE DEF q
      <3>2. /\ q \in RunRow /\ q.pc \in {"read", "end"} /\ q.since = run[r].since
            /\ q.failed /\ PlaceFits(q)
        BY <1>1, <1>2, <3>1, AdvanceIs
      <3> QED
        BY <1>1, <3>2 DEF RunFits, Writing, Covers, AtWork
    <2>2. CASE out # Blank
      <3> DEFINE doc == C!Cells(s.version, out, size)
      <3>1. out \in Kept
        BY <1>3, <2>2, RedactKeeps
      <3>2. size \in Nat \ {0} /\ s.version \in Nat
        BY <1>3
      <3> HIDE DEF out, size, s, c
      <3>3. /\ WholeDoc(doc, run[r].since[c])
            /\ fresh[c] \in Nat => WholeDoc(doc, fresh[c])
        BY <1>2, <1>3, <3>1, <3>2, CellsWhole
      <3>4. doc \in Content
        BY <3>3 DEF WholeDoc
      <3>5. q = [run[r] EXCEPT !.pc = "open", !.todo = doc]
        BY <2>2
      <3> HIDE DEF q, doc
      <3>6. /\ q \in RunRow /\ q.pc = "open" /\ q.todo = doc /\ q.since = run[r].since /\ q.cli = run[r].cli
            /\ q.failed = run[r].failed
        BY <1>2, <3>4, <3>5 DEF RunRow, AtCli
      <3>7. PlaceFits(q)
        BY <1>1, <1>2, <3>6 DEF PlaceFits, AtWork, AtCli
      <3>8. Writing(q, target, fresh)
        BY <1>2, <3>3, <3>6 DEF Writing
      <3>9. Covers(q, target)
        BY <1>1, <1>2, <3>6 DEF Covers, AtWork
      <3> QED
        BY <1>1, <3>6, <3>7, <3>8, <3>9 DEF RunFits, AtWork
    <2> QED
      BY <2>1, <2>2
  <1> HIDE DEF q
  <1>5. RunFits(r, q, target', fresh')
    BY <1>1, <1>4
  <1> QED
    BY <1>1, <1>2, <1>3, <1>5, RunKeeps

\* The copy is opened as it is, or created, and what is written is as long at least.
LEMMA OpenTargetKeeps ==
    ASSUME C!MirrorConstants, MirrorInv, NEW r \in Runs, C!OpenTarget(r) PROVE MirrorInv'
  <1> DEFINE c == C!Cli(r)
             p == run[r]
             old == IF target[c] = None THEN <<>> ELSE target[c]
             doc == C!Padded(p.todo, Len(old))
             q == [p EXCEPT !.pc = "write", !.at = 1, !.todo = doc]
  <1>1. /\ p.pc = "open" /\ UNCHANGED <<source, flock, fresh>>
        /\ target' = [target EXCEPT ![c] = old] /\ run' = [run EXCEPT ![r] = q]
    BY DEF C!OpenTarget
  <1>2. /\ p \in RunRow /\ PlaceFits(p) /\ p.pc \in AtWork
        /\ Writing(p, target, fresh) /\ Covers(p, target)
        /\ c \in C!Names /\ c = Clis[p.cli]
        /\ p.cli \in 1..Len(Clis) /\ Len(Clis) \in Nat /\ None \notin Nat
    BY <1>1, AtItsCli
  <1>3. target \in [C!Names -> Content \cup {None}] /\ fresh \in [C!Names -> Nat \cup {None}]
    BY DEF MirrorInv, MirrorType
  <1>4. <<>> \in Content
    BY EmptySeq DEF Content
  <1>5. old \in Content /\ Len(old) \in Nat
    <2>1. old \in Content
      BY <1>2, <1>3, <1>4
    <2> HIDE DEF old
    <2> QED
      BY <2>1 DEF Content
  <1>6. WholeDoc(p.todo, p.since[c]) /\ (fresh[c] \in Nat => WholeDoc(p.todo, fresh[c]))
    BY <1>1, <1>2 DEF Writing
  <1> HIDE DEF c, p, old
  <1>7. WholeDoc(doc, p.since[c]) /\ (fresh[c] \in Nat => WholeDoc(doc, fresh[c]))
    BY <1>5, <1>6, PaddedWhole
  <1>8. doc \in Content /\ Len(doc) \in Nat /\ Len(old) <= Len(doc)
    <2>1. p.todo \in Seq(KeptCell \cup {Blank})
      BY <1>6 DEF WholeDoc, Content
    <2>2. doc \in Seq(KeptCell \cup {Blank}) /\ Len(doc) = IF Len(old) > Len(p.todo) THEN Len(old) ELSE Len(p.todo)
      BY <1>5, <2>1, PaddedIs
    <2> HIDE DEF doc
    <2> QED
      BY <1>5, <2>1, <2>2 DEF Content
  <1> HIDE DEF doc
  <1>9. /\ q \in RunRow /\ q.pc = "write" /\ q.at = 1 /\ q.todo = doc /\ q.since = p.since /\ q.cli = p.cli
        /\ q.failed = p.failed
    BY <1>2, <1>8 DEF RunRow, AtCli
  <1> HIDE DEF q
  <1>10. \A d \in C!Names : target'[d] = IF d = c THEN old ELSE target[d]
    BY <1>1, <1>2, <1>3
  <1>11. target' \in [C!Names -> Content \cup {None}]
    BY <1>1, <1>3, <1>5
  <1>12. PlaceFits(q)
    BY <1>1, <1>2, <1>9 DEF PlaceFits, AtWork, AtCli
  <1>13. Writing(q, target', fresh)
    <2>1. InPlace(q, old)
      BY <1>5, <1>8, <1>9 DEF InPlace
    <2> QED
      BY <1>2, <1>7, <1>9, <1>10, <2>1 DEF Writing
  <1>14. Covers(q, target')
    <2> SUFFICES ASSUME ~q.failed, NEW i \in 1..(p.cli - 1)
                 PROVE  WholeDoc(target'[Clis[i]], p.since[Clis[i]])
      BY <1>9 DEF Covers
    <2>1. i \in 1..Len(Clis) /\ i # p.cli
      BY <1>2
    <2>2. Clis[i] # c /\ Clis[i] \in C!Names
      BY <1>2, <2>1, CliOrder
    <2>3. WholeDoc(target[Clis[i]], p.since[Clis[i]])
      BY <1>2, <1>9 DEF Covers
    <2> QED
      BY <1>10, <2>2, <2>3
  <1>15. RunFits(r, q, target', fresh')
    BY <1>1, <1>2, <1>9, <1>10, <1>12, <1>13, <1>14 DEF RunFits, AtWork, p
  <1>16. run[r].pc \in AtWork
    BY <1>2 DEF p
  <1> QED
    BY <1>1, <1>2, <1>3, <1>11, <1>15, <1>16, RunKeeps

\* One more cell is there.
LEMMA WriteAllKeeps ==
    ASSUME C!MirrorConstants, MirrorInv, NEW r \in Runs, C!WriteAll(r) PROVE MirrorInv'
  <1> DEFINE c == C!Cli(r)
             p == run[r]
             new == C!Put(target[c], p.at, p.todo[p.at])
             q == [p EXCEPT !.at = @ + 1]
  <1>1. /\ p.pc = "write" /\ p.at <= Len(p.todo) /\ UNCHANGED <<source, flock, fresh>>
        /\ target' = [target EXCEPT ![c] = new] /\ run' = [run EXCEPT ![r] = q]
    BY DEF C!WriteAll
  <1>2. /\ p \in RunRow /\ PlaceFits(p) /\ p.pc \in AtWork
        /\ Writing(p, target, fresh) /\ Covers(p, target)
        /\ c \in C!Names /\ c = Clis[p.cli]
        /\ p.cli \in 1..Len(Clis) /\ Len(Clis) \in Nat /\ None \notin Nat
    BY <1>1, AtItsCli
  <1>3. target \in [C!Names -> Content \cup {None}] /\ fresh \in [C!Names -> Nat \cup {None}]
    BY DEF MirrorInv, MirrorType
  <1>4. /\ WholeDoc(p.todo, p.since[c]) /\ (fresh[c] \in Nat => WholeDoc(p.todo, fresh[c]))
        /\ InPlace(p, target[c])
    BY <1>1, <1>2 DEF Writing
  <1> DEFINE s == target[c]
  <1> HIDE DEF c, p
  <1>5. /\ s \in Content /\ p.todo \in Content /\ p.at \in 1..(Len(s) + 1) /\ p.at \in 1..Len(p.todo)
        /\ Len(s) <= Len(p.todo) /\ \A i \in 1..(p.at - 1) : s[i] = p.todo[i]
    BY <1>1, <1>4 DEF InPlace, WholeDoc
  <1> HIDE DEF s
  <1>6. p.todo[p.at] \in KeptCell \cup {Blank}
    BY <1>5 DEF Content
  <1>7. /\ new \in Content /\ Len(new) = (IF p.at <= Len(s) THEN Len(s) ELSE Len(s) + 1)
        /\ new[p.at] = p.todo[p.at] /\ \A j \in 1..Len(s) : j # p.at => new[j] = s[j]
    <2>1. s \in Seq(KeptCell \cup {Blank})
      BY <1>5 DEF Content
    <2>2. new = C!Put(s, p.at, p.todo[p.at])
      BY DEF s
    <2> HIDE DEF new
    <2> QED
      <3> DEFINE i == p.at
                 x == p.todo[p.at]
      <3>1. s \in Seq(KeptCell \cup {Blank}) /\ i \in 1..(Len(s) + 1) /\ x \in KeptCell \cup {Blank}
            /\ new = IF i <= Len(s) THEN [s EXCEPT ![i] = x] ELSE Append(s, x)
        BY <1>5, <1>6, <2>1, <2>2 DEF C!Put
      <3> HIDE DEF i, x
      <3>2. /\ new \in Seq(KeptCell \cup {Blank})
            /\ Len(new) = IF i <= Len(s) THEN Len(s) ELSE Len(s) + 1
            /\ new[i] = x
            /\ \A j \in 1..Len(s) : j # i => new[j] = s[j]
        BY <3>1
      <3> QED
        BY <3>2 DEF Content, i, x
  <1> HIDE DEF new
  <1>8. Len(s) \in Nat /\ Len(p.todo) \in Nat /\ p.at \in Nat
    BY <1>5 DEF Content
  <1>9. /\ q \in RunRow /\ q.pc = "write" /\ q.at = p.at + 1 /\ q.todo = p.todo /\ q.since = p.since
        /\ q.cli = p.cli /\ q.failed = p.failed
    BY <1>1, <1>2, <1>8 DEF RunRow, AtCli
  <1> HIDE DEF q
  <1>10. \A d \in C!Names : target'[d] = IF d = c THEN new ELSE target[d]
    BY <1>1, <1>2, <1>3
  <1>11. target' \in [C!Names -> Content \cup {None}]
    BY <1>1, <1>3, <1>7
  <1>12. PlaceFits(q)
    BY <1>1, <1>2, <1>9 DEF PlaceFits, AtWork, AtCli
  <1>13. InPlace(q, new)
    <2>1. \A i \in 1..(q.at - 1) : new[i] = q.todo[i]
      <3> SUFFICES ASSUME NEW i \in 1..p.at PROVE new[i] = p.todo[i]
        BY <1>8, <1>9
      <3>1. CASE i = p.at
        BY <1>7, <3>1
      <3>2. CASE i # p.at
        BY <1>5, <1>7, <1>8, <3>2
      <3> QED
        BY <3>1, <3>2
    <2>2. q.at \in 1..(Len(q.todo) + 1) /\ q.at <= Len(new) + 1 /\ Len(new) <= Len(q.todo)
      BY <1>5, <1>7, <1>8, <1>9
    <2> QED
      BY <1>7, <2>1, <2>2 DEF InPlace
  <1>14. Writing(q, target', fresh)
    BY <1>2, <1>4, <1>9, <1>10, <1>13 DEF Writing
  <1>15. Covers(q, target')
    <2> SUFFICES ASSUME ~q.failed, NEW i \in 1..(p.cli - 1)
                 PROVE  WholeDoc(target'[Clis[i]], p.since[Clis[i]])
      BY <1>9 DEF Covers
    <2>1. i \in 1..Len(Clis) /\ i # p.cli
      BY <1>2
    <2>2. Clis[i] # c /\ Clis[i] \in C!Names
      BY <1>2, <2>1, CliOrder
    <2>3. WholeDoc(target[Clis[i]], p.since[Clis[i]])
      BY <1>2, <1>9 DEF Covers
    <2> QED
      BY <1>10, <2>2, <2>3
  <1>16. RunFits(r, q, target', fresh')
    BY <1>1, <1>2, <1>9, <1>10, <1>12, <1>14, <1>15 DEF RunFits, AtWork, p
  <1>17. run[r].pc \in AtWork
    BY <1>2 DEF p
  <1> QED
    BY <1>1, <1>2, <1>3, <1>11, <1>16, <1>17, RunKeeps

\* What was written is read back the same, so the copy is whole.
LEMMA VerifyKeeps ==
    ASSUME C!MirrorConstants, MirrorInv, NEW r \in Runs, C!VerifyWritten(r) PROVE MirrorInv'
  <1> DEFINE c == C!Cli(r)
             p == run[r]
             q == C!Advance(r, FALSE)
  <1>1. /\ p.pc = "write" /\ p.at > Len(p.todo) /\ UNCHANGED <<source, target, flock, fresh>>
        /\ run' = [run EXCEPT ![r] = C!Advance(r, target[c] # p.todo)]
    BY DEF C!VerifyWritten
  <1>2. /\ p \in RunRow /\ PlaceFits(p) /\ p.pc \in AtWork
        /\ Writing(p, target, fresh) /\ Covers(p, target)
        /\ c \in C!Names /\ c = Clis[p.cli]
        /\ p.cli \in 1..Len(Clis) /\ Len(Clis) \in Nat /\ None \notin Nat
    BY <1>1, AtItsCli
  <1>3. target \in [C!Names -> Content \cup {None}] /\ fresh \in [C!Names -> Nat \cup {None}]
    BY DEF MirrorInv, MirrorType
  <1>4. /\ WholeDoc(p.todo, p.since[c]) /\ (fresh[c] \in Nat => WholeDoc(p.todo, fresh[c]))
        /\ InPlace(p, target[c])
    BY <1>1, <1>2 DEF Writing
  <1>5. q \in RunRow /\ q.pc \in {"read", "end"} /\ q.cli = p.cli + 1 /\ q.since = p.since
        /\ (~q.failed => ~p.failed) /\ PlaceFits(q)
    BY <1>1, <1>2, AdvanceIs
  <1> HIDE DEF c, p
  <1>6. target[c] = p.todo
    <2> DEFINE s == target[c]
               t == p.todo
    <2>1. /\ s \in Seq(KeptCell \cup {Blank}) /\ t \in Seq(KeptCell \cup {Blank})
          /\ p.at \in 1..(Len(t) + 1) /\ p.at <= Len(s) + 1 /\ Len(s) <= Len(t) /\ p.at > Len(t)
          /\ \A i \in 1..(p.at - 1) : s[i] = t[i]
      BY <1>1, <1>4 DEF InPlace, WholeDoc, Content
    <2> HIDE DEF s, t
    <2>2. Len(s) = Len(t) /\ \A i \in 1..Len(s) : s[i] = t[i]
      BY <2>1
    <2>3. s = t
      BY <2>1, <2>2, SeqEqual
    <2> QED
      BY <2>3 DEF s, t
  <1>7. run' = [run EXCEPT ![r] = q]
    <2>1. (target[c] # p.todo) = FALSE
      BY <1>6
    <2> QED
      BY <1>1, <2>1, Zenon
  <1> HIDE DEF q
  <1>8. Covers(q, target)
    <2> SUFFICES ASSUME ~q.failed, NEW i \in 1..p.cli
                 PROVE  WholeDoc(target[Clis[i]], p.since[Clis[i]])
      BY <1>2, <1>5 DEF Covers
    <2>1. CASE i = p.cli
      BY <1>2, <1>4, <1>6, <2>1
    <2>2. CASE i # p.cli
      <3>1. i \in 1..(p.cli - 1)
        BY <1>2, <2>2
      <3> QED
        BY <1>2, <1>5, <3>1 DEF Covers
    <2> QED
      BY <2>1, <2>2
  <1>9. RunFits(r, q, target', fresh')
    BY <1>1, <1>2, <1>4, <1>5, <1>6, <1>8 DEF RunFits, Writing, AtWork, p
  <1>10. run[r].pc \in AtWork
    BY <1>2 DEF p
  <1> QED
    BY <1>1, <1>2, <1>3, <1>7, <1>9, <1>10, RunKeeps

\* The disk refuses a write: the copy is torn, and known to be.
LEMMA WriteFailsKeeps ==
    ASSUME C!MirrorConstants, MirrorInv, NEW r \in Runs, C!WriteFails(r) PROVE MirrorInv'
  <1> DEFINE c == C!Cli(r)
             q == C!Advance(r, TRUE)
  <1>1. /\ run[r].pc = "write" /\ UNCHANGED <<source, target, flock>>
        /\ fresh' = [d \in C!Names |-> IF d = c THEN None ELSE fresh[d]]
        /\ run' = [run EXCEPT ![r] = q]
    BY DEF C!WriteFails, C!Torn
  <1>2. /\ run[r] \in RunRow /\ PlaceFits(run[r]) /\ run[r].pc \in AtWork
        /\ c \in C!Names /\ c = Clis[run[r].cli] /\ None \notin Nat
    BY <1>1, AtItsCli
  <1>3. target \in [C!Names -> Content \cup {None}] /\ fresh \in [C!Names -> Nat \cup {None}]
    BY DEF MirrorInv, MirrorType
  <1>4. q \in RunRow /\ q.pc \in {"read", "end"} /\ q.since = run[r].since /\ q.failed /\ PlaceFits(q)
    BY <1>1, <1>2, AdvanceIs
  <1> HIDE DEF c, q
  <1>5. RunFits(r, q, target', fresh')
    BY <1>1, <1>2, <1>3, <1>4 DEF RunFits, Writing, Covers, AtWork
  <1>6. fresh' \in [C!Names -> Nat \cup {None}] /\ \A d \in C!Names : fresh'[d] \in {fresh[d], None}
    BY <1>1, <1>3
  <1> QED
    BY <1>1, <1>2, <1>3, <1>5, <1>6, RunKeeps

\* A run that starts, takes the lock, gives up, ends or dies: run[r] becomes q, and the
\* versions become f.
MayLeave(r, q, f) ==
    /\ q \in RunRow /\ PlaceFits(q) /\ q.pc \notin {"open", "write"} /\ Covers(q, target)
    /\ q.pc \in AtWork \cup {"lock"} => \A c \in C!Names : q.since[c] <= source[c].version
    /\ \A c \in C!Names :
        /\ f[c] \in Nat => f[c] <= source[c].version
        /\ run[r].pc \in AtWork \/ f[c] \in {fresh[c], None}
        /\ \/ f[c] = fresh[c] /\ ~(run[r].pc = "write" /\ Clis[run[r].cli] = c)
           \/ f[c] \in Nat => WholeDoc(target[c], f[c])

\* A step of a run that writes no cell keeps the invariant.
LEMMA LeaveKeeps ==
    ASSUME MirrorInv, NEW r \in Runs, NEW q, run' = [run EXCEPT ![r] = q], None \notin Nat,
           UNCHANGED <<source, target>>, fresh' \in [C!Names -> Nat \cup {None}],
           q.pc \in AtWork => flock' = r,
           \A x \in Runs : x # r /\ run[x].pc \in AtWork => flock' = x,
           MayLeave(r, q, fresh')
    PROVE  MirrorInv'
  <1>1. run \in [Runs -> RunRow] /\ q \in RunRow
    BY DEF MirrorInv, MirrorType, MayLeave
  <1>2. \A x \in Runs : run'[x] = IF x = r THEN q ELSE run[x]
    BY <1>1
  <1>3. MirrorType'
    BY <1>1 DEF MirrorInv, MirrorType
  <1>4. RunsFit'
    <2>1. ASSUME NEW x \in Runs, x # r
          PROVE  /\ PlaceFits(run'[x]) /\ Writing(run'[x], target', fresh') /\ Covers(run'[x], target')
                 /\ run'[x].pc \in AtWork => flock' = x
      <3>1. run'[x] = run[x] /\ PlaceFits(run[x]) /\ Covers(run[x], target')
            /\ (run[x].pc \in AtWork => flock' = x)
        BY <1>2, <2>1 DEF MirrorInv, RunsFit
      <3>2. ASSUME run[x].pc \in {"open", "write"} PROVE Writing(run[x], target', fresh')
        <4>1. run[r].pc \notin AtWork
          BY <2>1, <3>2 DEF MirrorInv, RunsFit, AtWork
        <4>2. Clis[run[x].cli] \in C!Names
          BY <3>1, <3>2, PartConstants, CliOrder DEF PlaceFits, AtCli
        <4>3. fresh'[Clis[run[x].cli]] \in {fresh[Clis[run[x].cli]], None}
          BY <4>1, <4>2 DEF MayLeave
        <4> QED
          BY <4>3 DEF MirrorInv, RunsFit, Writing
      <3>3. run[x].pc \notin {"open", "write"} => Writing(run[x], target', fresh')
        BY DEF Writing
      <3> QED
        BY <3>1, <3>2, <3>3
    <2>2. /\ PlaceFits(run'[r]) /\ Writing(run'[r], target', fresh') /\ Covers(run'[r], target')
          /\ run'[r].pc \in AtWork => flock' = r
      BY <1>2 DEF MayLeave, Writing
    <2> QED
      BY <2>1, <2>2 DEF RunsFit
  <1>5. LoginsPast'
    BY <1>2 DEF MirrorInv, LoginsPast, MayLeave
  <1>6. FreshStand'
    <2> SUFFICES ASSUME NEW c \in C!Names, fresh'[c] \in Nat,
                        \A x \in Runs : run'[x].pc = "write" => Clis[run'[x].cli] # c
                 PROVE  WholeDoc(target[c], fresh'[c])
      BY DEF FreshStand
    <2>1. CASE fresh'[c] = fresh[c] /\ ~(run[r].pc = "write" /\ Clis[run[r].cli] = c)
      <3>1. \A x \in Runs : run[x].pc = "write" => Clis[run[x].cli] # c
        BY <1>2, <2>1
      <3> QED
        BY <2>1, <3>1 DEF MirrorInv, FreshStand
    <2> QED
      BY <2>1 DEF MayLeave
  <1> QED
    BY <1>3, <1>4, <1>5, <1>6 DEF MirrorInv

\* A run starts, waits for the lock and gets it, or gives up.
LEMMA LockKeeps ==
    ASSUME C!MirrorConstants, MirrorInv, NEW r \in Runs, C!Start(r) \/ C!Locked(r) \/ C!LockTimeout(r)
    PROVE  MirrorInv'
  <1> DEFINE p == run[r]
             logins == [c \in C!Names |-> source[c].version]
             q == IF C!Start(r) THEN [p EXCEPT !.pc = "lock", !.since = logins]
                  ELSE IF C!Locked(r) THEN [p EXCEPT !.pc = "read"]
                  ELSE [p EXCEPT !.pc = "over", !.failed = TRUE]
  <1>1. /\ run' = [run EXCEPT ![r] = q] /\ UNCHANGED <<source, target, fresh>>
        /\ p.pc = IF C!Start(r) THEN "idle" ELSE "lock"
    BY DEF C!Start, C!Locked, C!LockTimeout
  <1>2. /\ p \in RunRow /\ PlaceFits(p) /\ None \notin Nat
        /\ fresh \in [C!Names -> Nat \cup {None}]
        /\ source \in [C!Names -> [version : Nat, has : Shapes \cup {None}, size : Nat \ {0}]]
    BY DEF C!MirrorConstants, MirrorInv, MirrorType, RunsFit
  <1>3. logins \in [C!Names -> Nat] /\ \A c \in C!Names : logins[c] = source[c].version
    BY <1>2
  <1> HIDE DEF logins, p
  <1>4. /\ q \in RunRow /\ q.cli = p.cli
        /\ q.pc = IF C!Start(r) THEN "lock" ELSE IF C!Locked(r) THEN "read" ELSE "over"
        /\ q.since = IF C!Start(r) THEN logins ELSE p.since
    BY <1>2, <1>3 DEF RunRow, AtCli
  <1> HIDE DEF q
  <1>5. PlaceFits(q) /\ q.cli = 1
    BY <1>1, <1>2, <1>3, <1>4 DEF PlaceFits, AtCli, AtWork
  <1>6. \A c \in C!Names : p.pc = "lock" => p.since[c] <= source[c].version
    BY DEF MirrorInv, LoginsPast, p
  <1>7. \A c \in C!Names : q.pc \in AtWork \cup {"lock"} => q.since[c] <= source[c].version
    BY <1>1, <1>2, <1>3, <1>4, <1>6 DEF AtWork
  <1>8. \A c \in C!Names : fresh[c] \in Nat => fresh[c] <= source[c].version
    BY DEF MirrorInv, LoginsPast
  <1>9. Covers(q, target)
    BY <1>5 DEF Covers
  <1>10. MayLeave(r, q, fresh')
    BY <1>1, <1>2, <1>4, <1>5, <1>7, <1>8, <1>9 DEF MayLeave, AtWork, p
  <1>11. q.pc \in AtWork => flock' = r
    BY <1>4 DEF C!Locked, C!TakeLock, AtWork
  <1>12. \A x \in Runs : x # r /\ run[x].pc \in AtWork => flock' = x
    BY DEF C!MirrorConstants, MirrorInv, RunsFit, C!Start, C!Locked, C!TakeLock, C!LockTimeout
  <1> QED
    BY <1>1, <1>2, <1>10, <1>11, <1>12, LeaveKeeps

\* The larger one of a number and what is there of another.
LEMMA LaterOf ==
    ASSUME NEW n \in Nat, NEW f \in Nat \cup {None}, None \notin Nat
    PROVE  LET m == C!Max({n} \cup ({f} \ {None})) IN
             m = n \/ (m = f /\ f \in Nat)
  <1> DEFINE S == {n} \cup ({f} \ {None})
  <1>1. \E x \in S : \A y \in S : x >= y
    <2>1. CASE f \in Nat /\ f > n
      BY <2>1
    <2>2. CASE ~(f \in Nat /\ f > n)
      BY <2>2
    <2> QED
      BY <2>1, <2>2
  <1>2. C!Max(S) \in S
    BY <1>1, Zenon DEF C!Max
  <1> QED
    BY <1>2

\* A run ends, and vouches for its copies if it had no error; or it dies.
LEMMA EndKeeps ==
    ASSUME C!MirrorConstants, MirrorInv, NEW r \in Runs, C!Finish(r) \/ C!Kill(r)
    PROVE  MirrorInv'
  <1> DEFINE p == run[r]
             q == IF C!Finish(r) THEN [p EXCEPT !.pc = "over"]
                  ELSE [p EXCEPT !.pc = "over", !.failed = TRUE]
  <1>1. /\ run' = [run EXCEPT ![r] = q] /\ UNCHANGED <<source, target>>
        /\ flock' = IF flock = r THEN None ELSE flock
    BY DEF C!Finish, C!Kill
  <1>2. /\ p \in RunRow /\ PlaceFits(p) /\ None \notin Nat
        /\ fresh \in [C!Names -> Nat \cup {None}]
        /\ \A c \in C!Names : fresh[c] \in Nat => fresh[c] <= source[c].version
    BY DEF C!MirrorConstants, MirrorInv, MirrorType, RunsFit, LoginsPast
  <1>3. q \in RunRow /\ q.pc = "over"
    BY <1>2 DEF RunRow, AtCli
  <1> HIDE DEF q
  <1>4. PlaceFits(q) /\ Covers(q, target) /\ q.pc \notin AtWork \cup {"lock"}
    BY <1>3 DEF PlaceFits, AtWork, AtCli, Covers
  <1>5. /\ fresh' \in [C!Names -> Nat \cup {None}]
        /\ MayLeave(r, q, fresh')
    <2>1. CASE C!Kill(r) \/ p.failed
      <3>1. \A c \in C!Names :
              (fresh'[c] = fresh[c] /\ ~(p.pc = "write" /\ Clis[p.cli] = c)) \/ fresh'[c] = None
        BY <2>1 DEF C!Kill, C!Finish, C!Torn, C!Cli
      <3>2. fresh' \in [C!Names -> Nat \cup {None}]
        BY <1>2, <2>1 DEF C!Kill, C!Finish, C!Torn
      <3> QED
        BY <1>2, <1>3, <1>4, <3>1, <3>2 DEF MayLeave
    <2>2. CASE C!Finish(r) /\ ~p.failed
      <3>1. /\ p.pc = "end"
            /\ fresh' = [c \in C!Names |-> C!Max({p.since[c]} \cup ({fresh[c]} \ {None}))]
        BY <2>2 DEF C!Finish
      <3>2. p.pc \in AtWork /\ p.since \in [C!Names -> Nat] /\ p.cli = Len(Clis) + 1
        BY <1>2, <3>1 DEF PlaceFits, AtWork
      <3>3. \A c \in C!Names : WholeDoc(target[c], p.since[c])
        <4>1. Covers(p, target)
          BY DEF MirrorInv, RunsFit
        <4>2. \A i \in 1..Len(Clis) : WholeDoc(target[Clis[i]], p.since[Clis[i]])
          BY <2>2, <3>2, <4>1, CliOrder DEF Covers
        <4> QED
          BY <4>2, CliOrder
      <3>4. \A c \in C!Names : fresh[c] \in Nat => WholeDoc(target[c], fresh[c])
        <4>1. \A x \in Runs : run[x].pc # "write"
          BY <3>1 DEF MirrorInv, RunsFit, AtWork
        <4> QED
          BY <4>1 DEF MirrorInv, FreshStand
      <3>5. \A c \in C!Names : p.since[c] <= source[c].version
        BY <3>2 DEF MirrorInv, LoginsPast
      <3>6. \A c \in C!Names : fresh'[c] = p.since[c] \/ (fresh'[c] = fresh[c] /\ fresh[c] \in Nat)
        BY <1>2, <3>1, <3>2, LaterOf
      <3>7. fresh' \in [C!Names -> Nat \cup {None}]
        BY <3>1, <3>2, <3>6
      <3> HIDE DEF p
      <3>8. \A c \in C!Names : /\ fresh'[c] \in Nat => fresh'[c] <= source[c].version
                               /\ fresh'[c] \in Nat => WholeDoc(target[c], fresh'[c])
        BY <1>2, <3>3, <3>4, <3>5, <3>6
      <3> QED
        BY <1>3, <1>4, <3>2, <3>7, <3>8 DEF MayLeave, p
    <2> QED
      BY <2>1, <2>2
  <1>6. \A x \in Runs : x # r /\ run[x].pc \in AtWork => flock' = x
    BY <1>1 DEF MirrorInv, RunsFit
  <1> QED
    BY <1>1, <1>2, <1>4, <1>5, <1>6, LeaveKeeps

\* A login is renewed: what is there is older.
LEMMA RenewKeeps ==
    ASSUME C!MirrorConstants, MirrorInv, NEW c \in C!Names, C!Renew(c) PROVE MirrorInv'
  <1>1. UNCHANGED <<target, run, flock, fresh>>
    BY DEF C!Renew
  <1>2. PICK has \in Shapes, n \in 1..MaxCells :
          source' = [source EXCEPT ![c] = [version |-> @.version + 1, has |-> has, size |-> n]]
    BY DEF C!Renew
  <1>3. source \in [C!Names -> [version : Nat, has : Shapes \cup {None}, size : Nat \ {0}]]
    BY DEF MirrorInv, MirrorType
  <1>4. source[c].version \in Nat /\ n \in Nat \ {0}
    BY <1>2, <1>3 DEF C!MirrorConstants
  <1>5. source' \in [C!Names -> [version : Nat, has : Shapes \cup {None}, size : Nat \ {0}]]
    BY <1>2, <1>3, <1>4
  <1>6. \A d \in C!Names : source[d].version \in Nat /\ source'[d].version \in Nat
                           /\ source[d].version <= source'[d].version
    BY <1>2, <1>3, <1>4
  <1>7. LoginsPast'
    <2>1. \A d \in C!Names : fresh[d] \in Nat => fresh[d] <= source'[d].version
      BY <1>6 DEF MirrorInv, LoginsPast
    <2>2. ASSUME NEW d \in C!Names, NEW r \in Runs, run[r].pc \in AtWork \cup {"lock"}
          PROVE  run[r].since[d] <= source'[d].version
      <3>1. run[r].since[d] \in Nat
        BY <2>2 DEF MirrorInv, RunsFit, PlaceFits
      <3>2. run[r].since[d] <= source[d].version
        BY <2>2 DEF MirrorInv, LoginsPast
      <3> QED
        BY <1>6, <3>1, <3>2
    <2> QED
      BY <1>1, <2>1, <2>2 DEF LoginsPast
  <1>8. MirrorType' /\ RunsFit' /\ FreshStand'
    BY <1>1, <1>5 DEF MirrorInv, MirrorType, RunsFit, FreshStand
  <1> QED
    BY <1>7, <1>8 DEF MirrorInv

\* Every step of the runs and the logins keeps the invariant.
LEMMA MirrorNext == ASSUME C!MirrorConstants PROVE MirrorInv /\ [C!Next]_(C!vars) => MirrorInv'
  <1> SUFFICES ASSUME MirrorInv, [C!Next]_(C!vars) PROVE MirrorInv'
    OBVIOUS
  <1>1. ASSUME NEW r \in Runs, C!Start(r) \/ C!Locked(r) \/ C!LockTimeout(r) PROVE MirrorInv'
    BY <1>1, LockKeeps
  <1>2. ASSUME NEW r \in Runs, C!ReadSource(r) PROVE MirrorInv'
    BY <1>2, ReadSourceKeeps
  <1>3. ASSUME NEW r \in Runs, C!OpenTarget(r) PROVE MirrorInv'
    BY <1>3, OpenTargetKeeps
  <1>4. ASSUME NEW r \in Runs, C!WriteAll(r) PROVE MirrorInv'
    BY <1>4, WriteAllKeeps
  <1>5. ASSUME NEW r \in Runs, C!VerifyWritten(r) PROVE MirrorInv'
    BY <1>5, VerifyKeeps
  <1>6. ASSUME NEW r \in Runs, C!WriteFails(r) PROVE MirrorInv'
    BY <1>6, WriteFailsKeeps
  <1>7. ASSUME NEW r \in Runs, C!Finish(r) \/ C!Kill(r) PROVE MirrorInv'
    BY <1>7, EndKeeps
  <1>8. ASSUME NEW c \in C!Names, C!Renew(c) PROVE MirrorInv'
    BY <1>8, RenewKeeps
  <1>9. CASE UNCHANGED C!vars
    BY <1>9 DEF C!vars, MirrorInv, MirrorType, RunsFit, LoginsPast, FreshStand
  <1> QED
    BY <1>1, <1>2, <1>3, <1>4, <1>5, <1>6, <1>7, <1>8, <1>9 DEF C!Next

\* What the invariant says of a copy that a run has vouched for.
LEMMA VouchedIsMountable ==
    ASSUME C!MirrorConstants, MirrorInv, NEW c \in C!Names, NEW v \in Nat, WholeDoc(target[c], v)
    PROVE  C!Mountable(c) /\ \A x \in C!Written(c) : x.version >= v
  <1> DEFINE s == target[c]
  <1>1. PICK w \in Nat, h \in Kept, n \in 1..Len(s) :
          /\ w >= v
          /\ \A i \in 1..Len(s) :
               s[i] = IF i <= n THEN [version |-> w, has |-> h, cell |-> i, of |-> n] ELSE Blank
    BY DEF WholeDoc
  <1>2. s \in Seq(KeptCell \cup {Blank}) /\ Len(s) \in Nat /\ DOMAIN s = 1..Len(s)
    BY LenProperties DEF WholeDoc, Content
  <1>3. Blank \notin KeptCell /\ s # None
    BY <1>2 DEF C!MirrorConstants, KeptCell, C!Cell, Kept, C!Fields
  <1>4. \A i \in 1..n : [version |-> w, has |-> h, cell |-> i, of |-> n] \in KeptCell
    BY <1>1, <1>2 DEF KeptCell
  <1>5. C!Written(c) = {s[i] : i \in 1..Len(s)} \ {Blank}
    BY <1>2, <1>3 DEF C!Written
  <1> HIDE DEF s
  <1>6. \A x \in C!Written(c) : x.version = w /\ x.has = h /\ x.of = n
    BY <1>1, <1>2, <1>3, <1>4, <1>5
  <1>7. PICK x \in C!Written(c) : x = [version |-> w, has |-> h, cell |-> 1, of |-> n]
    BY <1>1, <1>2, <1>3, <1>4, <1>5
  <1>8. "renewal" \notin h
    BY DEF Kept
  <1>9. s = C!Padded(C!Cells(w, h, n), Len(s))
    <2> DEFINE t == C!Cells(w, h, n)
               u == C!Padded(t, Len(s))
    <2>1. t = [i \in 1..n |-> [version |-> w, has |-> h, cell |-> i, of |-> n]]
      BY DEF C!Cells
    <2>2. t \in Seq(KeptCell \cup {Blank}) /\ Len(t) = n
          /\ \A i \in 1..n : t[i] = [version |-> w, has |-> h, cell |-> i, of |-> n]
      BY <1>2, <1>4, <2>1
    <2> HIDE DEF t
    <2>3. /\ u \in Seq(KeptCell \cup {Blank}) /\ Len(u) = Len(s)
          /\ \A i \in 1..Len(u) : u[i] = IF i <= n THEN t[i] ELSE Blank
      BY <1>2, <2>2, PaddedIs
    <2> HIDE DEF u
    <2>4. \A i \in 1..Len(s) : s[i] = u[i]
      BY <1>1, <1>2, <2>2, <2>3
    <2>5. s = u
      BY <1>2, <2>3, <2>4, SeqEqual
    <2> QED
      BY <2>5 DEF u, t
  <1>10. C!Mountable(c)
    BY <1>3, <1>6, <1>7, <1>8, <1>9 DEF C!Mountable, s
  <1> QED
    BY <1>1, <1>6, <1>10

\* A mirrored login carries nothing but what its CLI needs, even half written, and after
\* a run that reported success it is one whole document as new as the login when that
\* run was started (mirror_one, write_in_place, _take_lock).
THEOREM MirrorStaysTrue == Spec => []MirrorIsTrue
  <1>1. Init => MirrorInv
    BY PartConstants, MirrorInit DEF Init
  <1>2. MirrorInv /\ [Next]_vars => MirrorInv'
    <2>1. [Next]_vars => [C!Next]_(C!vars)
      BY DEF Next, vars, C!vars, mirrorVars
    <2> QED
      BY <2>1, PartConstants, MirrorNext
  <1>3. MirrorInv => MirrorIsTrue
    <2> SUFFICES ASSUME MirrorInv PROVE MirrorIsTrue
      OBVIOUS
    <2>1. C!NothingLeaks
      <3> SUFFICES ASSUME NEW c \in C!Names, NEW x \in C!Written(c) PROVE x.has \in Kept
        BY DEF C!NothingLeaks, Kept
      <3>1. target[c] \in Content /\ x \in {target[c][i] : i \in DOMAIN target[c]} /\ x # Blank
        BY DEF MirrorInv, MirrorType, C!Written
      <3>2. x \in KeptCell
        BY <3>1, LenProperties DEF Content
      <3> QED
        BY <3>2 DEF KeptCell
    <2>2. C!MirrorIsFresh
      <3> SUFFICES ASSUME NEW c \in C!Names, fresh[c] # None,
                          \A r \in Runs : run[r].pc = "write" => C!Cli(r) # c
                   PROVE  C!Mountable(c) /\ \A x \in C!Written(c) : x.version >= fresh[c]
        BY DEF C!MirrorIsFresh
      <3>1. fresh[c] \in Nat
        BY DEF MirrorInv, MirrorType
      <3>2. WholeDoc(target[c], fresh[c])
        BY <3>1 DEF MirrorInv, FreshStand, C!Cli
      <3> QED
        BY <3>1, <3>2, PartConstants, VouchedIsMountable
    <2> QED
      BY <2>1, <2>2 DEF MirrorIsTrue
  <1> QED
    BY <1>1, <1>2, <1>3, PTL DEF Spec

-----------------------------------------------------------------------------
(* The secrets of the stack.                                                *)

\* A line of .env, one of the operator's or one of the password command.
EnvLine ==
    [key : {K!Secret, K!Password}, form : {"bare", "open", "other"}, value : Values \cup {Empty, Public} \cup Nat]

\* What a run of the copy command knows.
CopyRow ==
    [pc : {"idle", "skipped", "refused", "done", "publish", "dead"},
     value : Values \cup {None, Empty, Public} \cup Nat, read : Seq(EnvLine)]

\* The types of the secrets, as far as the proof needs them.
SecretType ==
    /\ env \in Seq(EnvLine)
    /\ copy \in [Runs -> CopyRow]
    /\ setter \in [pc : {"idle", "failed", "rewrite", "apply", "prove", "set"},
                   value : Values \cup {None, Empty, Public, Refused} \cup Nat, read : Seq(EnvLine)]
    /\ made \in Nat

\* What a copy is about to link is what the .env it read says.
PlansStand ==
    \A r \in Runs : copy[r].pc = "publish" =>
        /\ K!EffectiveAssignment(copy[r].read, K!Secret).value = copy[r].value
        /\ copy[r].value \notin {None, Refused, Empty}

\* From reading .env until it says "set" the password command has .env to itself.
PasswordStands ==
    /\ setter.pc = "rewrite" =>
          /\ env = setter.read
          /\ K!EffectiveAssignment(env, K!Password).value # Refused
    /\ setter.pc \in {"apply", "prove", "set"} =>
          /\ K!EffectiveAssignment(env, K!Password).value = setter.value
          /\ ~K!PubliclyKnown(setter.value)
          /\ K!EffectiveAssignment(env, K!Secret).value
                = K!EffectiveAssignment(setter.read, K!Secret).value
    /\ setter.pc = "set" => grafana = setter.value

\* The inductive invariant of the secrets.
SecretInv == SecretType /\ PlansStand /\ PasswordStands

\* A non-empty set of naturals has a least element.
LEMMA SmallestNat ==
    ASSUME NEW Z \in SUBSET Nat, Z # {}
    PROVE  \E n \in Z : \A k \in Z : n <= k
  <1>1. \A x, y \in Nat : x < y => <<x, y>> \in OpToRel(<, Nat)
    BY DEF OpToRel
  <1>2. PICK R : IsWellFoundedOn(R, Nat) /\ \A x, y \in Nat : x < y => <<x, y>> \in R
    <2>1. \E R : IsWellFoundedOn(R, Nat) /\ \A x, y \in Nat : x < y => <<x, y>> \in R
      BY NatLessThanWellFounded, <1>1, Zenon
    <2> QED
      BY <2>1, Zenon
  <1>3. Z \subseteq Nat /\ IsWellFoundedOn(R, Nat)
    BY <1>2, Zenon
  <1>4. PICK x \in Z : \A y \in Z : ~(<<y, x>> \in R)
    <2>1. \E x \in Z : \A y \in Z : ~(<<y, x>> \in R)
      BY <1>3, WFMin, Zenon
    <2> QED
      BY <2>1, Zenon
  <1>5. \A y \in Z : ~(y < x)
    BY <1>2, <1>3, <1>4, Zenon
  <1> QED
    BY <1>3, <1>5

\* The effective line of a key that .env has.
LEMMA LastOf ==
    ASSUME NEW text \in Seq(EnvLine), NEW key, K!Of(text, key) # {}
    PROVE  /\ K!Max(K!Of(text, key)) \in K!Of(text, key)
           /\ K!Max(K!Of(text, key)) \in 1..Len(text)
           /\ \A i \in K!Of(text, key) : i <= K!Max(K!Of(text, key))
  <1> DEFINE O == K!Of(text, key)
             U == {m \in Nat : \A i \in O : i <= m}
  <1>1. O \subseteq 1..Len(text) /\ Len(text) \in Nat /\ O # {}
    BY DEF K!Of
  <1> HIDE DEF O
  <1>2. U \in SUBSET Nat /\ Len(text) \in U
    BY <1>1
  <1>3. PICK m \in U : \A n \in U : m <= n
    BY <1>2, SmallestNat
  <1>4. m \in O
    <2> SUFFICES ASSUME m \notin O PROVE FALSE
      OBVIOUS
    <2>0. m \in Nat /\ \A i \in O : i \in Nat \ {0} /\ i <= m /\ i # m
      BY <1>1, <1>3
    <2>1. m - 1 \in Nat /\ \A i \in O : i <= m - 1
      <3>1. PICK x \in O : TRUE
        BY <1>1
      <3>2. x \in Nat \ {0} /\ x <= m
        BY <2>0, <3>1
      <3>3. \A i \in O : i <= m - 1
        BY <2>0
      <3> QED
        BY <2>0, <3>2, <3>3
    <2>2. m - 1 \in U
      BY <2>1
    <2> QED
      BY <1>3, <2>2
  <1>5. \E x \in O : \A i \in O : x >= i
    BY <1>1, <1>4
  <1>6. K!Max(O) \in O /\ \A i \in O : K!Max(O) >= i
    BY <1>5, Zenon DEF K!Max
  <1> QED
    BY <1>1, <1>6 DEF O

\* What a new effective line makes of .env: v is the password, and the secret is the same.
LEMMA PasswordWritten ==
    ASSUME NEW text \in Seq(EnvLine), NEW v \in Nat,
           K!EffectiveAssignment(text, K!Password).value # Refused
    PROVE  LET new == K!WithPassword(text, v) IN
           /\ new \in Seq(EnvLine)
           /\ K!EffectiveAssignment(new, K!Password).value = v
           /\ K!EffectiveAssignment(new, K!Secret).value = K!EffectiveAssignment(text, K!Secret).value
  <1> DEFINE O == K!Of(text, K!Password)
             e == [key |-> K!Password, form |-> "bare", value |-> v]
             new == K!WithPassword(text, v)
  <1>0. e \in EnvLine /\ K!Password # K!Secret
    BY DEF EnvLine, K!Password, K!Secret
  <1>1. ASSUME O = {}
        PROVE  /\ new = Append(text, e)
               /\ K!Of(new, K!Password) = {Len(text) + 1}
               /\ K!Of(new, K!Secret) = K!Of(text, K!Secret)
    <2>1. new = Append(text, e)
      BY <1>1 DEF K!WithPassword, K!EffectiveAssignment
    <2> HIDE DEF new
    <2>2. /\ DOMAIN new = 1..(Len(text) + 1) /\ new[Len(text) + 1] = e
          /\ \A i \in 1..Len(text) : new[i] = text[i]
      BY <1>0, <2>1
    <2> QED
      BY <1>0, <1>1, <2>1, <2>2 DEF K!Of
  <1>2. ASSUME O # {}
        PROVE  LET i == K!Max(O) IN
               /\ new = [text EXCEPT ![i] = e]
               /\ K!Of(new, K!Password) = O
               /\ K!Of(new, K!Secret) = K!Of(text, K!Secret)
    <2> DEFINE i == K!Max(O)
    <2>1. i \in O /\ i \in 1..Len(text)
      BY <1>2, LastOf
    <2> HIDE DEF i
    <2>2. K!EffectiveAssignment(text, K!Password).line = i
      BY <1>2 DEF K!EffectiveAssignment, i
    <2>3. new = [text EXCEPT ![i] = e]
      BY <2>1, <2>2 DEF K!WithPassword
    <2> HIDE DEF new
    <2>4. DOMAIN new = DOMAIN text /\ new[i] = e /\ \A j \in DOMAIN text : j # i => new[j] = text[j]
      BY <2>1, <2>3
    <2>5. text[i].key = K!Password /\ e.key = K!Password
      BY <2>1 DEF K!Of
    <2>6. K!Of(new, K!Password) = O /\ K!Of(new, K!Secret) = K!Of(text, K!Secret)
      BY <1>0, <2>1, <2>4, <2>5 DEF K!Of
    <2> QED
      BY <2>3, <2>6 DEF i
  <1>3. new \in Seq(EnvLine)
    <2>1. CASE O = {}
      BY <1>0, <1>1, <2>1
    <2>2. CASE O # {}
      <3> DEFINE i == K!Max(O)
      <3>1. i \in 1..Len(text)
        BY <2>2, LastOf
      <3>2. new = [text EXCEPT ![i] = e]
        BY <1>2, <2>2
      <3> HIDE DEF i, new, e, O
      <3> QED
        BY <1>0, <3>1, <3>2
    <2> QED
      BY <2>1, <2>2
  <1>4. K!EffectiveAssignment(new, K!Password).value = v
    <2>1. CASE O = {}
      <3>1. K!Max({Len(text) + 1}) = Len(text) + 1
        <4>1. \E x \in {Len(text) + 1} : \A y \in {Len(text) + 1} : x >= y
          OBVIOUS
        <4> QED
          BY <4>1, Zenon DEF K!Max
      <3>2. new[Len(text) + 1] = e
        BY <1>0, <1>1, <2>1
      <3>3. new[Len(text) + 1].form = "bare" /\ new[Len(text) + 1].value = v
        BY <3>2
      <3>4. K!Of(new, K!Password) = {Len(text) + 1}
        BY <1>1, <2>1
      <3> DEFINE n == Len(text) + 1
      <3> HIDE DEF new, n
      <3>5. K!Of(new, K!Password) = {n} /\ K!Max({n}) = n /\ new[n].form = "bare" /\ new[n].value = v
        BY <3>1, <3>3, <3>4 DEF n
      <3>6. {n} # {} /\ \A j \in {n} : new[j].form # "open"
        BY <3>5
      <3> QED
        BY <3>5, <3>6 DEF K!EffectiveAssignment
    <2>2. CASE O # {}
      <3> DEFINE i == K!Max(O)
      <3>1. i \in O /\ i \in DOMAIN text
        BY <2>2, LastOf
      <3>2. \A j \in O : text[j].form # "open"
        BY <2>2 DEF K!EffectiveAssignment
      <3>3. new[i] = e /\ \A j \in O : j # i => new[j] = text[j]
        BY <1>2, <2>2, <3>1 DEF K!Of
      <3>4. K!Of(new, K!Password) = O
        BY <1>2, <2>2
      <3> HIDE DEF new, O, i
      <3>5. \A j \in O : new[j].form # "open"
        BY <3>2, <3>3
      <3>6. new[i].form = "bare" /\ new[i].value = v
        BY <3>3
      <3> QED
        BY <2>2, <3>4, <3>5, <3>6 DEF K!EffectiveAssignment, i
    <2> QED
      BY <2>1, <2>2
  <1>5. K!EffectiveAssignment(new, K!Secret).value = K!EffectiveAssignment(text, K!Secret).value
    <2> DEFINE S == K!Of(text, K!Secret)
    <2>1. K!Of(new, K!Secret) = S
      BY <1>1, <1>2
    <2>2. \A j \in S : new[j] = text[j]
      <3> SUFFICES ASSUME NEW j \in S PROVE new[j] = text[j]
        OBVIOUS
      <3>1. j \in DOMAIN text /\ j \notin O
        BY <1>0 DEF K!Of
      <3>2. CASE O = {}
        BY <1>0, <1>1, <3>1, <3>2
      <3>3. CASE O # {}
        BY <1>2, <3>1, <3>3, LastOf
      <3> QED
        BY <3>2, <3>3
    <2>3. S # {} => K!Max(S) \in S
      BY LastOf
    <2> HIDE DEF new, S
    <2> QED
      BY <2>1, <2>2, <2>3 DEF K!EffectiveAssignment, S
  <1> QED
    BY <1>3, <1>4, <1>5

\* The first secrets have the types.
LEMMA SecretInit == ASSUME K!SecretConstants PROVE K!Init => SecretInv
  <1> SUFFICES ASSUME K!Init PROVE SecretInv
    OBVIOUS
  <1>1. PICK n \in 0..MaxLines : env \in [1..n -> K!Lines]
    BY DEF K!Init
  <1>2. K!Lines \subseteq EnvLine
    BY DEF K!Lines, EnvLine
  <1>3. env \in Seq(EnvLine)
    BY <1>1, <1>2 DEF K!SecretConstants
  <1>4. <<>> \in Seq(EnvLine)
    OBVIOUS
  <1>5. SecretType
    BY <1>3, <1>4 DEF K!Init, SecretType, CopyRow
  <1> QED
    BY <1>5 DEF K!Init, SecretInv, PlansStand, PasswordStands

\* Nothing but a command's own steps, and no edit while the password is at work,
\* changes what the plans are made of.
LEMMA SecretNext == ASSUME K!SecretConstants PROVE SecretInv /\ [K!Next]_(K!vars) => SecretInv'
  <1> SUFFICES ASSUME SecretInv, [K!Next]_(K!vars) PROVE SecretInv'
    OBVIOUS
  <1> USE DEF SecretInv
  <1>0. <<>> \in Seq(EnvLine)
    OBVIOUS
  <1>1. ASSUME NEW r \in Runs, K!PlanCopies(r) PROVE SecretInv'
    <2> DEFINE v == K!EffectiveAssignment(env, K!Secret).value
    <2>1. v \in Values \cup {None, Empty, Public, Refused} \cup Nat
      <3>1. CASE K!Of(env, K!Secret) = {}
        BY <3>1 DEF K!EffectiveAssignment
      <3>2. CASE K!Of(env, K!Secret) # {}
        <4>1. K!Max(K!Of(env, K!Secret)) \in 1..Len(env)
          BY <3>2, LastOf DEF SecretType
        <4>2. env[K!Max(K!Of(env, K!Secret))] \in EnvLine
          BY <4>1 DEF SecretType
        <4> QED
          BY <3>2, <4>2 DEF K!EffectiveAssignment, EnvLine
      <3> QED
        BY <3>1, <3>2
    <2>2. UNCHANGED <<env, setter, grafana, made>>
      BY <1>1 DEF K!PlanCopies
    <2>3. ASSUME NEW q \in CopyRow, copy' = [copy EXCEPT ![r] = q],
                 q.pc = "publish" => /\ K!EffectiveAssignment(q.read, K!Secret).value = q.value
                                     /\ q.value \notin {None, Refused, Empty}
          PROVE  SecretInv'
      <3> HIDE DEF v
      <3>1. \A x \in Runs : copy'[x] = IF x = r THEN q ELSE copy[x]
        BY <2>3 DEF SecretType
      <3>2. SecretType' /\ PlansStand'
        BY <2>2, <2>3, <3>1 DEF SecretType, PlansStand
      <3> QED
        BY <2>2, <3>2 DEF PasswordStands
    <2>4. ASSUME NEW pc \in {"skipped", "refused", "done"}, K!CopyEnds(r, pc) PROVE SecretInv'
      <3> DEFINE q == [pc |-> pc, value |-> None, read |-> <<>>]
      <3>1. q \in CopyRow /\ q.pc # "publish" /\ copy' = [copy EXCEPT ![r] = q]
        BY <1>0, <2>4 DEF CopyRow, K!CopyEnds, K!CopyRun
      <3> QED
        BY <2>3, <3>1
    <2>5. ASSUME v \notin {None, Refused, Empty}, copy' = [copy EXCEPT ![r] = K!CopyRun("publish", v, env)]
          PROVE  SecretInv'
      <3> DEFINE q == [pc |-> "publish", value |-> v, read |-> env]
      <3>1. q \in CopyRow
        <4> HIDE DEF v
        <4> QED
          BY <2>1, <2>5 DEF CopyRow, SecretType
      <3>2. copy' = [copy EXCEPT ![r] = q] /\ q.read = env /\ q.value = v
        BY <2>5 DEF K!CopyRun
      <3> QED
        BY <2>3, <2>5, <3>1, <3>2
    <2>6. \/ \E pc \in {"skipped", "refused", "done"} : K!CopyEnds(r, pc)
          \/ v \notin {None, Refused, Empty} /\ copy' = [copy EXCEPT ![r] = K!CopyRun("publish", v, env)]
      BY <1>1 DEF K!PlanCopies
    <2> QED
      BY <2>4, <2>5, <2>6
  <1>2. ASSUME NEW r \in Runs, K!Publish(r) \/ K!CopyDies(r) PROVE SecretInv'
    <2>1. PICK how \in {"done", "refused", "dead"} :
            copy' = [copy EXCEPT ![r] = [pc |-> how, value |-> None, read |-> <<>>]]
      BY <1>2 DEF K!Publish, K!CopyDies, K!CopyEnds, K!CopyRun
    <2>2. UNCHANGED <<env, setter, grafana, made>>
      BY <1>2 DEF K!Publish, K!CopyDies
    <2>3. SecretType' /\ PlansStand'
      BY <1>0, <2>1, <2>2 DEF SecretType, CopyRow, PlansStand
    <2> QED
      BY <2>2, <2>3 DEF PasswordStands
  <1>3. CASE K!ReadEnv
    <2> DEFINE v == K!EffectiveAssignment(env, K!Password).value
    <2>1. v \in Values \cup {None, Empty, Public, Refused} \cup Nat
      <3>1. CASE K!Of(env, K!Password) = {}
        BY <3>1 DEF K!EffectiveAssignment
      <3>2. CASE K!Of(env, K!Password) # {}
        <4>1. K!Max(K!Of(env, K!Password)) \in 1..Len(env)
          BY <3>2, LastOf DEF SecretType
        <4>2. env[K!Max(K!Of(env, K!Password))] \in EnvLine
          BY <4>1 DEF SecretType
        <4> QED
          BY <3>2, <4>2 DEF K!EffectiveAssignment, EnvLine
      <3> QED
        BY <3>1, <3>2
    <2>2. PICK pc \in {"failed", "rewrite", "apply"} :
            /\ setter' = [pc |-> pc, value |-> v, read |-> env]
            /\ pc = "rewrite" => v # Refused
            /\ pc = "apply" => ~K!PubliclyKnown(v)
      BY <1>3 DEF K!ReadEnv
    <2>3. UNCHANGED <<env, file, copy, grafana, made>>
      BY <1>3 DEF K!ReadEnv
    <2>4. SecretType'
      BY <2>1, <2>2, <2>3 DEF SecretType
    <2>5. PasswordStands'
      BY <2>2, <2>3 DEF PasswordStands
    <2> QED
      BY <2>3, <2>4, <2>5 DEF PlansStand
  <1>4. CASE K!WriteEnvFile
    <2>1. /\ setter.pc = "rewrite" /\ env' = K!WithPassword(env, made + 1)
          /\ setter' = [setter EXCEPT !.pc = "apply", !.value = made + 1]
          /\ made' = made + 1
          /\ UNCHANGED <<copy, grafana>>
      BY <1>4 DEF K!WriteEnvFile, PasswordStands
    <2>2. made + 1 \in Nat /\ ~K!PubliclyKnown(made + 1)
      BY DEF SecretType, K!SecretConstants, K!PubliclyKnown
    <2>3. /\ env' \in Seq(EnvLine)
          /\ K!EffectiveAssignment(env', K!Password).value = made + 1
          /\ K!EffectiveAssignment(env', K!Secret).value = K!EffectiveAssignment(env, K!Secret).value
      BY <2>1, <2>2, PasswordWritten DEF SecretType, PasswordStands
    <2>4. SecretType'
      BY <2>1, <2>2, <2>3 DEF SecretType
    <2>5. setter'.pc = "apply" /\ setter'.value = made + 1 /\ setter'.read = env
      BY <2>1 DEF SecretType, PasswordStands
    <2>6. PasswordStands'
      BY <2>2, <2>3, <2>5 DEF PasswordStands
    <2> QED
      BY <2>1, <2>4, <2>6 DEF PlansStand
  <1>5. CASE K!ApplyToGrafana \/ K!ProveGrafanaAccepts \/ K!SetterDies \/ K!SetterAgain
    <2>1. UNCHANGED <<env, copy, made>>
      BY <1>5 DEF K!ApplyToGrafana, K!ProveGrafanaAccepts, K!SetterDies, K!SetterAgain
    <2>2. SecretType'
      <3>1. CASE K!ApplyToGrafana \/ K!SetterDies
        BY <2>1, <3>1 DEF K!ApplyToGrafana, K!SetterDies, SecretType
      <3>2. CASE K!ProveGrafanaAccepts
        BY <2>1, <3>2 DEF K!ProveGrafanaAccepts, SecretType
      <3>3. CASE K!SetterAgain
        BY <1>0, <2>1, <3>3 DEF K!SetterAgain, SecretType
      <3> QED
        BY <1>5, <3>1, <3>2, <3>3
    <2>3. ASSUME K!ApplyToGrafana \/ K!SetterDies \/ K!SetterAgain PROVE PasswordStands'
      BY <2>1, <2>3
         DEF K!ApplyToGrafana, K!SetterDies, K!SetterAgain, SecretType, PasswordStands
    <2>4. ASSUME K!ProveGrafanaAccepts PROVE PasswordStands'
      BY <2>1, <2>4 DEF K!ProveGrafanaAccepts, K!Accepted, SecretType, PasswordStands
    <2>5. PasswordStands'
      BY <1>5, <2>3, <2>4
    <2> QED
      BY <2>1, <2>2, <2>5 DEF PlansStand
  <1>6. CASE K!Edit
    <2>1. /\ setter.pc \notin {"rewrite", "apply", "prove", "set"}
          /\ UNCHANGED <<file, copy, setter, grafana, made>>
      BY <1>6 DEF K!Edit
    <2>2. K!Lines \subseteq EnvLine
      BY DEF K!Lines, EnvLine
    <2>3. env' \in Seq(EnvLine)
      <3>1. ASSUME NEW i \in DOMAIN env, NEW l \in K!Lines, env' = [env EXCEPT ![i] = l]
            PROVE  env' \in Seq(EnvLine)
        BY <2>2, <3>1 DEF SecretType
      <3>2. ASSUME NEW l \in K!Lines, env' = Append(env, l) PROVE env' \in Seq(EnvLine)
        BY <2>2, <3>2 DEF SecretType
      <3> QED
        BY <1>6, <3>1, <3>2 DEF K!Edit
    <2> QED
      BY <2>1, <2>3 DEF SecretType, PlansStand, PasswordStands
  <1>7. CASE UNCHANGED K!vars
    BY <1>7 DEF K!vars, SecretType, PlansStand, PasswordStands
  <1> QED
    BY <1>1, <1>2, <1>3, <1>4, <1>5, <1>6, <1>7 DEF K!Next

\* A step never replaces a copied secret, and a copy that ends well leaves what the
\* verification accepts.
LEMMA SecretStep ==
    ASSUME SecretInv, [K!Next]_(K!vars)
    PROVE  /\ file # None => file' = file
           /\ \A r \in Runs : (copy[r].pc # "done" /\ copy'[r].pc = "done")
                => K!Judged(IF copy[r].pc = "publish" THEN copy[r].read ELSE env, file')
  <1> USE DEF SecretInv
  <1>1. CASE \E r \in Runs : K!PlanCopies(r)
    <2>1. PICK r \in Runs : K!PlanCopies(r)
      BY <1>1
    <2> DEFINE v == K!EffectiveAssignment(env, K!Secret).value
    <2>2. file' = file /\ copy[r].pc = "idle" /\ \A q \in Runs : q # r => copy'[q] = copy[q]
      BY <2>1 DEF K!PlanCopies, K!CopyEnds, SecretType
    <2>3. copy'[r].pc = "done" => v \notin {None, Refused, Empty} /\ file = v
      <3> HIDE DEF v
      <3>1. CASE v = None
        BY <2>1, <3>1 DEF K!PlanCopies, K!CopyEnds, K!CopyRun, SecretType, v
      <3>2. CASE v # None /\ (v \in {Refused, Empty} \/ file \notin {None, v})
        BY <2>1, <3>2 DEF K!PlanCopies, K!CopyEnds, K!CopyRun, SecretType, v
      <3>3. CASE v \notin {None, Refused, Empty} /\ file \in {None, v} /\ file = v
        BY <3>3
      <3>4. CASE v \notin {None, Refused, Empty} /\ file \in {None, v} /\ file # v
        BY <2>1, <3>4 DEF K!PlanCopies, K!CopyEnds, K!CopyRun, SecretType, v
      <3> QED
        BY <3>1, <3>2, <3>3, <3>4
    <2>4. copy'[r].pc = "done" => K!Judged(env, file')
      BY <2>2, <2>3 DEF K!Judged
    <2> QED
      BY <2>2, <2>4
  <1>2. CASE \E r \in Runs : K!Publish(r)
    <2>1. PICK r \in Runs : K!Publish(r)
      BY <1>2
    <2>2. /\ copy[r].pc = "publish"
          /\ file' = IF file = None THEN copy[r].value ELSE file
          /\ \A q \in Runs : q # r => copy'[q] = copy[q]
          /\ copy'[r].pc = "done" => file \in {None, copy[r].value}
      BY <2>1 DEF K!Publish, K!Link, K!CopyEnds, K!CopyRun, SecretType
    <2>3. copy'[r].pc = "done" => K!Judged(copy[r].read, file')
      BY <2>2 DEF PlansStand, K!Judged
    <2> QED
      BY <2>2, <2>3
  <1>3. CASE \E r \in Runs : K!CopyDies(r)
    BY <1>3 DEF K!CopyDies, K!CopyEnds, K!CopyRun, SecretType
  <1>4. CASE \/ K!ReadEnv \/ K!WriteEnvFile \/ K!ApplyToGrafana \/ K!ProveGrafanaAccepts
             \/ K!SetterDies \/ K!SetterAgain \/ K!Edit
    BY <1>4 DEF K!ReadEnv, K!WriteEnvFile, K!ApplyToGrafana, K!ProveGrafanaAccepts,
                K!SetterDies, K!SetterAgain, K!Edit
  <1>5. CASE UNCHANGED K!vars
    BY <1>5 DEF K!vars
  <1> QED
    BY <1>1, <1>2, <1>3, <1>4, <1>5 DEF K!Next

\* A copied secret is not overwritten by another copy or after an edit, and passes the
\* verification before a deploy; when the password command says "set", Grafana and .env
\* have the same password and no other key means something else (_publish, _with_password).
THEOREM SecretsKeepStanding == Spec => SecretsStand
  <1>1. Init => SecretInv
    BY PartConstants, SecretInit DEF Init
  <1>2. [Next]_vars => [K!Next]_(K!vars)
    BY DEF Next, vars, K!vars, secretVars
  <1>3. SecretInv /\ [Next]_vars => SecretInv'
    BY <1>2, PartConstants, SecretNext
  <1>4. SecretInv => K!PasswordIsSet
    BY DEF SecretInv, PasswordStands, K!PasswordIsSet
  <1>5. SecretInv /\ [Next]_vars =>
          [/\ file # None => file' = file
           /\ \A r \in Runs : (copy[r].pc # "done" /\ copy'[r].pc = "done")
                => K!Judged(IF copy[r].pc = "publish" THEN copy[r].read ELSE env, file')]_(K!vars)
    BY <1>2, SecretStep
  <1> QED
    BY <1>1, <1>3, <1>4, <1>5, PTL DEF Spec, SecretsStand, K!SecretIsKept
-----------------------------------------------------------------------------
(* The built streams of queues.                                             *)

\* The operators of FiniteSets that QueueStreams brings with it.
LEMMA QueueSets ==
    ASSUME NEW S PROVE (Q!IsFiniteSet(S) <=> IsFiniteSet(S)) /\ Q!Cardinality(S) = Cardinality(S)
  <1>1. Q!IsFiniteSet(S) <=> IsFiniteSet(S)
    BY DEF Q!IsFiniteSet, IsFiniteSet
  <1>2. Q!Cardinality(S) = Cardinality(S)
    BY DEF Q!Cardinality, Cardinality, Q!IsFiniteSet, IsFiniteSet
  <1> QED
    BY <1>1, <1>2

\* Where a stream request inside its build lock is, and where one is at all.
Inside == {"building", "placed", "saved", "done"}
Stages == {"idle", "waiting"} \cup Inside
\* The types of a stream request and of a lock entry.
StreamRow ==
    [pc : Stages, want : Q!Contents \cup {None}, entry : Builders \cup {None},
     snap : Snaps \cup {None}, before : SUBSET Builders]
EntryRow == [holder : Builders \cup {None}, waiters : Nat]

\* The types of the requests and of their locks.
LockType ==
    /\ task \in [Builders -> StreamRow]
    /\ lockOf \in [Q!Contents -> Builders \cup {None}]
    /\ entry \in [Builders -> EntryRow]
    /\ offer \in (SUBSET Takes) \cup {None}

\* A request is idle or waits on the entry of its content.
WaitsOnItsEntry ==
    \A b \in Builders : IF task[b].pc = "idle" THEN task[b] = Q!Idle
                        ELSE /\ task[b].want \in Q!Contents /\ task[b].entry \in Builders
                             /\ lockOf[task[b].want] = task[b].entry

\* The requests that know an entry.
Knowing(e) == {b \in Builders : task[b].entry = e}

\* No entry serves two contents, and one that serves any is known to a request.
EntriesApart ==
    \A c, d \in Q!Contents : lockOf[c] # None =>
        /\ entry[lockOf[c]].waiters > 0
        /\ lockOf[c] = lockOf[d] => c = d

\* An entry counts the requests that know it.
WaitersCounted == \A e \in Builders : entry[e].waiters = Cardinality(Knowing(e))

\* Who is inside holds the lock of its entry, and who holds one is inside.
HoldersInside ==
    /\ \A b \in Builders : task[b].pc \in Inside => entry[task[b].entry].holder = b
    /\ \A e \in Builders : entry[e].holder # None =>
          /\ task[entry[e].holder].pc \in Inside
          /\ task[entry[e].holder].entry = e

\* The inductive invariant of the build locks.
LocksHold == LockType /\ WaitsOnItsEntry /\ EntriesApart /\ WaitersCounted /\ HoldersInside

\* The sets of requests are finite.
LEMMA KnowingFinite ==
    ASSUME Q!QueueConstants, NEW S \in SUBSET Builders
    PROVE  IsFiniteSet(S) /\ Cardinality(S) \in Nat
  <1>1. IsFiniteSet(Builders)
    BY QueueSets DEF Q!QueueConstants
  <1> QED
    BY <1>1, FS_Subset, FS_CardinalityType

\* Before the first request.
LEMMA LocksInit == ASSUME Q!QueueConstants PROVE Q!Init => LocksHold
  <1> SUFFICES ASSUME Q!Init PROVE LocksHold
    OBVIOUS
  <1>0. None \notin Builders
    BY DEF Q!QueueConstants
  <1>1. LockType
    BY DEF Q!Init, Q!Idle, Q!NoEntry, LockType, StreamRow, EntryRow, Stages, Inside
  <1>2. \A e \in Builders : Knowing(e) = {}
    BY <1>0 DEF Q!Init, Q!Idle, Knowing
  <1>3. WaitersCounted
    BY <1>2, FS_EmptySet DEF Q!Init, Q!NoEntry, WaitersCounted
  <1>4. WaitsOnItsEntry /\ EntriesApart /\ HoldersInside
    BY DEF Q!Init, Q!Idle, Q!NoEntry, WaitsOnItsEntry, EntriesApart, HoldersInside, Inside
  <1> QED
    BY <1>1, <1>3, <1>4 DEF LocksHold

\* What the locks see of a request does not change.
SameLock ==
    /\ UNCHANGED <<lockOf, entry>>
    /\ task' \in [Builders -> StreamRow]
    /\ offer' \in (SUBSET Takes) \cup {None}
    /\ \A b \in Builders :
          /\ task[b].pc = "idle" => task'[b] = task[b]
          /\ task'[b].pc = "idle" <=> task[b].pc = "idle"
          /\ task'[b].pc \in Inside <=> task[b].pc \in Inside
          /\ task'[b].want = task[b].want /\ task'[b].entry = task[b].entry
\* Then their invariant stands.
LEMMA LocksKeep == ASSUME LocksHold, SameLock PROVE LocksHold'
  <1> USE DEF LocksHold, SameLock
  <1>1. LockType'
    BY DEF LockType
  <1>2. WaitsOnItsEntry'
    BY DEF WaitsOnItsEntry
  <1>3. EntriesApart'
    BY DEF EntriesApart
  <1>4. \A e \in Builders : Knowing(e)' = Knowing(e)
    BY DEF Knowing
  <1>5. WaitersCounted'
    BY <1>4 DEF WaitersCounted
  <1>6. HoldersInside'
    BY DEF HoldersInside, LockType, EntryRow
  <1> QED
    BY <1>1, <1>2, <1>3, <1>5, <1>6

\* While a request is idle some entry is unknown: no more are known than there are others.
LEMMA FreeEntry ==
    ASSUME Q!QueueConstants, LocksHold, NEW b \in Builders, task[b].pc = "idle"
    PROVE  \E x \in Builders : entry[x] = Q!NoEntry
  <1> USE DEF LocksHold
  <1>1. SUFFICES ASSUME \A x \in Builders : entry[x] # Q!NoEntry PROVE FALSE
    OBVIOUS
  <1>2. ASSUME NEW x \in Builders PROVE Knowing(x) # {}
    <2>1. entry[x] \in EntryRow
      BY DEF LockType
    <2>2. entry[x].holder # None \/ entry[x].waiters # 0
      BY <1>1, <2>1 DEF EntryRow, Q!NoEntry
    <2>3. CASE entry[x].holder # None
      <3>1. entry[x].holder \in Builders /\ task[entry[x].holder].entry = x
        BY <2>1, <2>3 DEF EntryRow, HoldersInside
      <3> QED
        BY <3>1 DEF Knowing
    <2>4. CASE entry[x].waiters # 0
      BY <2>4, FS_EmptySet DEF WaitersCounted
    <2> QED
      BY <2>2, <2>3, <2>4
  <1> DEFINE D == {o \in Builders : task[o].entry \in Builders}
             f == [o \in D |-> task[o].entry]
  <1>3. b \notin D
    <2>1. task[b] = Q!Idle
      BY DEF WaitsOnItsEntry
    <2> QED
      BY <2>1 DEF Q!Idle, Q!QueueConstants
  <1>4. IsFiniteSet(Builders) /\ IsFiniteSet(D) /\ D \in SUBSET Builders /\ D # Builders
    BY <1>3, KnowingFinite, QueueSets DEF Q!QueueConstants
  <1>5. f \in Surjection(D, Builders)
    <2>1. f \in [D -> Builders]
      OBVIOUS
    <2>2. \A x \in Builders : \E o \in D : f[o] = x
      BY <1>2 DEF Knowing
    <2> HIDE DEF f, D
    <2> QED
      BY <2>1, <2>2 DEF Surjection
  <1>6. Cardinality(Builders) <= Cardinality(D)
    BY <1>4, <1>5, FS_Surjection
  <1>7. Cardinality(D) < Cardinality(Builders)
    <2>1. Cardinality(D) <= Cardinality(Builders) /\ (Cardinality(D) = Cardinality(Builders) => D = Builders)
      BY <1>4, FS_Subset
    <2>2. Cardinality(D) \in Nat /\ Cardinality(Builders) \in Nat
      BY <1>4, FS_CardinalityType
    <2> QED
      BY <1>4, <2>1, <2>2
  <1>8. Cardinality(D) \in Nat /\ Cardinality(Builders) \in Nat
    BY <1>4, FS_CardinalityType
  <1> HIDE DEF D
  <1> QED
    BY <1>6, <1>7, <1>8

\* A new request knows the entry of its content, or makes one.
LEMMA RequestLocks ==
    ASSUME Q!QueueConstants, LocksHold, NEW b \in Builders, Q!Request(b)
    PROVE  LocksHold'
  <1> USE DEF LocksHold
  <1>0. None \notin Builders
    BY DEF Q!QueueConstants
  <1> DEFINE e == IF lockOf[offer] # None THEN lockOf[offer] ELSE CHOOSE x \in Builders : entry[x] = Q!NoEntry
             new == [pc |-> "waiting", want |-> offer, entry |-> e, snap |-> None, before |-> {}]
  <1>1. /\ task[b] = Q!Idle /\ offer # None /\ offer # {} /\ offer' = offer
        /\ lockOf' = [lockOf EXCEPT ![offer] = e] /\ entry' = [entry EXCEPT ![e].waiters = @ + 1]
        /\ task' = [task EXCEPT ![b] = new]
    BY DEF Q!Request
  <1>2. task[b].pc = "idle" /\ task[b].entry = None
    BY <1>1 DEF Q!Idle
  <1>3. offer \in Q!Contents
    <2>1. offer # None /\ offer # {} /\ offer \in (SUBSET Takes) \cup {None}
      BY <1>1 DEF LockType
    <2> QED
      BY <2>1 DEF Q!Contents
  <1>4. e \in Builders /\ (lockOf[offer] # None => e = lockOf[offer]) /\ (lockOf[offer] = None => entry[e] = Q!NoEntry)
    <2>1. CASE lockOf[offer] # None
      BY <1>3, <2>1 DEF LockType
    <2>2. CASE lockOf[offer] = None
      BY <1>2, <2>2, FreeEntry
    <2> QED
      BY <2>1, <2>2
  <1> HIDE DEF e
  <1>5. new \in StreamRow
    BY <1>3, <1>4 DEF StreamRow, Stages
  <1>6. /\ task' \in [Builders -> StreamRow] /\ task'[b] = new
        /\ \A o \in Builders \ {b} : task'[o] = task[o]
    <2> HIDE DEF new
    <2> QED
      BY <1>1, <1>5 DEF LockType
  <1>7. /\ entry' \in [Builders -> EntryRow]
        /\ entry'[e].waiters = entry[e].waiters + 1 /\ entry'[e].holder = entry[e].holder
        /\ \A x \in Builders \ {e} : entry'[x] = entry[x]
        /\ entry[e].waiters \in Nat
    BY <1>1, <1>4 DEF LockType, EntryRow
  <1>8. /\ lockOf' \in [Q!Contents -> Builders \cup {None}]
        /\ lockOf'[offer] = e /\ \A c \in Q!Contents \ {offer} : lockOf'[c] = lockOf[c]
    BY <1>1, <1>3, <1>4 DEF LockType
  <1>9. LockType'
    BY <1>1, <1>6, <1>7, <1>8 DEF LockType
  <1>10. task'[b].pc = "waiting" /\ task'[b].want = offer /\ task'[b].entry = e
    BY <1>6
  <1>11. WaitsOnItsEntry'
    <2>1. ASSUME NEW o \in Builders \ {b}, task[o].pc # "idle" PROVE lockOf'[task[o].want] = task[o].entry
      <3>1. task[o].want \in Q!Contents /\ lockOf[task[o].want] = task[o].entry /\ task[o].entry \in Builders
        BY <2>1 DEF WaitsOnItsEntry
      <3>2. CASE task[o].want = offer
        BY <1>0, <1>4, <1>8, <3>1, <3>2
      <3>3. CASE task[o].want # offer
        BY <1>8, <3>1, <3>3
      <3> QED
        BY <3>2, <3>3
    <2> HIDE DEF new
    <2> QED
      BY <1>3, <1>4, <1>6, <1>8, <1>10, <2>1 DEF WaitsOnItsEntry
  <1>12. EntriesApart'
    <2>1. ASSUME NEW c \in Q!Contents, lockOf'[c] # None PROVE entry'[lockOf'[c]].waiters > 0
      <3>1. CASE lockOf'[c] = e
        BY <1>7, <3>1
      <3>2. CASE lockOf'[c] # e
        BY <1>7, <1>8, <2>1, <3>2 DEF EntriesApart, LockType
      <3> QED
        BY <3>1, <3>2
    <2>2. ASSUME NEW c \in Q!Contents, lockOf[c] # None, lockOf[c] = e PROVE c = offer
      <3>1. CASE lockOf[offer] # None
        BY <1>3, <1>4, <2>2, <3>1 DEF EntriesApart
      <3>2. CASE lockOf[offer] = None
        BY <1>4, <2>2, <3>2 DEF EntriesApart, Q!NoEntry
      <3> QED
        BY <3>1, <3>2
    <2>3. ASSUME NEW c \in Q!Contents, NEW d \in Q!Contents, lockOf'[c] # None, lockOf'[c] = lockOf'[d]
          PROVE  c = d
      <3>1. CASE c = offer /\ d = offer
        BY <3>1
      <3>2. CASE c = offer /\ d # offer
        BY <1>8, <2>2, <2>3, <3>2
      <3>3. CASE c # offer /\ d = offer
        BY <1>8, <2>2, <2>3, <3>3
      <3>4. CASE c # offer /\ d # offer
        BY <1>8, <2>3, <3>4 DEF EntriesApart
      <3> QED
        BY <3>1, <3>2, <3>3, <3>4
    <2> QED
      BY <2>1, <2>3 DEF EntriesApart
  <1>13. WaitersCounted'
    <2>0. PICK k \in Builders : k = e
      BY <1>4
    <2>1. Knowing(k)' = Knowing(k) \cup {b} /\ b \notin Knowing(k)
      <3>1. task[b].entry # k /\ task'[b].entry = k
        BY <1>0, <1>2, <1>4, <1>10, <2>0
      <3>2. \A o \in Builders \ {b} : task'[o].entry = task[o].entry
        BY <1>6
      <3> HIDE DEF new
      <3> QED
        BY <3>1, <3>2 DEF Knowing
    <2>2. \A x \in Builders \ {k} : Knowing(x)' = Knowing(x)
      <3>1. \A x \in Builders \ {k} : task[b].entry # x /\ task'[b].entry # x
        BY <1>0, <1>2, <1>4, <1>10, <2>0
      <3>2. \A o \in Builders \ {b} : task'[o].entry = task[o].entry
        BY <1>6
      <3> HIDE DEF new
      <3> QED
        BY <3>1, <3>2 DEF Knowing
    <2>3. IsFiniteSet(Knowing(k)) /\ Cardinality(Knowing(k)) \in Nat
      BY KnowingFinite DEF Knowing
    <2>4. Cardinality(Knowing(k)') = Cardinality(Knowing(k)) + 1
      BY <2>1, <2>3, FS_AddElement
    <2>5. entry'[k].waiters = Cardinality(Knowing(k)')
      BY <1>4, <1>7, <2>0, <2>4 DEF WaitersCounted
    <2>6. \A x \in Builders \ {k} : entry'[x].waiters = Cardinality(Knowing(x)')
      BY <1>7, <2>0, <2>2 DEF WaitersCounted
    <2>7. \A x \in Builders : entry'[x].waiters = Cardinality(Knowing(x)')
      BY <2>5, <2>6
    <2> QED
      BY <2>7 DEF WaitersCounted
  <1>14. HoldersInside'
    <2>1. \A x \in Builders : entry'[x].holder = entry[x].holder
      BY <1>7
    <2>2. ASSUME NEW x \in Builders, entry[x].holder # None
          PROVE  entry[x].holder \in Builders \ {b}
      BY <1>2, <2>2 DEF HoldersInside, LockType, EntryRow, Inside
    <2>3. ASSUME NEW o \in Builders, task'[o].pc \in Inside PROVE o # b /\ task[o].entry \in Builders
      BY <1>6, <1>10, <2>3 DEF WaitsOnItsEntry, Inside
    <2> HIDE DEF new
    <2> QED
      BY <1>6, <2>1, <2>2, <2>3 DEF HoldersInside
  <1> QED
    BY <1>9, <1>11, <1>12, <1>13, <1>14

\* Taking the lock makes its holder one that is inside.
LEMMA AcquireLocks ==
    ASSUME Q!QueueConstants, LocksHold, NEW b \in Builders, Q!Acquire(b)
    PROVE  LocksHold'
  <1> USE DEF LocksHold
  <1>0. None \notin Builders
    BY DEF Q!QueueConstants
  <1> DEFINE e == task[b].entry
  <1>1. /\ task[b].pc = "waiting" /\ entry[e].holder = None /\ lockOf' = lockOf /\ offer' = offer
        /\ entry' = [entry EXCEPT ![e].holder = b]
    BY DEF Q!Acquire
  <1>2. task[b] \in StreamRow /\ e \in Builders
    BY <1>1 DEF LockType, WaitsOnItsEntry
  <1> DEFINE goal == /\ task' \in [Builders -> StreamRow] /\ task'[b].pc \in Inside
                     /\ task'[b].want = task[b].want /\ task'[b].entry = task[b].entry
                     /\ \A o \in Builders \ {b} : task'[o] = task[o]
  <1>3. goal
    <2>1. CASE task' = [task EXCEPT ![b].pc = "done"]
      <3>1. [task[b] EXCEPT !.pc = "done"] \in StreamRow
        BY <1>2 DEF StreamRow, Stages, Inside
      <3> QED
        BY <1>2, <2>1, <3>1 DEF LockType, Inside, StreamRow
    <2>2. ASSUME NEW s \in Snaps,
                 task' = [task EXCEPT ![b].pc = "building", ![b].snap = s,
                                      ![b].before = {o \in Builders : task[o].pc = "placed"}]
          PROVE  goal
      <3> DEFINE new == [task[b] EXCEPT !.pc = "building", !.snap = s, !.before = {o \in Builders : task[o].pc = "placed"}]
      <3>1. new \in StreamRow /\ new.pc = "building" /\ new.want = task[b].want /\ new.entry = task[b].entry
        BY <1>2 DEF StreamRow, Stages, Inside
      <3>2. task' = [task EXCEPT ![b] = new]
        BY <2>2
      <3> HIDE DEF new
      <3> QED
        BY <3>1, <3>2 DEF LockType, Inside
    <2> QED
      BY <2>1, <2>2 DEF Q!Acquire
  <1> HIDE DEF e
  <1>30. /\ task' \in [Builders -> StreamRow] /\ task'[b].pc \in Inside
         /\ task'[b].want = task[b].want /\ task'[b].entry = e
         /\ \A o \in Builders \ {b} : task'[o] = task[o]
    BY <1>3 DEF e
  <1> HIDE DEF goal
  <1>4. /\ entry' \in [Builders -> EntryRow] /\ entry'[e].holder = b
        /\ \A x \in Builders : entry'[x].waiters = entry[x].waiters
        /\ \A x \in Builders \ {e} : entry'[x] = entry[x]
    BY <1>1, <1>2 DEF LockType, EntryRow
  <1>5. LockType'
    BY <1>1, <1>30, <1>4 DEF LockType
  <1>6. WaitsOnItsEntry'
    BY <1>1, <1>2, <1>30 DEF WaitsOnItsEntry, Inside, e
  <1>7. EntriesApart'
    BY <1>1, <1>4 DEF EntriesApart, LockType
  <1>8. \A x \in Builders : Knowing(x)' = Knowing(x)
    BY <1>30 DEF Knowing, e
  <1>9. WaitersCounted'
    BY <1>4, <1>8 DEF WaitersCounted
  <1>10. HoldersInside'
    <2>1. ASSUME NEW o \in Builders, task'[o].pc \in Inside PROVE entry'[task'[o].entry].holder = o
      <3>1. CASE o = b
        BY <1>30, <1>4, <3>1
      <3>2. CASE o # b
        <4>1. task[o].pc \in Inside /\ task[o].entry \in Builders /\ entry[task[o].entry].holder = o
          BY <1>30, <2>1, <3>2 DEF HoldersInside, WaitsOnItsEntry, Inside
        <4>2. task[o].entry # e
          BY <1>0, <1>1, <4>1
        <4> QED
          BY <1>30, <1>4, <3>2, <4>1, <4>2
      <3> QED
        BY <3>1, <3>2
    <2>2. ASSUME NEW x \in Builders, entry'[x].holder # None
          PROVE  task'[entry'[x].holder].pc \in Inside /\ task'[entry'[x].holder].entry = x
      <3>1. CASE x = e
        BY <1>30, <1>4, <3>1
      <3>2. CASE x # e
        <4>1. entry[x].holder # None /\ entry'[x].holder = entry[x].holder /\ entry[x].holder \in Builders
          BY <1>4, <2>2, <3>2 DEF LockType, EntryRow
        <4>2. task[entry[x].holder].pc \in Inside /\ task[entry[x].holder].entry = x
          BY <4>1 DEF HoldersInside
        <4>3. entry[x].holder # b
          BY <1>1, <4>2 DEF Inside
        <4> QED
          BY <1>30, <4>1, <4>2, <4>3
      <3> QED
        BY <3>1, <3>2
    <2> QED
      BY <2>1, <2>2 DEF HoldersInside
  <1> QED
    BY <1>5, <1>6, <1>7, <1>9, <1>10

\* Who leaves frees the lock, and the last that knows the entry drops it.
LEMMA LeaveLocks ==
    ASSUME Q!QueueConstants, LocksHold, NEW b \in Builders, Q!Leave(b)
    PROVE  LocksHold'
  <1> USE DEF LocksHold
  <1>0. None \notin Builders
    BY DEF Q!QueueConstants
  <1>1. /\ task[b].pc = "done" /\ task' = [task EXCEPT ![b] = Q!Idle] /\ offer' = offer
        /\ entry' = [entry EXCEPT ![task[b].entry] = [holder |-> None, waiters |-> @.waiters - 1]]
        /\ lockOf' = IF Q!LastWaiter(task[b].entry) /\ lockOf[task[b].want] = task[b].entry
                     THEN [lockOf EXCEPT ![task[b].want] = None] ELSE lockOf
    BY DEF Q!Leave
  <1>2. /\ task[b].entry \in Builders /\ task[b].want \in Q!Contents /\ lockOf[task[b].want] = task[b].entry
        /\ entry[task[b].entry].holder = b
    BY <1>1 DEF WaitsOnItsEntry, HoldersInside, Inside
  <1>3. PICK e \in Builders, c \in Q!Contents : e = task[b].entry /\ c = task[b].want
    BY <1>2
  <1>4. /\ task' \in [Builders -> StreamRow] /\ task'[b] = Q!Idle
        /\ \A o \in Builders \ {b} : task'[o] = task[o]
    <2>1. Q!Idle \in StreamRow
      BY DEF Q!Idle, StreamRow, Stages
    <2> QED
      BY <1>1, <2>1 DEF LockType
  <1>5. IsFiniteSet(Knowing(e)) /\ Cardinality(Knowing(e)) \in Nat /\ b \in Knowing(e)
    BY <1>3, KnowingFinite DEF Knowing
  <1>6. Knowing(e)' = Knowing(e) \ {b} /\ \A x \in Builders \ {e} : Knowing(x)' = Knowing(x)
    <2>1. task'[b].entry = None
      BY <1>4 DEF Q!Idle
    <2>2. \A o \in Builders \ {b} : task'[o].entry = task[o].entry
      BY <1>4
    <2> QED
      BY <1>0, <1>3, <2>1, <2>2 DEF Knowing
  <1>7. Cardinality(Knowing(e)') = Cardinality(Knowing(e)) - 1 /\ Cardinality(Knowing(e)') \in Nat
    BY <1>5, <1>6, FS_RemoveElement, FS_CardinalityType
  <1>8. entry[e].waiters = Cardinality(Knowing(e))
    BY DEF WaitersCounted
  <1>9. /\ entry' \in [Builders -> EntryRow]
        /\ entry'[e].holder = None /\ entry'[e].waiters = entry[e].waiters - 1
        /\ \A x \in Builders \ {e} : entry'[x] = entry[x]
    <2>1. PICK w \in Nat : w = entry[e].waiters - 1
      BY <1>7, <1>8
    <2>2. [holder |-> None, waiters |-> w] \in EntryRow
      BY DEF EntryRow
    <2>3. entry' = [entry EXCEPT ![e] = [holder |-> None, waiters |-> w]]
      BY <1>1, <1>3, <2>1 DEF LockType
    <2> QED
      BY <2>1, <2>2, <2>3 DEF LockType
  <1>10. /\ lockOf' \in [Q!Contents -> Builders \cup {None}]
         /\ \A d \in Q!Contents \ {c} : lockOf'[d] = lockOf[d]
         /\ IF entry[e].waiters = 1 THEN lockOf'[c] = None ELSE lockOf' = lockOf
    BY <1>1, <1>2, <1>3 DEF LockType, Q!LastWaiter
  <1>11. LockType'
    BY <1>1, <1>4, <1>9, <1>10 DEF LockType
  <1>12. ASSUME NEW o \in Builders \ {b}, task[o].pc # "idle", task[o].want = c PROVE lockOf' = lockOf
    <2>1. o \in Knowing(e)'
      BY <1>2, <1>3, <1>4, <1>12 DEF WaitsOnItsEntry, Knowing
    <2>2. Cardinality(Knowing(e)') # 0
      <3>1. IsFiniteSet(Knowing(e)')
        BY <1>5, <1>6, FS_Subset
      <3> QED
        BY <2>1, <3>1, FS_EmptySet
    <2> QED
      BY <1>7, <1>8, <1>10, <2>2
  <1>13. WaitsOnItsEntry'
    <2>1. ASSUME NEW o \in Builders \ {b}, task[o].pc # "idle"
          PROVE  task[o].want \in Q!Contents /\ task[o].entry \in Builders /\ lockOf'[task[o].want] = task[o].entry
      <3>1. task[o].want \in Q!Contents /\ task[o].entry \in Builders /\ lockOf[task[o].want] = task[o].entry
        BY <2>1 DEF WaitsOnItsEntry
      <3> QED
        BY <1>10, <1>12, <2>1, <3>1
    <2>2. \A o \in Builders \ {b} : task[o].pc = "idle" => task'[o] = Q!Idle
      BY <1>4 DEF WaitsOnItsEntry
    <2>3. task'[b].pc = "idle" /\ task'[b] = Q!Idle
      BY <1>4 DEF Q!Idle
    <2> QED
      BY <1>4, <2>1, <2>2, <2>3 DEF WaitsOnItsEntry
  <1>14. EntriesApart'
    <2>1. ASSUME NEW d \in Q!Contents, lockOf'[d] # None PROVE lockOf'[d] = lockOf[d]
      BY <1>10, <2>1
    <2>2. ASSUME NEW d \in Q!Contents, lockOf'[d] # None PROVE entry'[lockOf'[d]].waiters > 0
      <3>1. lockOf[d] # None /\ lockOf[d] \in Builders /\ entry[lockOf[d]].waiters > 0
        BY <2>1, <2>2 DEF EntriesApart, LockType
      <3>2. CASE lockOf[d] # e
        BY <1>9, <2>1, <2>2, <3>1, <3>2
      <3>3. CASE lockOf[d] = e
        <4>1. d = c
          BY <1>2, <1>3, <3>1, <3>3 DEF EntriesApart
        <4>2. entry[e].waiters # 1
          BY <1>10, <2>2, <4>1
        <4>3. entry[e].waiters \in Nat
          BY DEF LockType, EntryRow
        <4> QED
          BY <1>9, <2>1, <2>2, <3>1, <3>3, <4>2, <4>3
      <3> QED
        BY <3>2, <3>3
    <2> QED
      BY <2>1, <2>2 DEF EntriesApart
  <1>15. WaitersCounted'
    <2>1. \A x \in Builders \ {e} : entry'[x].waiters = Cardinality(Knowing(x)')
      BY <1>6, <1>9 DEF WaitersCounted
    <2>2. \A x \in Builders : entry'[x].waiters = Cardinality(Knowing(x)')
      BY <1>7, <1>8, <1>9, <2>1
    <2> QED
      BY <2>2 DEF WaitersCounted
  <1>16. HoldersInside'
    <2>1. ASSUME NEW o \in Builders, task'[o].pc \in Inside PROVE entry'[task'[o].entry].holder = o
      <3>1. o # b
        BY <1>4, <2>1 DEF Q!Idle, Inside
      <3>2. task[o].pc \in Inside /\ task[o].entry \in Builders /\ entry[task[o].entry].holder = o
        BY <1>4, <2>1, <3>1 DEF HoldersInside, WaitsOnItsEntry, Inside
      <3>3. task[o].entry # e
        BY <1>2, <1>3, <3>1, <3>2
      <3> QED
        BY <1>4, <1>9, <3>1, <3>2, <3>3
    <2>2. ASSUME NEW x \in Builders, entry'[x].holder # None
          PROVE  task'[entry'[x].holder].pc \in Inside /\ task'[entry'[x].holder].entry = x
      <3>1. x # e /\ entry'[x] = entry[x] /\ entry[x].holder \in Builders
        BY <1>9, <2>2 DEF LockType, EntryRow
      <3>2. task[entry[x].holder].pc \in Inside /\ task[entry[x].holder].entry = x
        BY <2>2, <3>1 DEF HoldersInside
      <3>3. entry[x].holder # b
        BY <1>3, <3>1, <3>2
      <3> QED
        BY <1>4, <3>1, <3>2, <3>3
    <2> QED
      BY <2>1, <2>2 DEF HoldersInside
  <1> QED
    BY <1>11, <1>13, <1>14, <1>15, <1>16

\* After the server's death no request knows anything.
LEMMA CrashLocks == ASSUME Q!QueueConstants, LocksHold, Q!Crash PROVE LocksHold'
  <1>0. None \notin Builders
    BY DEF Q!QueueConstants
  <1>1. /\ task' = [b \in Builders |-> Q!Idle] /\ lockOf' = [c \in Q!Contents |-> None]
        /\ entry' = [e \in Builders |-> Q!NoEntry] /\ offer' = offer
    BY DEF Q!Crash
  <1>2. LockType'
    BY <1>1 DEF LocksHold, Q!Idle, Q!NoEntry, LockType, StreamRow, EntryRow, Stages, Inside
  <1>3. \A e \in Builders : Knowing(e)' = {}
    BY <1>0, <1>1 DEF Q!Idle, Knowing
  <1>4. WaitersCounted'
    BY <1>1, <1>3, FS_EmptySet DEF Q!NoEntry, WaitersCounted
  <1>5. WaitsOnItsEntry' /\ EntriesApart' /\ HoldersInside'
    BY <1>1 DEF Q!Idle, Q!NoEntry, WaitsOnItsEntry, EntriesApart, HoldersInside, Inside
  <1> QED
    BY <1>2, <1>4, <1>5 DEF LocksHold

\* A request moves on inside its lock.
LEMMA MovesOn ==
    ASSUME LocksHold, NEW b \in Builders, NEW p \in {"building", "placed", "saved"},
           NEW q \in Inside, NEW r \in SUBSET Builders,
           task[b].pc = p, UNCHANGED <<lockOf, entry, offer>>,
           task' = [task EXCEPT ![b] = [task[b] EXCEPT !.pc = q, !.before = r]]
    PROVE  SameLock
  <1>1. task[b] \in StreamRow /\ task \in [Builders -> StreamRow] /\ offer \in (SUBSET Takes) \cup {None}
    BY DEF LocksHold, LockType
  <1> DEFINE new == [task[b] EXCEPT !.pc = q, !.before = r]
  <1>2. new \in StreamRow /\ new.pc = q /\ new.want = task[b].want /\ new.entry = task[b].entry
    BY <1>1 DEF StreamRow, Stages
  <1> HIDE DEF new
  <1>3. task' \in [Builders -> StreamRow] /\ task'[b] = new /\ \A o \in Builders \ {b} : task'[o] = task[o]
    BY <1>1, <1>2 DEF new
  <1> QED
    BY <1>1, <1>2, <1>3 DEF SameLock, Inside

\* Every step of the streams keeps the invariant of their locks.
LEMMA LocksStep == ASSUME Q!QueueConstants, LocksHold, [Q!Next]_(Q!vars) PROVE LocksHold'
  <1>0. \A b \in Builders : task[b] \in StreamRow
    BY DEF LocksHold, LockType
  <1>1. ASSUME NEW b \in Builders, Q!PlaceAudio(b) PROVE SameLock
    <2>1. task[b].pc = "building" /\ UNCHANGED <<lockOf, entry, offer>> /\ task' = [task EXCEPT ![b].pc = "placed"]
      BY <1>1 DEF Q!PlaceAudio, Q!locks
    <2>2. [task[b] EXCEPT !.pc = "placed"] = [task[b] EXCEPT !.pc = "placed", !.before = task[b].before]
          /\ task[b].before \in SUBSET Builders
      BY <1>0 DEF StreamRow
    <2> QED
      BY <2>1, <2>2, MovesOn DEF Inside
  <1>2. ASSUME NEW b \in Builders, Q!BuildFails(b) PROVE SameLock
    <2>1. task[b].pc = "building" /\ UNCHANGED <<lockOf, entry, offer>>
          /\ task' = [task EXCEPT ![b] = [task[b] EXCEPT !.pc = "done", !.before = {}]]
      BY <1>2 DEF Q!BuildFails, Q!locks
    <2>2. {} \in SUBSET Builders /\ "done" \in Inside
      BY DEF Inside
    <2> QED
      BY <2>1, <2>2, MovesOn
  <1>3. ASSUME NEW b \in Builders, Q!Answer(b) PROVE SameLock
    <2>1. task[b].pc = "saved" /\ UNCHANGED <<lockOf, entry, offer>> /\ task' = [task EXCEPT ![b].pc = "done"]
      BY <1>3 DEF Q!Answer, Q!locks
    <2>2. [task[b] EXCEPT !.pc = "done"] = [task[b] EXCEPT !.pc = "done", !.before = task[b].before]
          /\ task[b].before \in SUBSET Builders
      BY <1>0 DEF StreamRow
    <2> QED
      BY <2>1, <2>2, MovesOn DEF Inside
  <1>4. ASSUME NEW b \in Builders, Q!SaveManifest(b) PROVE SameLock
    <2>1. /\ task[b].pc = "placed" /\ UNCHANGED <<lockOf, entry, offer>>
          /\ task' = [o \in Builders |-> IF o = b THEN [task[b] EXCEPT !.pc = "saved"]
                                         ELSE [task[o] EXCEPT !.before = @ \ {b}]]
      BY <1>4 DEF Q!SaveManifest, Q!locks
    <2>2. ASSUME NEW o \in Builders
          PROVE  /\ task'[o] \in StreamRow /\ task'[o].want = task[o].want /\ task'[o].entry = task[o].entry
                 /\ o # b => task'[o].pc = task[o].pc
                 /\ o = b => task'[o].pc = "saved"
      <3>1. CASE o = b
        <4>1. task'[o] = [task[b] EXCEPT !.pc = "saved"]
          BY <2>1, <3>1
        <4> QED
          BY <1>0, <3>1, <4>1 DEF StreamRow, Stages, Inside
      <3>2. CASE o # b
        <4>1. task'[o] = [task[o] EXCEPT !.before = task[o].before \ {b}]
          BY <2>1, <3>2
        <4> QED
          BY <1>0, <3>2, <4>1 DEF StreamRow
      <3> QED
        BY <3>1, <3>2
    <2>3. \A o \in Builders : task[o].pc = "idle" => task'[o] = task[o]
      <3>1. SUFFICES ASSUME NEW o \in Builders, task[o].pc = "idle" PROVE task'[o] = task[o]
        OBVIOUS
      <3>2. task[o] = Q!Idle
        BY <3>1 DEF LocksHold, WaitsOnItsEntry
      <3>3. o # b
        BY <2>1, <3>1
      <3>4. task'[o] = [task[o] EXCEPT !.before = task[o].before \ {b}]
        BY <2>1, <3>3
      <3> QED
        BY <3>2, <3>4 DEF Q!Idle
    <2>4. task' \in [Builders -> StreamRow]
      BY <2>1, <2>2
    <2>5. offer \in (SUBSET Takes) \cup {None}
      BY DEF LocksHold, LockType
    <2> QED
      BY <2>1, <2>2, <2>3, <2>4, <2>5 DEF SameLock, Inside
  <1>5. ASSUME UNCHANGED <<task, lockOf, entry>>, offer' \in (SUBSET Takes) \cup {None} PROVE SameLock
    BY <1>5 DEF SameLock, LocksHold, LockType
  <1>6. offer \in (SUBSET Takes) \cup {None}
    BY DEF LocksHold, LockType
  <1>7. CASE Q!EditOffer
    BY <1>5, <1>7, LocksKeep DEF Q!EditOffer, Q!locks
  <1>8. ASSUME NEW b \in Builders, Q!EvictFor(b) PROVE LocksHold'
    BY <1>5, <1>6, <1>8, LocksKeep DEF Q!EvictFor, Q!locks
  <1>9. ASSUME NEW s \in Snaps, Q!Unlink(s) PROVE LocksHold'
    BY <1>5, <1>6, <1>9, LocksKeep DEF Q!Unlink, Q!locks
  <1>10. ASSUME NEW s \in Snaps, Q!RemoveExpired(s) PROVE LocksHold'
    BY <1>5, <1>6, <1>10, LocksKeep DEF Q!RemoveExpired, Q!locks
  <1>11. ASSUME NEW s \in Snaps, Q!RemoveOrphan(s) PROVE LocksHold'
    BY <1>5, <1>6, <1>11, LocksKeep DEF Q!RemoveOrphan, Q!locks
  <1>12. CASE Q!EvictAny
    BY <1>5, <1>6, <1>12, LocksKeep DEF Q!EvictAny, Q!locks
  <1>13. CASE Q!Later
    BY <1>5, <1>6, <1>13, LocksKeep DEF Q!Later, Q!locks
  <1>14. CASE UNCHANGED Q!vars
    BY <1>5, <1>6, <1>14, LocksKeep DEF Q!vars, Q!locks
  <1> QED
    BY <1>1, <1>2, <1>3, <1>4, <1>7, <1>8, <1>9, <1>10, <1>11, <1>12, <1>13, <1>14,
       LocksKeep, RequestLocks, AcquireLocks, LeaveLocks, CrashLocks DEF Q!Next

\* The types of the files.
FileType ==
    /\ tmp \in SUBSET Snaps /\ gone \in SUBSET Snaps /\ used \in SUBSET Snaps
    /\ audio \in [Snaps -> Q!Contents \cup {None}]
    /\ manifest \in [Snaps -> Q!Contents \cup {None}]
    /\ age \in [Snaps -> Nat]
    /\ newer \in [Snaps -> SUBSET Snaps]

\* A request that makes or keeps a snapshot, and one whose manifest is to come.
Working == {"building", "placed", "saved"}
Unsaved == {"building", "placed"}

\* A request works on a snapshot of its own.
SnapsOwned ==
    \A b \in Builders : task[b].pc \in Working =>
        /\ task[b].snap \in used
        /\ \A o \in Builders : task[o].pc \in Working /\ task[o].snap = task[b].snap => o = b

\* An id not handed out has no file.
UnusedAreFree ==
    \A s \in Snaps \ used : audio[s] = None /\ manifest[s] = None /\ age[s] = 0 /\ s \notin tmp /\ s \notin gone

\* A snapshot under way has no manifest and at most the audio of its request.
UnsavedStand ==
    \A b \in Builders : task[b].pc \in Unsaved =>
        /\ manifest[task[b].snap] = None /\ age[task[b].snap] = 0
        /\ task[b].pc = "building" => audio[task[b].snap] = None
        /\ audio[task[b].snap] \in {None, task[b].want}

\* A manifest and an audio file of one snapshot list the same takes.
PairsAgree == \A s \in Snaps : manifest[s] # None /\ audio[s] # None => audio[s] = manifest[s]

\* A content has one stream to reuse, and none while a request makes one.
OnceEach == \A c \in Q!Contents : \A s, t \in Q!Reusable(c) : s = t
NoneYet ==
    \A b \in Builders : \A c \in Q!Contents :
        task[b].pc \in Unsaved /\ task[b].want = c => Q!Reusable(c) = {}

\* The inductive invariant of the files, whatever is evicted.
FilesAgree == FileType /\ SnapsOwned /\ UnusedAreFree /\ UnsavedStand /\ PairsAgree /\ OnceEach /\ NoneYet

\* Before the first stream there is no file.
LEMMA FilesInit == ASSUME Q!QueueConstants PROVE Q!Init => FilesAgree
  <1> SUFFICES ASSUME Q!Init PROVE FilesAgree
    OBVIOUS
  <1>1. FileType
    BY DEF Q!Init, FileType
  <1>2. \A b \in Builders : task[b].pc = "idle"
    BY DEF Q!Init, Q!Idle
  <1>3. SnapsOwned /\ UnsavedStand /\ NoneYet
    BY <1>2 DEF SnapsOwned, UnsavedStand, NoneYet, Working, Unsaved
  <1>4. UnusedAreFree /\ PairsAgree
    BY DEF Q!Init, UnusedAreFree, PairsAgree
  <1>5. OnceEach
    BY DEF Q!Init, OnceEach, Q!Reusable
  <1> QED
    BY <1>1, <1>3, <1>4, <1>5 DEF FilesAgree

\* Files are only removed, and no request starts on a snapshot.
FilesGo ==
    /\ used' = used /\ age' = age
    /\ tmp' \in SUBSET tmp /\ gone' \in SUBSET Snaps /\ newer' \in [Snaps -> SUBSET Snaps]
    /\ audio' \in [Snaps -> Q!Contents \cup {None}]
    /\ manifest' \in [Snaps -> Q!Contents \cup {None}]
    /\ \A s \in Snaps : audio'[s] \in {None, audio[s]} /\ manifest'[s] \in {None, manifest[s]}
    /\ \A s \in Snaps \ used : s \notin gone'
    /\ \A b \in Builders : task'[b].pc \in Working =>
          task'[b].pc = task[b].pc /\ task'[b].snap = task[b].snap /\ task'[b].want = task[b].want
\* Then their invariant stands.
LEMMA FilesGoKeeps ==
    ASSUME Q!QueueConstants, LocksHold, FilesAgree, FilesGo
    PROVE  FilesAgree'
  <1> USE DEF FilesAgree, FilesGo, LocksHold
  <1>1. FileType'
    BY DEF FileType
  <1>2. SnapsOwned'
    BY DEF SnapsOwned
  <1>3. UnusedAreFree'
    BY DEF UnusedAreFree, FileType
  <1>4. \A b \in Builders : task'[b].pc \in Unsaved =>
           /\ task[b].pc \in Unsaved /\ task[b].snap \in Snaps /\ task'[b].pc = task[b].pc
           /\ task'[b].snap = task[b].snap /\ task'[b].want = task[b].want
    BY DEF Unsaved, Working, SnapsOwned, FileType
  <1>5. UnsavedStand'
    BY <1>4 DEF UnsavedStand
  <1>6. PairsAgree'
    BY DEF PairsAgree
  <1>7. \A c \in Q!Contents : c # None /\ Q!Reusable(c)' \subseteq Q!Reusable(c)
    <2>1. \A c \in Q!Contents : c # None
      BY DEF Q!Contents, Q!QueueConstants
    <2> QED
      BY <2>1 DEF Q!Reusable, FileType
  <1>8. OnceEach'
    BY <1>7 DEF OnceEach
  <1>9. NoneYet'
    <2>1. ASSUME NEW b \in Builders, NEW c \in Q!Contents, task'[b].pc \in Unsaved, task'[b].want = c
          PROVE  Q!Reusable(c)' = {}
      <3>1. Q!Reusable(c) = {}
        BY <1>4, <2>1 DEF NoneYet
      <3> QED
        BY <1>7, <3>1
    <2> QED
      BY <2>1 DEF NoneYet
  <1> QED
    BY <1>1, <1>2, <1>3, <1>5, <1>6, <1>8, <1>9

\* Two requests inside the lock of one content are one.
LEMMA OneInside ==
    ASSUME LocksHold, NEW b \in Builders, NEW o \in Builders,
           task[b].pc \in Inside, task[o].pc \in Inside, task[b].want = task[o].want
    PROVE  b = o
  <1>1. task[b].entry = task[o].entry
    BY DEF LocksHold, WaitsOnItsEntry, Inside
  <1> QED
    BY <1>1 DEF LocksHold, HoldersInside

\* What is written keeps the type of the order.
LEMMA WritesTyped ==
    ASSUME FileType, NEW s \in Snaps
    PROVE  Q!Write(s) \in [Snaps -> SUBSET Snaps] /\ Q!Forget(s) \in [Snaps -> SUBSET Snaps]
  BY DEF FileType, Q!Write, Q!Forget

\* A request goes on to build a snapshot.
Starts(b, s) ==
    task' = [task EXCEPT ![b].pc = "building", ![b].snap = s,
                         ![b].before = {o \in Builders : task[o].pc = "placed"}]
\* A build starts on a fresh id.
LEMMA BuildStarts ==
    ASSUME Q!QueueConstants, LocksHold, FilesAgree, NEW b \in Builders, NEW s \in Snaps \ used,
           task[b].pc = "waiting", Q!Reusable(task[b].want) = {},
           used' = used \cup {s}, tmp' = tmp \cup {s}, newer' = Q!Write(s),
           Starts(b, s), UNCHANGED <<audio, manifest, age, gone>>
    PROVE  FilesAgree'
  <1> USE DEF FilesAgree
  <1>1. /\ task'[b].pc = "building" /\ task'[b].snap = s /\ task'[b].want = task[b].want
        /\ \A o \in Builders \ {b} : task'[o] = task[o]
    <2>1. task \in [Builders -> StreamRow] /\ task[b] \in StreamRow
      BY DEF LocksHold, LockType
    <2> DEFINE new == [task[b] EXCEPT !.pc = "building", !.snap = s, !.before = {o \in Builders : task[o].pc = "placed"}]
    <2>2. new.pc = "building" /\ new.snap = s /\ new.want = task[b].want
      BY <2>1 DEF StreamRow
    <2>3. task' = [task EXCEPT ![b] = new]
      BY DEF Starts
    <2> HIDE DEF new
    <2> QED
      BY <2>1, <2>2, <2>3
  <1>2. FileType'
    BY WritesTyped DEF FileType
  <1>3. SnapsOwned'
    <2>1. ASSUME NEW o \in Builders \ {b}, task[o].pc \in Working PROVE task[o].snap \in used /\ task[o].snap # s
      BY <2>1 DEF SnapsOwned
    <2>2. SUFFICES ASSUME NEW o \in Builders, task'[o].pc \in Working
                   PROVE  /\ task'[o].snap \in used'
                          /\ \A p \in Builders : task'[p].pc \in Working /\ task'[p].snap = task'[o].snap => p = o
      BY DEF SnapsOwned
    <2>3. CASE o = b
      BY <1>1, <2>1, <2>3
    <2>4. CASE o # b
      BY <1>1, <2>1, <2>2, <2>4 DEF SnapsOwned
    <2> QED
      BY <2>3, <2>4
  <1>4. UnusedAreFree'
    BY DEF UnusedAreFree
  <1>5. UnsavedStand'
    <2>1. manifest[s] = None /\ age[s] = 0 /\ audio[s] = None
      BY DEF UnusedAreFree
    <2>2. SUFFICES ASSUME NEW o \in Builders, task'[o].pc \in Unsaved
                   PROVE  /\ manifest[task'[o].snap] = None /\ age[task'[o].snap] = 0
                          /\ task'[o].pc = "building" => audio[task'[o].snap] = None
                          /\ audio[task'[o].snap] \in {None, task'[o].want}
      BY DEF UnsavedStand
    <2>3. CASE o = b
      BY <1>1, <2>1, <2>3
    <2>4. CASE o # b
      BY <1>1, <2>2, <2>4 DEF UnsavedStand
    <2> QED
      BY <2>3, <2>4
  <1>6. PairsAgree'
    BY DEF PairsAgree
  <1>7. \A c \in Q!Contents : Q!Reusable(c)' = Q!Reusable(c)
    BY DEF Q!Reusable
  <1>8. OnceEach'
    BY <1>7 DEF OnceEach
  <1>9. NoneYet'
    BY <1>1, <1>7 DEF NoneYet
  <1> QED
    BY <1>2, <1>3, <1>4, <1>5, <1>6, <1>8, <1>9

\* A finished build puts its audio in place.
LEMMA PlaceKeeps ==
    ASSUME Q!QueueConstants, LocksHold, FilesAgree, NEW b \in Builders, Q!PlaceAudio(b)
    PROVE  FilesAgree'
  <1> USE DEF FilesAgree
  <1>0. \A c \in Q!Contents : c # None
    BY DEF Q!Contents, Q!QueueConstants
  <1>1. PICK s \in Snaps, w \in Q!Contents : s = task[b].snap /\ w = task[b].want /\ s \in used
    <2>1. task[b].pc = "building"
      BY DEF Q!PlaceAudio
    <2> QED
      BY <2>1 DEF SnapsOwned, Working, FileType, LocksHold, WaitsOnItsEntry
  <1>2. /\ task[b].pc = "building"
        /\ tmp' = tmp \ {s} /\ audio' = [audio EXCEPT ![s] = w] /\ newer' = Q!Write(s)
        /\ task' = [task EXCEPT ![b].pc = "placed"]
        /\ manifest' = manifest /\ age' = age /\ gone' = gone /\ used' = used
    BY <1>1 DEF Q!PlaceAudio, Q!locks
  <1>3. /\ task'[b].pc = "placed" /\ task'[b].snap = s /\ task'[b].want = w
        /\ \A o \in Builders \ {b} : task'[o] = task[o]
    <2>1. task \in [Builders -> StreamRow] /\ task[b] \in StreamRow
      BY DEF LocksHold, LockType
    <2> QED
      BY <1>1, <1>2, <2>1 DEF StreamRow
  <1>4. manifest[s] = None /\ age[s] = 0
    BY <1>1, <1>2 DEF UnsavedStand, Unsaved
  <1>5. FileType'
    BY <1>1, <1>2, WritesTyped DEF FileType
  <1>6. audio'[s] = w /\ \A x \in Snaps \ {s} : audio'[x] = audio[x]
    BY <1>2 DEF FileType
  <1>7. SnapsOwned'
    BY <1>1, <1>2, <1>3 DEF SnapsOwned, Working
  <1>8. UnusedAreFree'
    BY <1>1, <1>2, <1>6 DEF UnusedAreFree
  <1>9. UnsavedStand'
    <2>1. ASSUME NEW o \in Builders \ {b}, task[o].pc \in Unsaved PROVE audio'[task[o].snap] = audio[task[o].snap]
      BY <1>1, <1>2, <1>6, <2>1 DEF SnapsOwned, Unsaved, Working, FileType
    <2> QED
      BY <1>2, <1>3, <1>4, <1>6, <2>1 DEF UnsavedStand
  <1>10. PairsAgree'
    BY <1>2, <1>4, <1>6 DEF PairsAgree
  <1>11. \A c \in Q!Contents : Q!Reusable(c)' = Q!Reusable(c)
    BY <1>0, <1>2, <1>4, <1>6 DEF Q!Reusable
  <1>12. OnceEach'
    BY <1>11 DEF OnceEach
  <1>13. NoneYet'
    BY <1>1, <1>2, <1>3, <1>11 DEF NoneYet, Unsaved
  <1> QED
    BY <1>5, <1>7, <1>8, <1>9, <1>10, <1>12, <1>13

\* A manifest is saved for a content of which there is no other stream.
LEMMA SaveKeeps ==
    ASSUME Q!QueueConstants, LocksHold, FilesAgree, NEW b \in Builders, Q!SaveManifest(b)
    PROVE  FilesAgree'
  <1> USE DEF FilesAgree
  <1>0. \A c \in Q!Contents : c # None
    BY DEF Q!Contents, Q!QueueConstants
  <1>1. PICK s \in Snaps, w \in Q!Contents : s = task[b].snap /\ w = task[b].want /\ s \in used
    <2>1. task[b].pc = "placed"
      BY DEF Q!SaveManifest
    <2> QED
      BY <2>1 DEF SnapsOwned, Working, FileType, LocksHold, WaitsOnItsEntry
  <1>2. /\ task[b].pc = "placed" /\ manifest' = [manifest EXCEPT ![s] = w]
        /\ task' = [o \in Builders |-> IF o = b THEN [task[b] EXCEPT !.pc = "saved"]
                                       ELSE [task[o] EXCEPT !.before = @ \ {b}]]
        /\ tmp' = tmp /\ audio' = audio /\ newer' = newer /\ age' = age /\ gone' = gone /\ used' = used
    BY <1>1 DEF Q!SaveManifest, Q!locks
  <1>3. /\ task'[b].pc = "saved" /\ task'[b].snap = s /\ task'[b].want = w
        /\ \A o \in Builders \ {b} : task'[o].pc = task[o].pc /\ task'[o].snap = task[o].snap /\ task'[o].want = task[o].want
    <2>1. \A o \in Builders : task[o] \in StreamRow
      BY DEF LocksHold, LockType
    <2>2. task'[b] = [task[b] EXCEPT !.pc = "saved"]
      BY <1>2
    <2>3. \A o \in Builders \ {b} : task'[o] = [task[o] EXCEPT !.before = @ \ {b}]
      BY <1>2
    <2> QED
      BY <1>1, <2>1, <2>2, <2>3 DEF StreamRow
  <1>4. FileType'
    BY <1>2 DEF FileType
  <1>5. manifest'[s] = w /\ \A x \in Snaps \ {s} : manifest'[x] = manifest[x]
    BY <1>2 DEF FileType
  <1>6. SnapsOwned'
    BY <1>1, <1>2, <1>3 DEF SnapsOwned, Working
  <1>7. UnusedAreFree'
    BY <1>1, <1>2, <1>5 DEF UnusedAreFree
  <1>8. UnsavedStand'
    <2>1. ASSUME NEW o \in Builders \ {b}, task[o].pc \in Unsaved PROVE manifest'[task[o].snap] = manifest[task[o].snap]
      BY <1>1, <1>2, <1>5, <2>1 DEF SnapsOwned, Unsaved, Working, FileType
    <2> QED
      BY <1>2, <1>3, <2>1 DEF UnsavedStand, Unsaved
  <1>9. manifest[s] = None /\ audio[s] \in {None, w} /\ Q!Reusable(w) = {}
    BY <1>1, <1>2 DEF UnsavedStand, Unsaved, NoneYet
  <1>10. PairsAgree'
    BY <1>2, <1>5, <1>9 DEF PairsAgree
  <1>11. /\ \A c \in Q!Contents : c # w => Q!Reusable(c)' = Q!Reusable(c)
         /\ \A x \in Q!Reusable(w)' : x = s
    <2>1. \A c \in Q!Contents : c # w => Q!Reusable(c)' = Q!Reusable(c)
      BY <1>0, <1>2, <1>5, <1>9 DEF Q!Reusable
    <2>2. \A x \in Q!Reusable(w)' : x = s
      BY <1>2, <1>5, <1>9 DEF Q!Reusable
    <2> QED
      BY <2>1, <2>2
  <1>12. OnceEach'
    <2>1. ASSUME NEW c \in Q!Contents PROVE \A x, y \in Q!Reusable(c)' : x = y
      <3>1. CASE c = w
        <4>1. \A x \in Q!Reusable(c)' : x = s
          BY <1>11, <3>1
        <4> QED
          BY <4>1
      <3>2. CASE c # w
        BY <1>11, <3>2 DEF OnceEach
      <3> QED
        BY <3>1, <3>2
    <2> QED
      BY <2>1 DEF OnceEach
  <1>13. NoneYet'
    <2>1. ASSUME NEW o \in Builders, NEW c \in Q!Contents, task'[o].pc \in Unsaved, task'[o].want = c
          PROVE  Q!Reusable(c)' = {}
      <3>1. o # b /\ task[o].pc \in Unsaved /\ task[o].want = c
        BY <1>3, <2>1 DEF Unsaved
      <3>2. c # w
        <4>1. task[o].pc \in Inside /\ task[b].pc \in Inside
          BY <1>2, <3>1 DEF Inside, Unsaved
        <4> QED
          BY <1>1, <3>1, <4>1, OneInside
      <3> QED
        BY <1>11, <3>1, <3>2 DEF NoneYet
    <2> QED
      BY <2>1 DEF NoneYet
  <1> QED
    BY <1>4, <1>6, <1>7, <1>8, <1>10, <1>12, <1>13

\* Time passes while no stream is made.
LEMMA LaterKeeps == ASSUME Q!QueueConstants, FilesAgree, Q!Later PROVE FilesAgree'
  <1> USE DEF FilesAgree
  <1>1. /\ tmp' = tmp /\ audio' = audio /\ manifest' = manifest /\ newer' = newer /\ gone' = gone
        /\ used' = used /\ task' = task
        /\ age' = [s \in Snaps |-> IF s \in used /\ age[s] < Q!OrphanAge THEN age[s] + 1 ELSE age[s]]
        /\ \A b \in Builders : task[b].pc \in {"idle", "waiting"}
    BY DEF Q!Later, Q!locks
  <1>2. /\ age' \in [Snaps -> Nat] /\ \A s \in Snaps : age'[s] >= age[s]
        /\ \A s \in Snaps \ used : age'[s] = age[s]
    BY <1>1 DEF FileType
  <1>3. FileType'
    BY <1>1, <1>2 DEF FileType
  <1>4. \A b \in Builders : task[b].pc \notin Unsaved /\ task'[b].pc \notin Unsaved
    BY <1>1 DEF Unsaved
  <1>5. SnapsOwned' /\ UnsavedStand' /\ NoneYet'
    BY <1>1, <1>4 DEF SnapsOwned, UnsavedStand, NoneYet
  <1>6. UnusedAreFree' /\ PairsAgree'
    BY <1>1, <1>2 DEF UnusedAreFree, PairsAgree
  <1>7. \A c : Q!Reusable(c)' \subseteq Q!Reusable(c)
    BY <1>1, <1>2 DEF Q!Reusable, Q!Ttl, FileType
  <1>8. OnceEach'
    BY <1>7 DEF OnceEach
  <1> QED
    BY <1>3, <1>5, <1>6, <1>8

\* Nothing of the requests' work changes.
SameWork ==
    \A b \in Builders : task'[b].pc \in Working =>
        task'[b].pc = task[b].pc /\ task'[b].snap = task[b].snap /\ task'[b].want = task[b].want

\* Removing a snapshot and unlinking its mp3.
LEMMA RemovalGoes ==
    ASSUME FilesAgree, NEW s \in Snaps, Q!RemoveSnapshot(s), used' = used, age' = age, SameWork
    PROVE  FilesGo
  <1>1. /\ manifest' = [manifest EXCEPT ![s] = None] /\ tmp' = tmp \ {s} /\ audio' = audio
        /\ (audio[s] # None /\ gone' = gone \cup {s} /\ newer' = newer)
           \/ (audio[s] = None /\ newer' = Q!Forget(s) /\ gone' = gone)
    BY DEF Q!RemoveSnapshot
  <1>2. /\ tmp' \in SUBSET tmp /\ gone' \in SUBSET Snaps /\ newer' \in [Snaps -> SUBSET Snaps]
        /\ audio' \in [Snaps -> Q!Contents \cup {None}] /\ manifest' \in [Snaps -> Q!Contents \cup {None}]
    BY <1>1, WritesTyped DEF FilesAgree, FileType
  <1>3. \A x \in Snaps : audio'[x] \in {None, audio[x]} /\ manifest'[x] \in {None, manifest[x]}
    BY <1>1 DEF FilesAgree, FileType
  <1>4. \A x \in Snaps \ used : x \notin gone'
    BY <1>1 DEF FilesAgree, UnusedAreFree
  <1> QED
    BY <1>2, <1>3, <1>4 DEF FilesGo, SameWork

\* Requests that wait, fail, answer or leave, and those that die, make no file.
LEMMA SameFiles ==
    ASSUME FilesAgree, SameWork, UNCHANGED <<used, age, audio, manifest>>,
           tmp' \in SUBSET tmp, gone' \in SUBSET gone, newer' \in [Snaps -> SUBSET Snaps]
    PROVE  FilesGo
  BY DEF FilesGo, SameWork, FilesAgree, FileType, UnusedAreFree

\* Every step keeps the invariant of the files.
LEMMA FilesStep ==
    ASSUME Q!QueueConstants, LocksHold, FilesAgree, [Q!Next]_(Q!vars)
    PROVE  FilesAgree'
  <1>0. /\ task \in [Builders -> StreamRow] /\ newer \in [Snaps -> SUBSET Snaps]
        /\ \A b \in Builders : task[b] \in StreamRow
    BY DEF LocksHold, LockType, FilesAgree, FileType
  <1>1. task' = task => SameWork
    BY DEF SameWork
  <1>2. CASE Q!EditOffer
    BY <1>0, <1>1, <1>2, SameFiles, FilesGoKeeps DEF Q!EditOffer, Q!files
  <1>3. ASSUME NEW b \in Builders, Q!Request(b) PROVE FilesAgree'
    <2> DEFINE e == IF lockOf[offer] # None THEN lockOf[offer] ELSE CHOOSE x \in Builders : entry[x] = Q!NoEntry
               new == [pc |-> "waiting", want |-> offer, entry |-> e, snap |-> None, before |-> {}]
    <2>1. task' = [task EXCEPT ![b] = new]
      BY <1>3 DEF Q!Request
    <2>2. SameWork
      <3>1. new.pc = "waiting"
        OBVIOUS
      <3> HIDE DEF new
      <3> QED
        BY <1>0, <2>1, <3>1 DEF SameWork, Working
    <2> QED
      BY <1>0, <1>3, <2>2, SameFiles, FilesGoKeeps DEF Q!Request, Q!files
  <1>4. ASSUME NEW b \in Builders, Q!Acquire(b) PROVE FilesAgree'
    <2>1. CASE Q!Reusable(task[b].want) # {}
      <3>1. task' = [task EXCEPT ![b].pc = "done"] /\ UNCHANGED <<used, tmp, newer, audio, manifest, age, gone>>
        BY <1>4, <2>1 DEF Q!Acquire
      <3>2. SameWork
        BY <1>0, <3>1 DEF SameWork, Working, StreamRow
      <3> QED
        BY <1>0, <3>1, <3>2, SameFiles, FilesGoKeeps
    <2>2. CASE Q!Reusable(task[b].want) = {}
      <3>1. task[b].pc = "waiting" /\ UNCHANGED <<audio, manifest, age, gone>>
        BY <1>4 DEF Q!Acquire
      <3>2. PICK s \in Snaps \ used : used' = used \cup {s} /\ tmp' = tmp \cup {s} /\ newer' = Q!Write(s) /\ Starts(b, s)
        BY <1>4, <2>2 DEF Q!Acquire, Starts
      <3> QED
        BY <2>2, <3>1, <3>2, BuildStarts
    <2> QED
      BY <2>1, <2>2
  <1>5. ASSUME NEW b \in Builders, Q!BuildFails(b) PROVE FilesAgree'
    <2>1. /\ task[b].pc = "building" /\ task' = [task EXCEPT ![b] = [task[b] EXCEPT !.pc = "done", !.before = {}]]
          /\ tmp' = tmp \ {task[b].snap} /\ newer' = Q!Forget(task[b].snap)
          /\ UNCHANGED <<used, age, audio, manifest, gone>>
      BY <1>5 DEF Q!BuildFails
    <2>2. task[b].snap \in Snaps
      BY <2>1 DEF FilesAgree, SnapsOwned, Working, FileType
    <2>3. task'[b].pc = "done" /\ \A o \in Builders \ {b} : task'[o] = task[o]
      BY <1>0, <2>1 DEF StreamRow
    <2>4. SameWork
      BY <2>3 DEF SameWork, Working
    <2> QED
      BY <2>1, <2>2, <2>4, WritesTyped, SameFiles, FilesGoKeeps DEF FilesAgree
  <1>6. ASSUME NEW b \in Builders, Q!EvictFor(b) PROVE FilesAgree'
    BY <1>1, <1>6, RemovalGoes, FilesGoKeeps DEF Q!EvictFor
  <1>7. CASE Q!EvictAny
    BY <1>1, <1>7, RemovalGoes, FilesGoKeeps DEF Q!EvictAny
  <1>8. ASSUME NEW s \in Snaps, Q!RemoveExpired(s) PROVE FilesAgree'
    BY <1>1, <1>8, RemovalGoes, FilesGoKeeps DEF Q!RemoveExpired
  <1>9. ASSUME NEW b \in Builders, Q!Answer(b) PROVE FilesAgree'
    <2>1. task' = [task EXCEPT ![b].pc = "done"] /\ UNCHANGED <<used, tmp, newer, audio, manifest, age, gone>>
      BY <1>9 DEF Q!Answer, Q!files
    <2>2. SameWork
      BY <1>0, <2>1 DEF SameWork, Working, StreamRow
    <2> QED
      BY <1>0, <2>1, <2>2, SameFiles, FilesGoKeeps
  <1>10. ASSUME NEW b \in Builders, Q!Leave(b) PROVE FilesAgree'
    <2>1. task' = [task EXCEPT ![b] = Q!Idle] /\ UNCHANGED <<used, tmp, newer, audio, manifest, age, gone>>
      BY <1>10 DEF Q!Leave, Q!files
    <2>2. SameWork
      BY <1>0, <2>1 DEF SameWork, Working, Q!Idle
    <2> QED
      BY <1>0, <2>1, <2>2, SameFiles, FilesGoKeeps
  <1>11. CASE Q!Crash
    <2>1. task' = [b \in Builders |-> Q!Idle] /\ UNCHANGED <<used, tmp, newer, audio, manifest, age>> /\ gone' = {}
      BY <1>11 DEF Q!Crash
    <2>2. SameWork
      BY <2>1 DEF SameWork, Working, Q!Idle
    <2> QED
      BY <1>0, <2>1, <2>2, SameFiles, FilesGoKeeps
  <1>12. ASSUME NEW s \in Snaps, Q!Unlink(s) \/ Q!RemoveOrphan(s) PROVE FilesAgree'
    <2>1. /\ audio' = [audio EXCEPT ![s] = None] /\ newer' = Q!Forget(s) /\ tmp' \in SUBSET tmp /\ gone' \in SUBSET gone
          /\ manifest' = manifest /\ age' = age /\ used' = used /\ task' = task
      BY <1>12 DEF Q!Unlink, Q!RemoveOrphan
    <2>2. /\ audio' \in [Snaps -> Q!Contents \cup {None}] /\ newer' \in [Snaps -> SUBSET Snaps]
          /\ \A x \in Snaps : audio'[x] \in {None, audio[x]}
      BY <2>1, WritesTyped DEF FilesAgree, FileType
    <2>3. FilesGo
      BY <1>1, <2>1, <2>2 DEF FilesGo, SameWork, FilesAgree, FileType, UnusedAreFree
    <2> QED
      BY <2>3, FilesGoKeeps
  <1>13. CASE UNCHANGED Q!vars
    BY <1>0, <1>1, <1>13, SameFiles, FilesGoKeeps DEF Q!vars, Q!files
  <1> QED
    BY <1>2, <1>3, <1>4, <1>5, <1>6, <1>7, <1>8, <1>9, <1>10, <1>11, <1>12, <1>13,
       PlaceKeeps, SaveKeeps, LaterKeeps DEF Q!Next

\* What the files and their requests promise whatever the quota.
LEMMA FilesShow ==
    ASSUME Q!QueueConstants, FilesAgree
    PROVE  Q!OneStreamPerQueue /\ Q!ServedIsOffered
  <1>1. ASSUME NEW c \in Q!Contents PROVE Q!Cardinality(Q!Reusable(c)) <= 1
    <2>1. IsFiniteSet(Q!Reusable(c))
      <3>1. IsFiniteSet(Snaps) /\ Q!Reusable(c) \in SUBSET Snaps
        BY QueueSets DEF Q!QueueConstants, Q!Reusable
      <3> QED
        BY <3>1, FS_Subset
    <2>2. \A s, t \in Q!Reusable(c) : s = t
      BY DEF FilesAgree, OnceEach
    <2>3. CASE Q!Reusable(c) = {}
      BY <2>3, FS_EmptySet, QueueSets
    <2>4. ASSUME NEW s \in Q!Reusable(c) PROVE Q!Cardinality(Q!Reusable(c)) <= 1
      <3>1. Q!Reusable(c) = {s}
        BY <2>2, <2>4
      <3>2. Cardinality({s}) = 1
        BY FS_Singleton
      <3> QED
        BY <3>1, <3>2, QueueSets
    <2> QED
      BY <2>3, <2>4
  <1>2. Q!ServedIsOffered
    BY DEF Q!ServedIsOffered, Q!Playable, Q!Validated, FilesAgree, PairsAgree
  <1> QED
    BY <1>1, <1>2 DEF Q!OneStreamPerQueue

\* The other requests that can still put a file beside that of b before b's
\* manifest is saved, or have one, and the files of which they may be.
Rivals(b) ==
    {o \in Builders \ {b} : \/ task[o].pc = "building" /\ b \notin task[o].before
                            \/ task[o].pc \in {"placed", "saved"}}
Ahead(b) == (newer[task[b].snap] \ Q!InBuild) \cup {task[o].snap : o \in Rivals(b)}

\* A placed file is whole and kept until its manifest is saved.
PlacedStand ==
    \A b \in Builders :
        /\ task[b].pc = "placed" => audio[task[b].snap] = task[b].want
        /\ task[b].pc \in Unsaved => task[b].snap \notin gone

\* What is removed is listed no more.
GoneUnlisted == \A s \in gone : manifest[s] = None

\* The files newer than a placed one and those of builds begun before it are fewer than
\* the requests.
RoomKept == \A b \in Builders : task[b].pc = "placed" => Cardinality(Ahead(b)) < Cardinality(Builders)

\* The inductive invariant of the files when the quota holds the builds.
RoomInv == PlacedStand /\ GoneUnlisted /\ RoomKept /\ Q!ManifestHasAudio

\* Nothing is placed or removed before the first request.
LEMMA RoomInit == ASSUME Q!QueueConstants PROVE Q!Init => RoomInv
  BY DEF Q!Init, Q!Idle, RoomInv, PlacedStand, Unsaved, GoneUnlisted, RoomKept, Q!ManifestHasAudio

\* The files ahead of a placed one are finite, and fewer are still fewer.
LEMMA AheadFinite ==
    ASSUME Q!QueueConstants, FilesAgree, NEW b \in Builders, task[b].pc = "placed"
    PROVE  /\ IsFiniteSet(Ahead(b)) /\ Cardinality(Ahead(b)) \in Nat
           /\ \A S \in SUBSET Ahead(b) : Cardinality(S) <= Cardinality(Ahead(b)) /\ Cardinality(S) \in Nat
           /\ Cardinality(Builders) \in Nat
  <1>1. IsFiniteSet(Snaps) /\ IsFiniteSet(Builders)
    BY QueueSets DEF Q!QueueConstants
  <1>2. Ahead(b) \in SUBSET Snaps
    <2>1. \A o \in Rivals(b) : task[o].snap \in Snaps
      BY DEF Rivals, FilesAgree, SnapsOwned, Working, FileType
    <2>2. task[b].snap \in Snaps
      BY DEF FilesAgree, SnapsOwned, Working, FileType
    <2>3. newer[task[b].snap] \in SUBSET Snaps
      BY <2>2 DEF FilesAgree, FileType
    <2> QED
      BY <2>1, <2>3 DEF Ahead
  <1>3. IsFiniteSet(Ahead(b))
    BY <1>1, <1>2, FS_Subset
  <1> QED
    BY <1>1, <1>3, FS_Subset, FS_CardinalityType
LEMMA AheadLess ==
    ASSUME Q!QueueConstants, FilesAgree, NEW b \in Builders, task[b].pc = "placed",
           Cardinality(Ahead(b)) < Cardinality(Builders), Ahead(b)' \subseteq Ahead(b)
    PROVE  Cardinality(Ahead(b)') < Cardinality(Builders)
  <1>1. /\ Cardinality(Ahead(b)) \in Nat /\ Cardinality(Builders) \in Nat
        /\ Cardinality(Ahead(b)') <= Cardinality(Ahead(b)) /\ Cardinality(Ahead(b)') \in Nat
    BY AheadFinite
  <1> QED
    BY <1>1

\* Requests stay or end, and with a build that ends its file goes.
RivalsGo ==
    /\ \A s \in Snaps : newer'[s] \subseteq newer[s]
    /\ \A o \in Builders : task'[o].pc \in Working =>
          /\ task'[o].pc = task[o].pc /\ task'[o].snap = task[o].snap /\ task'[o].want = task[o].want
          /\ task'[o].before = task[o].before
    /\ \A o \in Builders : task[o].pc = "building" /\ task'[o].pc # "building" =>
          \A s \in Snaps : task[o].snap \notin newer'[s]
\* Then there is room still.
LEMMA RoomStays ==
    ASSUME Q!QueueConstants, FilesAgree, RoomInv, RivalsGo
    PROVE  RoomKept'
  <1>1. SUFFICES ASSUME NEW b \in Builders, task'[b].pc = "placed"
                 PROVE  Cardinality(Ahead(b)') < Cardinality(Builders)
    BY DEF RoomKept
  <1>2. task[b].pc = "placed" /\ task'[b].snap = task[b].snap /\ task[b].snap \in Snaps
    BY <1>1 DEF RivalsGo, Working, FilesAgree, SnapsOwned, FileType
  <1>3. ASSUME NEW o \in Rivals(b)' PROVE o \in Rivals(b) /\ task'[o].snap = task[o].snap
    BY <1>3 DEF Rivals, RivalsGo, Working
  <1>4. ASSUME NEW x \in newer'[task[b].snap], x \notin Q!InBuild' PROVE x \in newer[task[b].snap] /\ x \notin Q!InBuild
    <2>1. x \in newer[task[b].snap]
      BY <1>2, <1>4 DEF RivalsGo
    <2>2. ASSUME NEW o \in Builders, task[o].pc = "building", x = task[o].snap PROVE FALSE
      <3>1. task'[o].pc = "building"
        BY <1>2, <1>4, <2>2 DEF RivalsGo
      <3>2. task'[o].snap = x
        BY <2>2, <3>1 DEF RivalsGo, Working
      <3> QED
        BY <1>4, <3>1, <3>2 DEF Q!InBuild
    <2> QED
      BY <2>1, <2>2 DEF Q!InBuild
  <1>5. Ahead(b)' \subseteq Ahead(b)
    BY <1>2, <1>3, <1>4 DEF Ahead
  <1> QED
    BY <1>2, <1>5, AheadLess DEF RoomInv, RoomKept

\* While the quota holds the builds no eviction takes a placed file: the oldest of
\* too many others is older.
LEMMA PlacedIsSpared ==
    ASSUME Q!QueueConstants, Q!QuotaHoldsBuilds, FilesAgree, RoomInv,
           NEW mine, NEW s \in Snaps, Q!MayEvict(mine), Q!Victim(s, mine),
           mine = None \/ \E m \in Builders : task[m].pc = "saved" /\ mine = task[m].snap,
           NEW b \in Builders, task[b].pc = "placed"
    PROVE  task[b].snap # s
  <1>1. SUFFICES ASSUME task[b].snap = s PROVE FALSE
    OBVIOUS
  <1>2. s \in Q!Others(mine) /\ s \notin Q!InBuild
    <2>1. s \in Q!Others(mine)
      BY DEF Q!Victim, Q!IsOldest
    <2>2. s \notin Q!InBuild
      BY <1>1 DEF Q!InBuild, FilesAgree, SnapsOwned, Working
    <2> QED
      BY <2>1, <2>2
  <1>3. (Q!Others(mine) \ Q!InBuild) \ {s} \subseteq newer[s]
    BY <1>2 DEF Q!Victim, Q!IsOldest
  <1> DEFINE X == Q!Present \ (gone \cup Q!JustBegun)
  <1>4. X \subseteq Ahead(b) \cup {s}
    <2>1. SUFFICES ASSUME NEW x \in X, x # s PROVE x \in Ahead(b)
      OBVIOUS
    <2>2. CASE x \in Q!InBuild
      <3>1. PICK o \in Builders : task[o].pc = "building" /\ task[o].snap = x
        BY <2>2 DEF Q!InBuild
      <3>2. task[o].before = {}
        BY <2>1, <3>1 DEF Q!JustBegun
      <3>3. o \in Rivals(b)
        BY <3>1, <3>2 DEF Rivals
      <3> QED
        BY <3>1, <3>3 DEF Ahead
    <2>3. CASE x \notin Q!InBuild /\ x = mine
      <3>1. x # None
        BY <2>1 DEF Q!Present, Q!QueueConstants
      <3>2. PICK m \in Builders : task[m].pc = "saved" /\ mine = task[m].snap
        BY <2>3, <3>1
      <3>3. m \in Rivals(b)
        BY <3>2 DEF Rivals
      <3> QED
        BY <2>3, <3>2, <3>3 DEF Ahead
    <2>4. CASE x \notin Q!InBuild /\ x # mine
      <3>1. x \in Q!Others(mine)
        BY <2>1, <2>4 DEF Q!Others
      <3>2. x \in newer[s]
        BY <1>3, <2>1, <2>4, <3>1
      <3> QED
        BY <1>1, <2>4, <3>2 DEF Ahead
    <2> QED
      BY <2>2, <2>3, <2>4
  <1>5. /\ IsFiniteSet(Ahead(b)) /\ Cardinality(Ahead(b)) \in Nat
        /\ Cardinality(Builders) \in Nat /\ Cardinality(Ahead(b)) < Cardinality(Builders)
    BY AheadFinite DEF RoomInv, RoomKept
  <1>6. IsFiniteSet(Ahead(b) \cup {s}) /\ Cardinality(Ahead(b) \cup {s}) <= Cardinality(Ahead(b)) + 1
        /\ Cardinality(Ahead(b) \cup {s}) \in Nat
    <2>1. /\ IsFiniteSet(Ahead(b) \cup {s})
          /\ Cardinality(Ahead(b) \cup {s}) = IF s \in Ahead(b) THEN Cardinality(Ahead(b)) ELSE Cardinality(Ahead(b)) + 1
      BY <1>5, FS_AddElement
    <2> QED
      BY <1>5, <2>1
  <1>7. Cardinality(X) <= Cardinality(Ahead(b) \cup {s}) /\ Cardinality(X) \in Nat
    BY <1>4, <1>6, FS_Subset, FS_CardinalityType
  <1>8. Cardinality(X) > Quota /\ Cardinality(Builders) <= Quota /\ Quota \in Nat
    BY QueueSets DEF Q!MayEvict, Q!QuotaHoldsBuilds, Q!QueueConstants
  <1> HIDE DEF X
  <1> QED
    BY <1>5, <1>6, <1>7, <1>8

\* A snapshot that is not a placed one is removed.
LEMMA RemovalRoom ==
    ASSUME Q!QueueConstants, FilesAgree, RoomInv, NEW s \in Snaps, Q!RemoveSnapshot(s), task' = task,
           \A b \in Builders : task[b].pc = "placed" => task[b].snap # s
    PROVE  RoomInv'
  <1> USE DEF RoomInv
  <1>1. /\ manifest' = [manifest EXCEPT ![s] = None] /\ audio' = audio
        /\ (audio[s] # None /\ gone' = gone \cup {s} /\ newer' = newer)
           \/ (audio[s] = None /\ newer' = Q!Forget(s) /\ gone' = gone)
    BY DEF Q!RemoveSnapshot
  <1>2. PlacedStand'
    <2>1. \A b \in Builders : task[b].pc = "building" => audio[task[b].snap] = None
      BY DEF FilesAgree, UnsavedStand, Unsaved
    <2> QED
      BY <1>1, <2>1 DEF PlacedStand, Unsaved
  <1>3. manifest'[s] = None /\ \A x \in Snaps \ {s} : manifest'[x] = manifest[x]
    BY <1>1 DEF FilesAgree, FileType
  <1>4. GoneUnlisted'
    BY <1>1, <1>3 DEF GoneUnlisted, FilesAgree, FileType
  <1>5. Q!ManifestHasAudio'
    BY <1>1, <1>3 DEF Q!ManifestHasAudio
  <1>6. RivalsGo
    <2>1. \A x \in Snaps : newer'[x] \subseteq newer[x]
      BY <1>1 DEF Q!Forget
    <2> QED
      BY <2>1 DEF RivalsGo
  <1>7. RoomKept'
    BY <1>6, RoomStays
  <1> QED
    BY <1>2, <1>4, <1>5, <1>7

\* A file no manifest lists, and no request has placed, is unlinked.
LEMMA UnlinkRoom ==
    ASSUME Q!QueueConstants, FilesAgree, RoomInv, NEW s \in Snaps, task' = task, manifest' = manifest,
           audio' = [audio EXCEPT ![s] = None], newer' = Q!Forget(s), gone' \in SUBSET gone, manifest[s] = None,
           \A b \in Builders : task[b].pc = "placed" => task[b].snap # s
    PROVE  RoomInv'
  <1> USE DEF RoomInv
  <1>1. audio'[s] = None /\ \A x \in Snaps \ {s} : audio'[x] = audio[x]
    BY DEF FilesAgree, FileType
  <1>2. PlacedStand'
    <2>1. \A b \in Builders : task[b].pc = "placed" => task[b].snap \in Snaps
      BY DEF FilesAgree, SnapsOwned, Working, FileType
    <2> QED
      BY <1>1, <2>1 DEF PlacedStand
  <1>3. GoneUnlisted'
    BY DEF GoneUnlisted
  <1>4. Q!ManifestHasAudio'
    BY <1>1 DEF Q!ManifestHasAudio
  <1>5. RivalsGo
    <2>1. \A x \in Snaps : newer'[x] \subseteq newer[x]
      BY DEF Q!Forget
    <2> QED
      BY <2>1 DEF RivalsGo
  <1> QED
    BY <1>2, <1>3, <1>4, <1>5, RoomStays

\* Requests wait, fail, answer, leave or die, and files stay.
LEMMA SameRoom ==
    ASSUME Q!QueueConstants, FilesAgree, RoomInv, RivalsGo,
           audio' = audio, manifest' = manifest, gone' \in SUBSET gone
    PROVE  RoomInv'
  <1> USE DEF RoomInv
  <1>1. PlacedStand'
    BY DEF PlacedStand, RivalsGo, Unsaved, Working
  <1>2. GoneUnlisted' /\ Q!ManifestHasAudio'
    BY DEF GoneUnlisted, Q!ManifestHasAudio
  <1> QED
    BY <1>1, <1>2, RoomStays

\* A build that starts is no rival of what is placed already.
LEMMA StartsRoom ==
    ASSUME Q!QueueConstants, LocksHold, FilesAgree, RoomInv, NEW b \in Builders, NEW s \in Snaps \ used,
           task[b].pc = "waiting", newer' = Q!Write(s), Starts(b, s), UNCHANGED <<audio, manifest, gone>>
    PROVE  RoomInv'
  <1> USE DEF RoomInv
  <1>1. /\ task'[b].pc = "building" /\ task'[b].snap = s
        /\ task'[b].before = {o \in Builders : task[o].pc = "placed"}
        /\ \A o \in Builders \ {b} : task'[o] = task[o]
    <2>1. task \in [Builders -> StreamRow] /\ task[b] \in StreamRow
      BY DEF LocksHold, LockType
    <2> DEFINE new == [task[b] EXCEPT !.pc = "building", !.snap = s, !.before = {o \in Builders : task[o].pc = "placed"}]
    <2>2. new.pc = "building" /\ new.snap = s /\ new.before = {o \in Builders : task[o].pc = "placed"}
      BY <2>1 DEF StreamRow
    <2>3. task' = [task EXCEPT ![b] = new]
      BY DEF Starts
    <2> HIDE DEF new
    <2> QED
      BY <2>1, <2>2, <2>3
  <1>2. s \notin gone
    BY DEF FilesAgree, UnusedAreFree
  <1>3. PlacedStand'
    BY <1>1, <1>2 DEF PlacedStand
  <1>4. GoneUnlisted' /\ Q!ManifestHasAudio'
    BY DEF GoneUnlisted, Q!ManifestHasAudio
  <1>5. ASSUME NEW o \in Builders, task'[o].pc = "placed" PROVE Cardinality(Ahead(o)') < Cardinality(Builders)
    <2>1. o # b /\ task[o].pc = "placed" /\ task'[o].snap = task[o].snap /\ task[o].snap \in Snaps
      BY <1>1, <1>5 DEF FilesAgree, SnapsOwned, Working, FileType
    <2>2. o \in task'[b].before
      BY <1>1, <2>1
    <2>3. ASSUME NEW p \in Rivals(o)' PROVE p \in Rivals(o) /\ task'[p].snap = task[p].snap
      <3>1. p # b
        BY <1>1, <2>2, <2>3 DEF Rivals
      <3> QED
        BY <1>1, <2>3, <3>1 DEF Rivals
    <2>4. ASSUME NEW x \in newer'[task[o].snap], x \notin Q!InBuild'
          PROVE  x \in newer[task[o].snap] /\ x \notin Q!InBuild
      <3>1. s \in Q!InBuild'
        BY <1>1 DEF Q!InBuild
      <3>2. x \in newer[task[o].snap]
        BY <2>1, <2>4, <3>1 DEF Q!Write
      <3>3. ASSUME NEW p \in Builders, task[p].pc = "building", x = task[p].snap PROVE FALSE
        <4>1. p # b
          BY <3>3
        <4> QED
          BY <1>1, <2>4, <3>3, <4>1 DEF Q!InBuild
      <3> QED
        BY <3>2, <3>3 DEF Q!InBuild
    <2>5. Ahead(o)' \subseteq Ahead(o)
      BY <2>1, <2>3, <2>4 DEF Ahead
    <2> QED
      BY <2>1, <2>5, AheadLess DEF RoomKept
  <1> QED
    BY <1>3, <1>4, <1>5 DEF RoomKept

\* A rival that places its file was counted already; a file just placed is the newest.
LEMMA PlaceRoom ==
    ASSUME Q!QueueConstants, LocksHold, FilesAgree, RoomInv, NEW b \in Builders, Q!PlaceAudio(b)
    PROVE  RoomInv'
  <1> USE DEF RoomInv
  <1>0. \A c \in Q!Contents : c # None
    BY DEF Q!Contents, Q!QueueConstants
  <1>1. PICK s \in Snaps, w \in Q!Contents : s = task[b].snap /\ w = task[b].want
    <2>1. task[b].pc = "building"
      BY DEF Q!PlaceAudio
    <2> QED
      BY <2>1 DEF FilesAgree, SnapsOwned, Working, FileType, LocksHold, WaitsOnItsEntry
  <1>2. /\ task[b].pc = "building" /\ task[b].before = {}
        /\ audio' = [audio EXCEPT ![s] = w] /\ newer' = Q!Write(s)
        /\ task' = [task EXCEPT ![b].pc = "placed"]
        /\ manifest' = manifest /\ gone' = gone
    BY <1>1 DEF Q!PlaceAudio, Q!locks
  <1>3. /\ task'[b].pc = "placed" /\ task'[b].snap = s /\ task'[b].want = w
        /\ \A o \in Builders \ {b} : task'[o] = task[o]
    <2>1. task \in [Builders -> StreamRow] /\ task[b] \in StreamRow
      BY DEF LocksHold, LockType
    <2> QED
      BY <1>1, <1>2, <2>1 DEF StreamRow
  <1>4. manifest[s] = None /\ s \notin gone
    BY <1>1, <1>2 DEF FilesAgree, UnsavedStand, Unsaved, PlacedStand
  <1>5. audio'[s] = w /\ \A x \in Snaps \ {s} : audio'[x] = audio[x]
    BY <1>2 DEF FilesAgree, FileType
  <1>6. \A o \in Builders \ {b} : task[o].pc \in Working => task[o].snap \in Snaps \ {s}
    BY <1>1, <1>2 DEF FilesAgree, SnapsOwned, Working, FileType
  <1>7. PlacedStand'
    BY <1>2, <1>3, <1>4, <1>5, <1>6 DEF PlacedStand, Unsaved, Working
  <1>8. GoneUnlisted' /\ Q!ManifestHasAudio'
    BY <1>2, <1>4, <1>5 DEF GoneUnlisted, Q!ManifestHasAudio
  <1>9. Cardinality(Ahead(b)') < Cardinality(Builders)
    <2>1. newer'[s] = {}
      BY <1>2 DEF Q!Write
    <2> DEFINE f == [o \in Builders \ {b} |-> task'[o].snap]
    <2>2. IsFiniteSet(Builders) /\ IsFiniteSet(Builders \ {b}) /\ Cardinality(Builders \ {b}) = Cardinality(Builders) - 1
          /\ Cardinality(Builders) \in Nat
      BY QueueSets, FS_RemoveElement, FS_CardinalityType DEF Q!QueueConstants
    <2>3. Ahead(b)' \subseteq {f[o] : o \in Builders \ {b}}
      BY <1>3, <2>1 DEF Ahead, Rivals
    <2>4. IsFiniteSet({f[o] : o \in Builders \ {b}}) /\ Cardinality({f[o] : o \in Builders \ {b}}) <= Cardinality(Builders \ {b})
          /\ Cardinality({f[o] : o \in Builders \ {b}}) \in Nat
      <3>1. f \in Surjection(Builders \ {b}, {f[o] : o \in Builders \ {b}})
        BY DEF Surjection
      <3> HIDE DEF f
      <3> QED
        BY <2>2, <3>1, FS_Surjection, FS_CardinalityType
    <2>5. Cardinality(Ahead(b)') <= Cardinality({f[o] : o \in Builders \ {b}}) /\ Cardinality(Ahead(b)') \in Nat
      <3> HIDE DEF f
      <3> QED
        BY <2>3, <2>4, FS_Subset, FS_CardinalityType
    <2> HIDE DEF f
    <2> QED
      BY <2>2, <2>4, <2>5
  <1>10. ASSUME NEW o \in Builders \ {b}, task'[o].pc = "placed" PROVE Cardinality(Ahead(o)') < Cardinality(Builders)
    <2>1. task[o].pc = "placed" /\ task'[o].snap = task[o].snap /\ task[o].snap \in Snaps \ {s}
      BY <1>3, <1>6, <1>10 DEF Working
    <2>2. b \in Rivals(o)
      BY <1>2 DEF Rivals
    <2>3. ASSUME NEW p \in Rivals(o)' PROVE p \in Rivals(o) /\ task'[p].snap = task[p].snap
      BY <1>1, <1>3, <2>2, <2>3 DEF Rivals
    <2>4. ASSUME NEW x \in newer'[task[o].snap], x \notin Q!InBuild' PROVE x \in Ahead(o)
      <3>1. CASE x = s
        BY <1>1, <2>2, <3>1 DEF Ahead
      <3>2. CASE x # s
        <4>1. x \in newer[task[o].snap]
          BY <1>2, <2>1, <2>4, <3>2 DEF Q!Write
        <4>2. ASSUME NEW p \in Builders, task[p].pc = "building", x = task[p].snap PROVE FALSE
          <5>1. p # b
            BY <1>1, <3>2, <4>2
          <5> QED
            BY <1>3, <2>4, <4>2, <5>1 DEF Q!InBuild
        <4> QED
          BY <4>1, <4>2 DEF Ahead, Q!InBuild
      <3> QED
        BY <3>1, <3>2
    <2>5. Ahead(o)' \subseteq Ahead(o)
      BY <2>1, <2>3, <2>4 DEF Ahead
    <2> QED
      BY <2>1, <2>5, AheadLess DEF RoomKept
  <1>11. RoomKept'
    BY <1>9, <1>10 DEF RoomKept
  <1> QED
    BY <1>7, <1>8, <1>11

\* A manifest is saved beside whole audio.
LEMMA SaveRoom ==
    ASSUME Q!QueueConstants, LocksHold, FilesAgree, RoomInv, NEW b \in Builders, Q!SaveManifest(b)
    PROVE  RoomInv'
  <1> USE DEF RoomInv
  <1>1. PICK s \in Snaps : s = task[b].snap
    <2>1. task[b].pc = "placed"
      BY DEF Q!SaveManifest
    <2> QED
      BY <2>1 DEF FilesAgree, SnapsOwned, Working, FileType
  <1>2. /\ task[b].pc = "placed" /\ manifest' = [manifest EXCEPT ![s] = task[b].want]
        /\ task' = [o \in Builders |-> IF o = b THEN [task[b] EXCEPT !.pc = "saved"]
                                       ELSE [task[o] EXCEPT !.before = @ \ {b}]]
        /\ audio' = audio /\ newer' = newer /\ gone' = gone
    BY <1>1 DEF Q!SaveManifest, Q!locks
  <1>3. /\ task'[b].pc = "saved" /\ task'[b].snap = s
        /\ \A o \in Builders \ {b} : /\ task'[o].pc = task[o].pc /\ task'[o].snap = task[o].snap
                                    /\ task'[o].want = task[o].want /\ task'[o].before = task[o].before \ {b}
    <2>1. \A o \in Builders : task[o] \in StreamRow
      BY DEF LocksHold, LockType
    <2>2. task'[b] = [task[b] EXCEPT !.pc = "saved"]
      BY <1>2
    <2>3. \A o \in Builders \ {b} : task'[o] = [task[o] EXCEPT !.before = @ \ {b}]
      BY <1>2
    <2> QED
      BY <1>1, <2>1, <2>2, <2>3 DEF StreamRow
  <1>4. audio[s] = task[b].want /\ s \notin gone
    BY <1>1, <1>2 DEF PlacedStand, Unsaved
  <1>5. manifest'[s] = task[b].want /\ \A x \in Snaps \ {s} : manifest'[x] = manifest[x]
    BY <1>2 DEF FilesAgree, FileType
  <1>6. PlacedStand'
    BY <1>2, <1>3 DEF PlacedStand, Unsaved
  <1>7. GoneUnlisted' /\ Q!ManifestHasAudio'
    BY <1>2, <1>4, <1>5 DEF GoneUnlisted, Q!ManifestHasAudio, FilesAgree, FileType
  <1>8. ASSUME NEW o \in Builders, task'[o].pc = "placed" PROVE Cardinality(Ahead(o)') < Cardinality(Builders)
    <2>1. o # b /\ task[o].pc = "placed" /\ task'[o].snap = task[o].snap
      BY <1>3, <1>8
    <2>2. ASSUME NEW p \in Rivals(o)' PROVE p \in Rivals(o) /\ task'[p].snap = task[p].snap
      <3>1. CASE p = b
        BY <1>1, <1>2, <1>3, <2>1, <3>1 DEF Rivals
      <3>2. CASE p # b
        BY <1>3, <2>1, <2>2, <3>2 DEF Rivals
      <3> QED
        BY <3>1, <3>2
    <2>3. Q!InBuild \subseteq Q!InBuild'
      <3>1. SUFFICES ASSUME NEW p \in Builders, task[p].pc = "building" PROVE task[p].snap \in Q!InBuild'
        BY DEF Q!InBuild
      <3>2. p # b
        BY <1>2, <3>1
      <3>3. task'[p].pc = "building" /\ task'[p].snap = task[p].snap
        BY <1>3, <3>1, <3>2
      <3> QED
        BY <3>3 DEF Q!InBuild
    <2>4. Ahead(o)' \subseteq Ahead(o)
      BY <1>2, <2>1, <2>2, <2>3 DEF Ahead
    <2> QED
      BY <2>1, <2>4, AheadLess DEF RoomKept
  <1> QED
    BY <1>6, <1>7, <1>8 DEF RoomKept

\* Every step keeps room for what is placed, when the quota holds the builds.
LEMMA RoomStep ==
    ASSUME Q!QueueConstants, Q!QuotaHoldsBuilds, LocksHold, FilesAgree, RoomInv, [Q!Next]_(Q!vars)
    PROVE  RoomInv'
  <1>0. task \in [Builders -> StreamRow] /\ \A b \in Builders : task[b] \in StreamRow
    BY DEF LocksHold, LockType
  <1>1. task' = task /\ newer' = newer => RivalsGo
    BY DEF RivalsGo
  <1>2. ASSUME NEW b \in Builders, NEW r, task[b].pc # "building", r.pc \notin Working,
               task' = [task EXCEPT ![b] = r], newer' = newer
        PROVE  RivalsGo
    BY <1>0, <1>2 DEF RivalsGo, Working
  <1>3. CASE Q!EditOffer
    BY <1>1, <1>3, SameRoom DEF Q!EditOffer, Q!files
  <1>4. ASSUME NEW b \in Builders, Q!Request(b) PROVE RoomInv'
    <2> DEFINE e == IF lockOf[offer] # None THEN lockOf[offer] ELSE CHOOSE x \in Builders : entry[x] = Q!NoEntry
               new == [pc |-> "waiting", want |-> offer, entry |-> e, snap |-> None, before |-> {}]
    <2>1. task' = [task EXCEPT ![b] = new] /\ task[b].pc = "idle" /\ UNCHANGED <<audio, manifest, gone, newer>>
      BY <1>4 DEF Q!Request, Q!Idle, Q!files
    <2>2. new.pc \notin Working
      BY DEF Working
    <2> HIDE DEF new
    <2>3. RivalsGo
      BY <1>2, <2>1, <2>2
    <2> QED
      BY <2>1, <2>3, SameRoom
  <1>5. ASSUME NEW b \in Builders, Q!Acquire(b) PROVE RoomInv'
    <2>1. CASE Q!Reusable(task[b].want) # {}
      <3>1. task' = [task EXCEPT ![b] = [task[b] EXCEPT !.pc = "done"]] /\ task[b].pc = "waiting"
            /\ UNCHANGED <<audio, manifest, gone, newer>>
        BY <1>5, <2>1 DEF Q!Acquire
      <3>2. [task[b] EXCEPT !.pc = "done"].pc = "done"
        BY <1>0 DEF StreamRow
      <3>3. RivalsGo
        BY <1>2, <3>1, <3>2 DEF Working
      <3> QED
        BY <3>1, <3>3, SameRoom
    <2>2. CASE Q!Reusable(task[b].want) = {}
      <3>1. task[b].pc = "waiting" /\ UNCHANGED <<audio, manifest, gone>>
        BY <1>5 DEF Q!Acquire
      <3>2. PICK s \in Snaps \ used : newer' = Q!Write(s) /\ Starts(b, s)
        BY <1>5, <2>2 DEF Q!Acquire, Starts
      <3> QED
        BY <3>1, <3>2, StartsRoom
    <2> QED
      BY <2>1, <2>2
  <1>6. ASSUME NEW b \in Builders, Q!BuildFails(b) PROVE RoomInv'
    <2>1. /\ task[b].pc = "building" /\ task' = [task EXCEPT ![b] = [task[b] EXCEPT !.pc = "done", !.before = {}]]
          /\ newer' = Q!Forget(task[b].snap) /\ UNCHANGED <<audio, manifest, gone>>
      BY <1>6 DEF Q!BuildFails
    <2>2. task'[b].pc = "done" /\ \A o \in Builders \ {b} : task'[o] = task[o]
      BY <1>0, <2>1 DEF StreamRow
    <2>3. \A s \in Snaps : newer'[s] \subseteq newer[s] /\ task[b].snap \notin newer'[s]
      BY <2>1 DEF Q!Forget
    <2>4. RivalsGo
      BY <2>1, <2>2, <2>3 DEF RivalsGo, Working
    <2> QED
      BY <2>1, <2>4, SameRoom
  <1>7. ASSUME NEW b \in Builders, Q!EvictFor(b) PROVE RoomInv'
    <2>1. PICK s \in Snaps : Q!Victim(s, task[b].snap) /\ Q!RemoveSnapshot(s)
      BY <1>7 DEF Q!EvictFor
    <2>2. task' = task /\ Q!MayEvict(task[b].snap) /\ task[b].pc = "saved"
      BY <1>7 DEF Q!EvictFor
    <2>3. \A o \in Builders : task[o].pc = "placed" => task[o].snap # s
      BY <2>1, <2>2, PlacedIsSpared
    <2> QED
      BY <2>1, <2>2, <2>3, RemovalRoom
  <1>8. CASE Q!EvictAny
    <2>1. PICK s \in Snaps : Q!Victim(s, None) /\ Q!RemoveSnapshot(s)
      BY <1>8 DEF Q!EvictAny
    <2>2. task' = task /\ Q!MayEvict(None)
      BY <1>8 DEF Q!EvictAny
    <2>3. \A o \in Builders : task[o].pc = "placed" => task[o].snap # s
      BY <2>1, <2>2, PlacedIsSpared
    <2> QED
      BY <2>1, <2>2, <2>3, RemovalRoom
  <1>9. ASSUME NEW s \in Snaps, Q!RemoveExpired(s) PROVE RoomInv'
    <2>1. task' = task /\ manifest[s] # None /\ Q!RemoveSnapshot(s)
      BY <1>9 DEF Q!RemoveExpired
    <2>2. \A o \in Builders : task[o].pc = "placed" => task[o].snap # s
      BY <2>1 DEF FilesAgree, UnsavedStand, Unsaved
    <2> QED
      BY <2>1, <2>2, RemovalRoom
  <1>10. ASSUME NEW b \in Builders, Q!Answer(b) PROVE RoomInv'
    <2>1. task' = [task EXCEPT ![b] = [task[b] EXCEPT !.pc = "done"]] /\ task[b].pc = "saved"
          /\ UNCHANGED <<audio, manifest, gone, newer>>
      BY <1>10 DEF Q!Answer, Q!files
    <2>2. [task[b] EXCEPT !.pc = "done"].pc = "done"
      BY <1>0 DEF StreamRow
    <2>3. RivalsGo
      BY <1>2, <2>1, <2>2 DEF Working
    <2> QED
      BY <2>1, <2>3, SameRoom
  <1>11. ASSUME NEW b \in Builders, Q!Leave(b) PROVE RoomInv'
    <2>1. task' = [task EXCEPT ![b] = Q!Idle] /\ task[b].pc = "done" /\ UNCHANGED <<audio, manifest, gone, newer>>
      BY <1>11 DEF Q!Leave, Q!files
    <2>2. Q!Idle.pc = "idle"
      BY DEF Q!Idle
    <2>3. RivalsGo
      BY <1>2, <2>1, <2>2 DEF Working
    <2> QED
      BY <2>1, <2>3, SameRoom
  <1>12. CASE Q!Crash
    <2>1. task' = [b \in Builders |-> Q!Idle] /\ UNCHANGED <<audio, manifest, newer>> /\ gone' = {}
      BY <1>12 DEF Q!Crash
    <2>2. \A b \in Builders : task'[b].pc = "idle"
      BY <2>1 DEF Q!Idle
    <2>3. PlacedStand' /\ RoomKept'
      BY <2>2 DEF PlacedStand, RoomKept, Unsaved
    <2>4. GoneUnlisted' /\ Q!ManifestHasAudio'
      BY <2>1 DEF RoomInv, GoneUnlisted, Q!ManifestHasAudio
    <2> QED
      BY <2>3, <2>4 DEF RoomInv
  <1>13. ASSUME NEW s \in Snaps, Q!Unlink(s) PROVE RoomInv'
    <2>1. /\ audio' = [audio EXCEPT ![s] = None] /\ newer' = Q!Forget(s) /\ gone' \in SUBSET gone
          /\ manifest' = manifest /\ task' = task /\ s \in gone
      BY <1>13 DEF Q!Unlink
    <2>2. manifest[s] = None /\ \A o \in Builders : task[o].pc = "placed" => task[o].snap # s
      BY <2>1 DEF RoomInv, GoneUnlisted, PlacedStand, Unsaved
    <2> QED
      BY <2>1, <2>2, UnlinkRoom
  <1>14. ASSUME NEW s \in Snaps, Q!RemoveOrphan(s) PROVE RoomInv'
    <2>1. /\ audio' = [audio EXCEPT ![s] = None] /\ newer' = Q!Forget(s) /\ gone' \in SUBSET gone
          /\ manifest' = manifest /\ task' = task /\ manifest[s] = None /\ age[s] >= 3
      BY <1>14 DEF Q!RemoveOrphan, Q!OrphanAge
    <2>2. \A o \in Builders : task[o].pc = "placed" => task[o].snap # s
      BY <2>1 DEF FilesAgree, UnsavedStand, Unsaved
    <2> QED
      BY <2>1, <2>2, UnlinkRoom
  <1>15. CASE Q!Later
    BY <1>1, <1>15, SameRoom DEF Q!Later
  <1>16. CASE UNCHANGED Q!vars
    BY <1>1, <1>16, SameRoom DEF Q!vars, Q!files
  <1> QED
    BY <1>3, <1>4, <1>5, <1>6, <1>7, <1>8, <1>9, <1>10, <1>11, <1>12, <1>13, <1>14, <1>15, <1>16,
       PlaceRoom, SaveRoom DEF Q!Next

\* However streams are evicted: the same queue has at most one stream to reuse, and a
\* play hears only takes the page offers now (_build_lock, _find_reusable_snapshot,
\* _validate_shared_queue_manifest).
THEOREM StreamsAreShared == Spec => [](Q!OneStreamPerQueue /\ Q!ServedIsOffered)
  <1>1. Q!Init => LocksHold /\ FilesAgree
    BY PartConstants, LocksInit, FilesInit
  <1>2. LocksHold /\ FilesAgree /\ [Q!Next]_(Q!vars) => (LocksHold /\ FilesAgree)'
    BY PartConstants, LocksStep, FilesStep
  <1>3. LocksHold /\ FilesAgree => Q!OneStreamPerQueue /\ Q!ServedIsOffered
    BY PartConstants, FilesShow
  <1>4. Init => Q!Init
    BY DEF Init
  <1>5. [Next]_vars => [Q!Next]_(Q!vars)
    BY DEF Next, vars, Q!vars, queueVars
  <1> QED
    BY <1>1, <1>2, <1>3, <1>4, <1>5, PTL DEF Spec

\* When the quota has room for a stream of each request under way, a manifest moreover
\* always has its whole audio: no eviction takes a file between its rename and the save
\* of its manifest (_enforce_cache_quota, delete_snapshot_files_from_dir).
THEOREM StreamsStayTrue == ASSUME Q!QuotaHoldsBuilds PROVE Spec => []StreamsAreTrue
  <1>1. Q!Init => LocksHold /\ FilesAgree /\ RoomInv
    BY PartConstants, LocksInit, FilesInit, RoomInit
  <1>2. LocksHold /\ FilesAgree /\ RoomInv /\ [Q!Next]_(Q!vars) => (LocksHold /\ FilesAgree /\ RoomInv)'
    BY PartConstants, LocksStep, FilesStep, RoomStep
  <1>3. LocksHold /\ FilesAgree /\ RoomInv => StreamsAreTrue
    BY PartConstants, FilesShow DEF StreamsAreTrue, RoomInv
  <1>4. Init => Q!Init
    BY DEF Init
  <1>5. [Next]_vars => [Q!Next]_(Q!vars)
    BY DEF Next, vars, Q!vars, queueVars
  <1> QED
    BY <1>1, <1>2, <1>3, <1>4, <1>5, PTL DEF Spec
-----------------------------------------------------------------------------
(* The queue of a library pool.                                             *)

\* The operators of FiniteSets that PoolQueue brings with it.
LEMMA PoolSets == ASSUME NEW S PROVE P!Cardinality(S) = Cardinality(S)
  BY DEF P!Cardinality, Cardinality, P!IsFiniteSet, IsFiniteSet

\* The number of a place among the places of it.
Rank(Places, i) == Cardinality({j \in Places : j < i}) + 1
\* The places are numbered one by one in their order.
LEMMA RanksFill ==
    ASSUME NEW Places \in SUBSET Nat, IsFiniteSet(Places)
    PROVE  /\ \A i \in Places : Rank(Places, i) \in 1..Cardinality(Places)
           /\ \A i, j \in Places : i < j <=> Rank(Places, i) < Rank(Places, j)
           /\ \A n \in 1..Cardinality(Places) : \E i \in Places : Rank(Places, i) = n
  <1> DEFINE Below(i) == {j \in Places : j < i}
             rank == [i \in Places |-> Rank(Places, i)]
  <1>1. Cardinality(Places) \in Nat
    BY FS_CardinalityType
  <1>2. \A i \in Places : IsFiniteSet(Below(i)) /\ Cardinality(Below(i)) \in Nat
    BY FS_Subset, FS_CardinalityType
  <1>3. ASSUME NEW i \in Places PROVE Rank(Places, i) \in 1..Cardinality(Places)
    <2>1. Below(i) \in SUBSET Places /\ Below(i) # Places
      OBVIOUS
    <2>2. Cardinality(Below(i)) <= Cardinality(Places) /\ Cardinality(Below(i)) # Cardinality(Places)
      BY <2>1, FS_Subset
    <2>3. Rank(Places, i) = Cardinality(Below(i)) + 1
      BY DEF Rank
    <2> HIDE DEF Below
    <2> QED
      BY <1>1, <1>2, <2>2, <2>3
  <1>4. ASSUME NEW i \in Places, NEW j \in Places, i < j PROVE Rank(Places, i) < Rank(Places, j)
    <2>1. Below(i) \in SUBSET Below(j) /\ Below(i) # Below(j)
      <3>1. i \in Below(j) /\ i \notin Below(i)
        BY <1>4
      <3>2. ASSUME NEW k \in Below(i) PROVE k \in Below(j)
        BY <1>4
      <3> QED
        BY <3>1, <3>2
    <2>2. Cardinality(Below(i)) <= Cardinality(Below(j)) /\ Cardinality(Below(i)) # Cardinality(Below(j))
      BY <1>2, <2>1, FS_Subset
    <2>3. Rank(Places, i) = Cardinality(Below(i)) + 1 /\ Rank(Places, j) = Cardinality(Below(j)) + 1
      BY DEF Rank
    <2> HIDE DEF Below
    <2> QED
      BY <1>2, <2>2, <2>3
  <1>5. \A i, j \in Places : i < j <=> Rank(Places, i) < Rank(Places, j)
    <2>1. SUFFICES ASSUME NEW i \in Places, NEW j \in Places PROVE i < j <=> Rank(Places, i) < Rank(Places, j)
      OBVIOUS
    <2>2. i \in Int /\ j \in Int /\ Rank(Places, i) \in Int /\ Rank(Places, j) \in Int
      BY <1>1, <1>3
    <2>3. i < j \/ i = j \/ j < i
      BY <2>2
    <2>4. CASE i = j
      BY <2>2, <2>4
    <2>5. CASE i < j
      BY <1>4, <2>5
    <2>6. CASE j < i
      <3>1. Rank(Places, j) < Rank(Places, i)
        BY <1>4, <2>6
      <3> QED
        BY <2>2, <2>6, <3>1
    <2> QED
      BY <2>3, <2>4, <2>5, <2>6
  <1>6. rank \in Injection(Places, 1..Cardinality(Places))
    <2>1. rank \in [Places -> 1..Cardinality(Places)]
      BY <1>3
    <2>2. ASSUME NEW i \in Places, NEW j \in Places, rank[i] = rank[j] PROVE i = j
      <3>1. i \in Int /\ j \in Int /\ Rank(Places, i) \in Int /\ Rank(Places, j) \in Int /\ Rank(Places, i) = Rank(Places, j)
        BY <1>1, <1>3, <2>2
      <3>2. ~(i < j) /\ ~(j < i)
        BY <1>5, <3>1
      <3> QED
        BY <3>1, <3>2
    <2> HIDE DEF rank
    <2> QED
      BY <2>1, <2>2 DEF Injection, IsInjective
  <1>7. IsFiniteSet(1..Cardinality(Places)) /\ Cardinality(1..Cardinality(Places)) = Cardinality(Places)
    BY <1>1, FS_Interval
  <1>8. rank \in Surjection(Places, 1..Cardinality(Places))
    BY <1>6, <1>7, FS_Injection, Zenon
  <1>9. \A n \in 1..Cardinality(Places) : \E i \in Places : rank[i] = n
    <2> HIDE DEF rank
    <2> QED
      BY <1>8 DEF Surjection
  <1>10. \A n \in 1..Cardinality(Places) : \E i \in Places : Rank(Places, i) = n
    BY <1>9
  <1> QED
    BY <1>3, <1>5, <1>10

\* A sequence is made of the elements of another at the places of it, in their order.
PickedBy(s, q, Places, h) ==
    /\ h \in [1..Len(s) -> Places]
    /\ \A m \in 1..Len(s) : s[m] = q[h[m]]
    /\ \A m, n \in 1..Len(s) : m < n => h[m] < h[n]
    /\ \A i \in Places : \E m \in 1..Len(s) : h[m] = i

\* That is what is selected.
LEMMA PickedOut ==
    ASSUME NEW S, NEW q \in Seq(S), NEW Places \in SUBSET (1..Len(q))
    PROVE  /\ P!Selected(q, Places) \in Seq(S) /\ Len(P!Selected(q, Places)) = Cardinality(Places)
           /\ \E h : PickedBy(P!Selected(q, Places), q, Places, h)
  <1> DEFINE N1 == Cardinality(Places)
             h == [n \in 1..N1 |-> CHOOSE i \in Places : P!Cardinality({j \in Places : j < i}) + 1 = n]
             s == P!Selected(q, Places)
  <1>0. PICK L1 \in Nat : L1 = Len(q)
    OBVIOUS
  <1>1. IsFiniteSet(Places) /\ N1 \in Nat /\ Places \in SUBSET Nat
    <2>1. IsFiniteSet(1..L1) /\ Places \in SUBSET (1..L1)
      BY <1>0, FS_Interval
    <2>2. IsFiniteSet(Places)
      BY <2>1, FS_Subset
    <2>3. N1 \in Nat
      BY <2>2, FS_CardinalityType
    <2> QED
      BY <2>1, <2>2, <2>3
  <1>2. \A i \in Places : q[i] \in S
    OBVIOUS
  <1>3. /\ \A i \in Places : Rank(Places, i) \in 1..N1
        /\ \A i, j \in Places : i < j <=> Rank(Places, i) < Rank(Places, j)
        /\ \A n \in 1..N1 : \E i \in Places : Rank(Places, i) = n
    BY <1>1, RanksFill
  <1>4. \A i : P!Cardinality({j \in Places : j < i}) + 1 = Rank(Places, i)
    BY PoolSets DEF Rank
  <1>5. s = [n \in 1..N1 |-> q[h[n]]]
    BY PoolSets DEF P!Selected
  <1>6. ASSUME NEW n \in 1..N1 PROVE h[n] \in Places /\ Rank(Places, h[n]) = n
    <2>1. \E i \in Places : P!Cardinality({j \in Places : j < i}) + 1 = n
      BY <1>3, <1>4
    <2>2. h[n] = CHOOSE i \in Places : P!Cardinality({j \in Places : j < i}) + 1 = n
      OBVIOUS
    <2> HIDE DEF h
    <2>3. h[n] \in Places /\ P!Cardinality({j \in Places : j < h[n]}) + 1 = n
      BY <2>1, <2>2
    <2> QED
      BY <1>4, <2>3
  <1> HIDE DEF h, s
  <1>8. h \in [1..N1 -> Places]
    BY <1>6 DEF h
  <1>9. s \in Seq(S) /\ Len(s) = N1 /\ \A m \in 1..N1 : s[m] = q[h[m]]
    <2>1. \A m \in 1..N1 : q[h[m]] \in S
      BY <1>2, <1>6
    <2>2. s \in [1..N1 -> S] /\ N1 \in Nat
      BY <1>1, <1>5, <2>1
    <2>3. s \in Seq(S) /\ Len(s) = N1
      <3> HIDE DEF N1
      <3> QED
        BY <2>2
    <2> QED
      BY <1>5, <2>3
  <1>10. \A m, n \in 1..N1 : m < n => h[m] < h[n]
    BY <1>3, <1>6
  <1>11. ASSUME NEW i \in Places PROVE \E m \in 1..N1 : h[m] = i
    <2>1. Rank(Places, i) \in 1..N1
      BY <1>3
    <2>2. PICK k \in Places : k = h[Rank(Places, i)] /\ Rank(Places, k) = Rank(Places, i)
      BY <1>6, <2>1
    <2>3. i \in Int /\ k \in Int /\ Rank(Places, i) \in Int
      BY <1>1, <2>1
    <2>4. ~(Rank(Places, i) < Rank(Places, k)) /\ ~(Rank(Places, k) < Rank(Places, i))
      BY <2>2, <2>3
    <2>5. ~(i < k) /\ ~(k < i)
      BY <1>3, <2>4
    <2>6. k = i
      BY <2>3, <2>5
    <2> QED
      BY <2>1, <2>2, <2>6
  <1>12. PickedBy(s, q, Places, h)
    BY <1>8, <1>9, <1>10, <1>11 DEF PickedBy
  <1> QED
    BY <1>9, <1>12 DEF s

\* No element of a sequence appears twice.
Once(q) == \A i, j \in 1..Len(q) : q[i] = q[j] => i = j

\* What is selected from a sequence without repetitions has none.
LEMMA PickedOnce ==
    ASSUME NEW S, NEW q \in Seq(S), NEW Places \in SUBSET (1..Len(q))
    PROVE  /\ P!ToSet(P!Selected(q, Places)) = {q[i] : i \in Places}
           /\ Once(q) => Once(P!Selected(q, Places))
  <1> DEFINE s == P!Selected(q, Places)
  <1>1. s \in Seq(S) /\ \E h : PickedBy(s, q, Places, h)
    BY PickedOut
  <1> HIDE DEF s
  <1>2. PICK h : PickedBy(s, q, Places, h)
    BY <1>1
  <1>3. \A m \in 1..Len(s) : h[m] \in Places /\ s[m] = q[h[m]]
    BY <1>2 DEF PickedBy
  <1>4. P!ToSet(s) = {s[m] : m \in 1..Len(s)}
    BY <1>1 DEF P!ToSet
  <1>5. P!ToSet(s) \subseteq {q[i] : i \in Places}
    <2>1. SUFFICES ASSUME NEW t \in P!ToSet(s) PROVE \E i \in Places : t = q[i]
      OBVIOUS
    <2>2. PICK m \in 1..Len(s) : t = s[m]
      BY <1>4
    <2> QED
      BY <1>3, <2>2
  <1>6. {q[i] : i \in Places} \subseteq P!ToSet(s)
    <2>1. SUFFICES ASSUME NEW i \in Places PROVE q[i] \in P!ToSet(s)
      OBVIOUS
    <2>2. PICK m \in 1..Len(s) : h[m] = i
      BY <1>2 DEF PickedBy
    <2>3. s[m] = q[i]
      BY <1>3, <2>2
    <2> QED
      BY <1>4, <2>3
  <1>7. ASSUME Once(q) PROVE Once(s)
    <2>1. SUFFICES ASSUME NEW m \in 1..Len(s), NEW n \in 1..Len(s), s[m] = s[n] PROVE m = n
      BY DEF Once
    <2>2. h[m] = h[n]
      <3>1. h[m] \in 1..Len(q) /\ h[n] \in 1..Len(q) /\ q[h[m]] = q[h[n]]
        BY <1>3, <2>1
      <3> QED
        BY <1>7, <3>1 DEF Once
    <2>3. (m < n => h[m] < h[n]) /\ (n < m => h[n] < h[m])
      BY <1>2 DEF PickedBy
    <2>4. h[m] \in Int /\ h[n] \in Int /\ m \in Int /\ n \in Int
      <3>1. h[m] \in 1..Len(q) /\ h[n] \in 1..Len(q)
        BY <1>3, <2>1
      <3> QED
        BY <1>1, <3>1
    <2> QED
      BY <2>2, <2>3, <2>4
  <1> QED
    BY <1>5, <1>6, <1>7 DEF s

\* A sequence without repetitions is as long as it has elements.
LEMMA OnceCount ==
    ASSUME NEW S, NEW q \in Seq(S), Once(q)
    PROVE  IsFiniteSet(P!ToSet(q)) /\ Cardinality(P!ToSet(q)) = Len(q)
  <1>0. PICK L1 \in Nat : L1 = Len(q)
    OBVIOUS
  <1>1. PICK T1 : T1 = P!ToSet(q)
    OBVIOUS
  <1>2. T1 = {q[i] : i \in 1..L1}
    BY <1>0, <1>1 DEF P!ToSet
  <1>3. IsFiniteSet(1..L1) /\ Cardinality(1..L1) = L1
    BY FS_Interval
  <1>4. q \in [1..L1 -> T1] /\ \A t \in T1 : \E i \in 1..L1 : q[i] = t
    BY <1>0, <1>2
  <1>5. q \in Surjection(1..L1, T1)
    BY <1>4 DEF Surjection
  <1>6. \A i, j \in 1..L1 : q[i] = q[j] => i = j
    BY <1>0 DEF Once
  <1>7. q \in Injection(1..L1, T1)
    BY <1>4, <1>6 DEF Injection, IsInjective
  <1>8. q \in Bijection(1..L1, T1)
    BY <1>5, <1>7 DEF Bijection
  <1>9. ExistsBijection(1..L1, T1)
    BY <1>8 DEF ExistsBijection
  <1>10. IsFiniteSet(T1) /\ Cardinality(T1) = Cardinality(1..L1)
    <2> DEFINE I1 == 1..L1
    <2> HIDE DEF I1
    <2>1. IsFiniteSet(I1) /\ ExistsBijection(I1, T1)
      BY <1>3, <1>9 DEF I1
    <2>2. IsFiniteSet(T1) /\ Cardinality(T1) = Cardinality(I1)
      BY <2>1, FS_Bijection
    <2> QED
      BY <2>2 DEF I1
  <1> QED
    BY <1>0, <1>1, <1>3, <1>10

\* What the queue of a pool is made of: the takes of the pool and the start.
Wanted(pool, start) == {t \in P!TakeIds : P!Matches(t, pool)} \cup ({start} \ {None})

\* A queue of the takes S, each once.
Lists(q, S) == q \in Seq(P!TakeIds) /\ Once(q) /\ P!ToSet(q) = S

\* The greater takes before a smaller one are before the cut, the smaller behind it.
TurnsAt(q, cut) == \A j, k \in 1..Len(q) : (j < k /\ q[j] > q[k]) => j < cut /\ cut <= k

\* A take put before the others.
LEMMA FirstIn ==
    ASSUME NEW x \in P!TakeIds, NEW q, NEW S, Lists(q, S), x \notin S
    PROVE  Lists(<<x>> \o q, {x} \cup S) /\ (<<x>> \o q)[1] = x
  <1>1. q \in Seq(P!TakeIds) /\ P!ToSet(q) = S /\ Once(q)
    BY DEF Lists
  <1>2. PICK L1 \in Nat : L1 = Len(q)
    BY <1>1
  <1>3. PICK s : s = <<x>> \o q
    OBVIOUS
  <1>4. <<x>> \in Seq(P!TakeIds) /\ Len(<<x>>) = 1 /\ <<x>>[1] = x
    OBVIOUS
  <1>5. s \in Seq(P!TakeIds) /\ Len(s) = L1 + 1 /\ s[1] = x /\ \A i \in 2..(L1 + 1) : s[i] = q[i - 1]
    BY <1>1, <1>2, <1>3, <1>4
  <1>6. S = {q[i] : i \in 1..L1}
    BY <1>1, <1>2 DEF P!ToSet
  <1>7. P!ToSet(s) = {s[i] : i \in 1..(L1 + 1)}
    BY <1>5 DEF P!ToSet
  <1>8. P!ToSet(s) = {x} \cup S
    <2>1. ASSUME NEW t \in P!ToSet(s) PROVE t \in {x} \cup S
      <3>1. PICK i \in 1..(L1 + 1) : t = s[i]
        BY <1>7
      <3>2. CASE i = 1
        BY <1>5, <3>1, <3>2
      <3>3. CASE i # 1
        <4>1. i \in 2..(L1 + 1) /\ i - 1 \in 1..L1
          BY <1>2, <3>1, <3>3
        <4> QED
          BY <1>5, <1>6, <3>1, <4>1
      <3> QED
        BY <3>2, <3>3
    <2>2. ASSUME NEW t \in S PROVE t \in P!ToSet(s)
      <3>1. PICK i \in 1..L1 : t = q[i]
        BY <1>6
      <3>2. i + 1 \in 2..(L1 + 1) /\ i + 1 \in 1..(L1 + 1) /\ (i + 1) - 1 = i
        BY <1>2, <3>1
      <3>3. t = s[i + 1]
        BY <1>5, <3>1, <3>2
      <3> QED
        BY <1>7, <3>2, <3>3
    <2>3. x \in P!ToSet(s)
      <3>1. 1 \in 1..(L1 + 1)
        BY <1>2
      <3> QED
        BY <1>5, <1>7, <3>1
    <2> QED
      BY <2>1, <2>2, <2>3
  <1>9. Once(s)
    <2>1. SUFFICES ASSUME NEW i \in 1..(L1 + 1), NEW j \in 1..(L1 + 1), s[i] = s[j] PROVE i = j
      BY <1>5 DEF Once
    <2>2. \A k \in 1..(L1 + 1) : k # 1 => k - 1 \in 1..L1 /\ s[k] = q[k - 1] /\ s[k] \in S
      <3>1. SUFFICES ASSUME NEW k \in 1..(L1 + 1), k # 1 PROVE k - 1 \in 1..L1 /\ s[k] = q[k - 1] /\ s[k] \in S
        OBVIOUS
      <3>2. k \in 2..(L1 + 1) /\ k - 1 \in 1..L1
        BY <1>2, <3>1
      <3> QED
        BY <1>5, <1>6, <3>2
    <2>3. CASE i # 1 /\ j # 1
      <3>1. i - 1 \in 1..Len(q) /\ j - 1 \in 1..Len(q) /\ q[i - 1] = q[j - 1]
        BY <1>2, <2>1, <2>2, <2>3
      <3>2. i - 1 = j - 1
        BY <1>1, <3>1 DEF Once
      <3> QED
        BY <1>2, <3>2
    <2>4. CASE i = 1 \/ j = 1
      BY <1>5, <2>1, <2>2, <2>4
    <2> QED
      BY <2>3, <2>4
  <1> QED
    BY <1>3, <1>5, <1>8, <1>9 DEF Lists

\* The takes collected for a request.
LEMMA CollectedLists ==
    ASSUME P!PoolConstants, NEW pool, NEW start \in P!TakeIds \cup {None}
    PROVE  /\ Lists(P!Collected(pool, start), Wanted(pool, start))
           /\ (start = None \/ P!Matches(start, pool)) => TurnsAt(P!Collected(pool, start), 0)
  <1> DEFINE whole == [t \in P!TakeIds |-> t]
             Places == {t \in P!TakeIds : P!Matches(t, pool)}
             s == P!Selected(whole, Places)
  <1>1. whole \in Seq(P!TakeIds) /\ Len(whole) = NumTakes /\ \A t \in 1..NumTakes : whole[t] = t
    BY DEF P!TakeIds, P!PoolConstants
  <1>2. NumTakes \in Nat /\ Places \in SUBSET (1..Len(whole)) /\ Places \subseteq P!TakeIds
    BY <1>1 DEF P!TakeIds, P!PoolConstants
  <1>3. P!Collected(pool, start) = IF start = None \/ start \in P!ToSet(s) THEN s ELSE <<start>> \o s
    BY DEF P!Collected
  <1> HIDE DEF whole
  <1>4. s \in Seq(P!TakeIds) /\ \E h : PickedBy(s, whole, Places, h)
    BY <1>1, <1>2, PickedOut
  <1>5. P!ToSet(s) = {whole[i] : i \in Places} /\ (Once(whole) => Once(s))
    BY <1>1, <1>2, PickedOnce
  <1> HIDE DEF s
  <1>6. Once(whole)
    BY <1>1 DEF Once
  <1>7. P!ToSet(s) = Places
    <2>1. \A i \in Places : whole[i] = i
      BY <1>1, <1>2
    <2> HIDE DEF Places
    <2> QED
      BY <1>5, <2>1
  <1>8. Lists(s, Places)
    BY <1>4, <1>5, <1>6, <1>7 DEF Lists
  <1>9. TurnsAt(s, 0)
    <2>1. PICK h : PickedBy(s, whole, Places, h)
      BY <1>4
    <2>2. SUFFICES ASSUME NEW j \in 1..Len(s), NEW k \in 1..Len(s), j < k PROVE ~(s[j] > s[k])
      BY DEF TurnsAt
    <2>3. h[j] \in Places /\ h[k] \in Places /\ s[j] = whole[h[j]] /\ s[k] = whole[h[k]] /\ h[j] < h[k]
      BY <2>1, <2>2 DEF PickedBy
    <2>4. s[j] = h[j] /\ s[k] = h[k] /\ h[j] \in 1..NumTakes /\ h[k] \in 1..NumTakes
      BY <1>1, <1>2, <2>3
    <2> QED
      BY <1>2, <2>3, <2>4
  <1>10. CASE start = None \/ start \in Places
    <2>1. P!Collected(pool, start) = s
      BY <1>3, <1>7, <1>10
    <2>2. Wanted(pool, start) = Places
      BY <1>10 DEF Wanted, P!PoolConstants
    <2> QED
      BY <1>8, <1>9, <2>1, <2>2
  <1>11. CASE start # None /\ start \notin Places
    <2>1. P!Collected(pool, start) = <<start>> \o s
      BY <1>3, <1>7, <1>11
    <2>2. Wanted(pool, start) = {start} \cup Places
      BY <1>11 DEF Wanted
    <2>3. start \in P!TakeIds /\ ~P!Matches(start, pool)
      BY <1>11
    <2>4. Lists(<<start>> \o s, {start} \cup Places)
      <3> HIDE DEF Places
      <3> QED
        BY <1>8, <1>11, <2>3, FirstIn
    <2> QED
      BY <1>11, <2>1, <2>2, <2>3, <2>4
  <1> QED
    BY <1>10, <1>11

\* An order of the takes S lists them.
LEMMA OrderLists ==
    ASSUME NEW S \in SUBSET P!TakeIds, IsFiniteSet(S), NEW q \in P!Orders(S)
    PROVE  Lists(q, S)
  <1>1. PICK N1 : N1 = Cardinality(S)
    OBVIOUS
  <1>2. N1 \in Nat
    BY <1>1, FS_CardinalityType
  <1>3. q \in [1..N1 -> S] /\ \A i, j \in 1..N1 : i # j => q[i] # q[j]
    BY <1>1, PoolSets DEF P!Orders
  <1>4. q \in Seq(P!TakeIds) /\ Len(q) = N1
    BY <1>2, <1>3
  <1>5. Once(q)
    BY <1>3, <1>4 DEF Once
  <1>6. P!ToSet(q) \in SUBSET S /\ IsFiniteSet(P!ToSet(q)) /\ Cardinality(P!ToSet(q)) = N1
    <2>1. P!ToSet(q) \in SUBSET S
      BY <1>2, <1>3, <1>4 DEF P!ToSet
    <2> QED
      BY <1>4, <1>5, <2>1, OnceCount
  <1>7. P!ToSet(q) = S
    <2>1. PICK T1 : T1 = P!ToSet(q)
      OBVIOUS
    <2>2. T1 \in SUBSET S /\ Cardinality(T1) = Cardinality(S)
      BY <1>1, <1>6, <2>1
    <2>3. T1 = S
      BY <2>2, FS_Subset
    <2> QED
      BY <2>1, <2>3
  <1> QED
    BY <1>4, <1>5, <1>7 DEF Lists

\* The queue turned until its start is first lists the same takes, and turns once.
LEMMA RotatedLists ==
    ASSUME NEW c, NEW S, Lists(c, S), NEW start \in S
    PROVE  /\ Lists(P!Rotated(c, start), S)
           /\ P!Rotated(c, start)[1] = start
           /\ TurnsAt(c, 0) => \E cut \in Nat : TurnsAt(P!Rotated(c, start), cut)
  <1>1. c \in Seq(P!TakeIds) /\ Once(c) /\ P!ToSet(c) = S
    BY DEF Lists
  <1>2. PICK L1 \in Nat : L1 = Len(c)
    BY <1>1
  <1>3. S = {c[i] : i \in 1..L1}
    BY <1>1, <1>2 DEF P!ToSet
  <1>4. PICK i : i = P!Position(c, start)
    OBVIOUS
  <1>5. i \in 1..L1 /\ c[i] = start
    <2>1. \E k \in 1..L1 : c[k] = start
      BY <1>3
    <2>2. i = CHOOSE k \in 1..L1 : c[k] = start
      BY <1>2, <1>4 DEF P!Position
    <2> QED
      BY <2>1, <2>2
  <1>6. PICK a : a = SubSeq(c, i, L1)
    OBVIOUS
  <1>7. PICK b : b = SubSeq(c, 1, i - 1)
    OBVIOUS
  <1>8. PICK s : s = P!Rotated(c, start)
    OBVIOUS
  <1>9. PICK A1 \in 1..L1 : A1 = L1 - i + 1
    <2>1. i \in Int /\ 1 <= i /\ i <= L1
      BY <1>2, <1>5
    <2>2. L1 - i + 1 \in 1..L1
      BY <1>2, <2>1
    <2> QED
      BY <2>2
  <1>10. a \in Seq(P!TakeIds) /\ Len(a) = A1 /\ \A m \in 1..A1 : a[m] = c[m + i - 1]
    <2>1. \A m \in i..L1 : c[m] \in P!TakeIds
      BY <1>1, <1>2, <1>5
    <2> QED
      BY <1>1, <1>2, <1>5, <1>6, <1>9, <2>1
  <1>11. b \in Seq(P!TakeIds) /\ Len(b) = i - 1 /\ \A m \in 1..(i - 1) : b[m] = c[m]
    <2>1. \A m \in 1..(i - 1) : c[m] \in P!TakeIds
      BY <1>1, <1>2, <1>5
    <2> QED
      BY <1>1, <1>2, <1>5, <1>7, <2>1
  <1>12. s = a \o b
    BY <1>2, <1>4, <1>6, <1>7, <1>8 DEF P!Rotated
  <1>13. /\ s \in Seq(P!TakeIds) /\ Len(s) = L1
         /\ \A m \in 1..L1 : s[m] = IF m <= A1 THEN c[m + i - 1] ELSE c[m - A1]
    <2>1. PICK B1 \in Nat : B1 = i - 1
      BY <1>2, <1>5
    <2>2. a \in Seq(P!TakeIds) /\ b \in Seq(P!TakeIds) /\ Len(a) = A1 /\ Len(b) = B1 /\ A1 \in Nat
      BY <1>9, <1>10, <1>11, <2>1
    <2>3. a \o b \in Seq(P!TakeIds)
      BY <2>2
    <2>4. Len(a \o b) = A1 + B1
      BY <2>2
    <2>5. \A m \in 1..(A1 + B1) : (a \o b)[m] = IF m <= A1 THEN a[m] ELSE b[m - A1]
      BY <2>2
    <2>6. A1 + B1 = L1
      BY <1>2, <1>5, <1>9, <2>1
    <2>7. ASSUME NEW m \in 1..L1 PROVE s[m] = IF m <= A1 THEN c[m + i - 1] ELSE c[m - A1]
      <3>1. s[m] = IF m <= A1 THEN a[m] ELSE b[m - A1]
        BY <1>12, <2>5, <2>6
      <3>2. m <= A1 => m \in 1..A1
        BY <1>9
      <3>3. ~(m <= A1) => m - A1 \in 1..(i - 1)
        BY <1>2, <1>5, <1>9, <2>1, <2>6
      <3> QED
        BY <1>10, <1>11, <3>1, <3>2, <3>3
    <2> QED
      BY <1>12, <2>3, <2>4, <2>6, <2>7
  <1> DEFINE from(m) == IF m <= A1 THEN m + i - 1 ELSE m - A1
  <1>14. \A m \in 1..L1 : from(m) \in 1..L1 /\ s[m] = c[from(m)]
    <2>1. \A m \in 1..L1 : from(m) \in 1..L1
      BY <1>2, <1>5, <1>9
    <2> QED
      BY <1>13, <2>1
  <1>15. \A m, n \in 1..L1 : from(m) = from(n) => m = n
    BY <1>2, <1>5, <1>9
  <1>16. \A k \in 1..L1 : \E m \in 1..L1 : from(m) = k
    <2>1. SUFFICES ASSUME NEW k \in 1..L1 PROVE \E m \in 1..L1 : from(m) = k
      OBVIOUS
    <2>2. CASE k >= i
      <3>1. k - i + 1 \in 1..L1 /\ from(k - i + 1) = k
        BY <1>2, <1>5, <1>9, <2>2
      <3> QED
        BY <3>1
    <2>3. CASE k < i
      <3>1. k + A1 \in 1..L1 /\ from(k + A1) = k
        BY <1>2, <1>5, <1>9, <2>3
      <3> QED
        BY <3>1
    <2> QED
      BY <1>5, <2>2, <2>3
  <1>17. s[1] = start
    <2>1. 1 \in 1..L1 /\ 1 <= A1 /\ 1 + i - 1 = i
      BY <1>2, <1>5, <1>9
    <2> QED
      BY <1>5, <1>13, <2>1
  <1>18. ASSUME TurnsAt(c, 0) PROVE TurnsAt(s, A1 + 1)
    <2>1. SUFFICES ASSUME NEW j \in 1..L1, NEW k \in 1..L1, j < k, s[j] > s[k] PROVE j < A1 + 1 /\ A1 + 1 <= k
      BY <1>13 DEF TurnsAt
    <2>2. \A m, n \in 1..L1 : m < n => ~(c[m] > c[n])
      <3>1. \A m \in 1..L1 : ~(m < 0)
        OBVIOUS
      <3> QED
        BY <1>2, <1>18, <3>1 DEF TurnsAt
    <2>3. ~(from(j) < from(k))
      <3>1. from(j) \in 1..L1 /\ from(k) \in 1..L1 /\ s[j] = c[from(j)] /\ s[k] = c[from(k)]
        BY <1>14
      <3> HIDE DEF from
      <3> QED
        BY <2>1, <2>2, <3>1
    <2> QED
      BY <1>2, <1>5, <1>9, <2>1, <2>3
  <1> HIDE DEF from
  <1>19. Once(s)
    <2>1. SUFFICES ASSUME NEW m \in 1..L1, NEW n \in 1..L1, s[m] = s[n] PROVE m = n
      BY <1>13 DEF Once
    <2>2. from(m) \in 1..Len(c) /\ from(n) \in 1..Len(c) /\ c[from(m)] = c[from(n)]
      BY <1>2, <1>14, <2>1
    <2>3. from(m) = from(n)
      BY <1>1, <2>2 DEF Once
    <2> QED
      BY <1>15, <2>3
  <1>20. P!ToSet(s) = S
    <2>1. P!ToSet(s) = {s[m] : m \in 1..L1}
      BY <1>13 DEF P!ToSet
    <2>2. ASSUME NEW t \in P!ToSet(s) PROVE t \in S
      <3>1. PICK m \in 1..L1 : t = s[m]
        BY <2>1
      <3> QED
        BY <1>3, <1>14, <3>1
    <2>3. ASSUME NEW t \in S PROVE t \in P!ToSet(s)
      <3>1. PICK k \in 1..L1 : t = c[k]
        BY <1>3
      <3>2. PICK m \in 1..L1 : from(m) = k
        BY <1>16
      <3> QED
        BY <1>14, <2>1, <3>1, <3>2
    <2> QED
      BY <2>2, <2>3
  <1>21. Lists(s, S)
    BY <1>1, <1>13, <1>19, <1>20 DEF Lists
  <1>22. A1 + 1 \in Nat
    BY <1>9
  <1> QED
    BY <1>8, <1>17, <1>18, <1>21, <1>22

\* The queue of a request lists what was collected, from the start; unshuffled it turns once.
LEMMA ArrangedLists ==
    ASSUME P!PoolConstants, NEW S \in SUBSET P!TakeIds, NEW c, Lists(c, S),
           NEW start \in S \cup {None}, NEW shuffle \in BOOLEAN, NEW q \in P!Arrangements(c, start, shuffle)
    PROVE  /\ Lists(q, S)
           /\ start # None => q[1] = start
           /\ (~shuffle /\ TurnsAt(c, 0)) => \E cut \in Nat : TurnsAt(q, cut)
  <1>1. c \in Seq(P!TakeIds) /\ P!ToSet(c) = S
    BY DEF Lists
  <1>2. IsFiniteSet(S)
    BY <1>1, OnceCount DEF Lists
  <1>3. CASE shuffle /\ start = None
    <2>1. q \in P!Orders(S)
      BY <1>1, <1>3 DEF P!Arrangements, P!Shuffles
    <2> QED
      BY <1>2, <1>3, <2>1, OrderLists
  <1>4. CASE shuffle /\ start # None
    <2>1. PICK o \in P!Orders(S \ {start}) : q = <<start>> \o o
      BY <1>1, <1>4 DEF P!Arrangements, P!Shuffles
    <2>2. S \ {start} \in SUBSET P!TakeIds /\ IsFiniteSet(S \ {start}) /\ start \in P!TakeIds
      BY <1>2, <1>4, FS_RemoveElement
    <2>3. Lists(o, S \ {start})
      BY <2>2, OrderLists
    <2>4. Lists(q, {start} \cup (S \ {start})) /\ q[1] = start
      BY <2>1, <2>2, <2>3, FirstIn
    <2>5. {start} \cup (S \ {start}) = S
      BY <1>4
    <2> QED
      BY <1>4, <2>4, <2>5
  <1>5. CASE ~shuffle /\ start = None
    <2>1. q = c
      BY <1>5 DEF P!Arrangements
    <2> QED
      BY <1>5, <2>1
  <1>6. CASE ~shuffle /\ start # None
    <2>1. q = P!Rotated(c, start) /\ start \in S
      BY <1>6 DEF P!Arrangements
    <2> QED
      BY <1>6, <2>1, RotatedLists
  <1> QED
    BY <1>3, <1>4, <1>5, <1>6

\* A set of the first places is as long as it is large.
LEMMA FirstPlacesAre ==
    ASSUME NEW L1 \in Nat, NEW F \in SUBSET (1..L1), \A i \in F : \A j \in 1..i : j \in F
    PROVE  Cardinality(F) \in 0..L1 /\ F = 1..Cardinality(F)
  <1> DEFINE Z == {n \in 1..(L1 + 1) : n \notin F}
  <1>1. L1 + 1 \in Z /\ Z \in SUBSET Nat
    OBVIOUS
  <1>2. PICK z \in Z : \A k \in Z : z <= k
    <2> HIDE DEF Z
    <2>1. Z \in SUBSET Nat /\ Z # {}
      BY <1>1
    <2> QED
      BY <2>1, SmallestNat
  <1>3. z \in 1..(L1 + 1) /\ z \notin F
    OBVIOUS
  <1>4. PICK n \in 0..L1 : n = z - 1
    <2>1. z - 1 \in 0..L1
      BY <1>3
    <2> QED
      BY <2>1
  <1>5. ASSUME NEW i \in 1..n PROVE i \in F
    <2>1. i \in 1..(L1 + 1) /\ ~(z <= i)
      BY <1>3, <1>4
    <2> QED
      BY <1>2, <2>1
  <1>6. ASSUME NEW i \in F PROVE i \in 1..n
    <2>1. i \in 1..L1 /\ ~(z \in 1..i)
      BY <1>3
    <2> QED
      BY <1>3, <1>4, <2>1
  <1>7. F = 1..n
    BY <1>5, <1>6
  <1>8. Cardinality(1..n) = n
    <2>1. n \in Nat
      BY <1>4
    <2>2. Cardinality(1..n) = IF 1 > n THEN 0 ELSE n - 1 + 1
      BY <2>1, FS_Interval
    <2> QED
      BY <2>1, <2>2
  <1> QED
    BY <1>4, <1>7, <1>8

\* The playable takes among the first ones grow by at most one with each.
LEMMA PlayableGrows ==
    ASSUME NEW q, NEW n \in Nat
    PROVE  /\ P!PlayableAmong(q, n) \in Nat
           /\ P!PlayableAmong(q, 0) = 0
           /\ n # 0 => /\ P!PlayableAmong(q, n - 1) \in Nat
                       /\ P!PlayableAmong(q, n) <= P!PlayableAmong(q, n - 1) + 1
  <1> DEFINE R(m) == {i \in 1..m : P!Reads(q[i])}
  <1>1. \A m \in Nat : IsFiniteSet(R(m)) /\ P!PlayableAmong(q, m) = Cardinality(R(m)) /\ Cardinality(R(m)) \in Nat
    <2>1. SUFFICES ASSUME NEW m \in Nat
                   PROVE  IsFiniteSet(R(m)) /\ P!PlayableAmong(q, m) = Cardinality(R(m)) /\ Cardinality(R(m)) \in Nat
      OBVIOUS
    <2>2. IsFiniteSet(1..m) /\ R(m) \in SUBSET (1..m)
      BY FS_Interval
    <2>3. P!PlayableAmong(q, m) = Cardinality(R(m))
      BY PoolSets DEF P!PlayableAmong
    <2> HIDE DEF R
    <2>4. IsFiniteSet(R(m))
      BY <2>2, FS_Subset
    <2> QED
      BY <2>3, <2>4, FS_CardinalityType
  <1>2. R(0) = {}
    OBVIOUS
  <1>3. P!PlayableAmong(q, 0) = 0
    BY <1>1, <1>2, FS_EmptySet
  <1>4. ASSUME n # 0 PROVE P!PlayableAmong(q, n - 1) \in Nat /\ P!PlayableAmong(q, n) <= P!PlayableAmong(q, n - 1) + 1
    <2>1. PICK m \in Nat : m = n - 1
      BY <1>4
    <2>2. R(n) \in SUBSET (R(m) \cup {n})
      BY <2>1
    <2>3. IsFiniteSet(R(m)) /\ Cardinality(R(m)) \in Nat /\ Cardinality(R(n)) \in Nat
      BY <1>1
    <2> HIDE DEF R
    <2>4. IsFiniteSet(R(m) \cup {n}) /\ Cardinality(R(m) \cup {n}) <= Cardinality(R(m)) + 1
      BY <2>3, FS_AddElement
    <2>5. Cardinality(R(n)) <= Cardinality(R(m) \cup {n})
      BY <2>2, <2>4, FS_Subset
    <2>6. Cardinality(R(m) \cup {n}) \in Nat
      BY <2>4, FS_CardinalityType
    <2>7. Cardinality(R(n)) <= Cardinality(R(m)) + 1
      BY <2>3, <2>4, <2>5, <2>6
    <2> QED
      BY <1>1, <2>1, <2>7
  <1> QED
    BY <1>1, <1>3, <1>4

\* How far a queue is scanned: to its end, or to one of the limits exactly.
LEMMA ScanStops ==
    ASSUME P!PoolConstants, NEW q \in Seq(P!TakeIds)
    PROVE  /\ P!Scanned(q) \in 0..Len(q)
           /\ q # <<>> => P!Scanned(q) # 0
           /\ P!Scanned(q) # Len(q) => P!Scanned(q) = ScanLimit \/ P!PlayableAmong(q, P!Scanned(q)) = PlayableLimit
  <1> DEFINE Among(n) == P!PlayableAmong(q, n)
  <1>1. PICK L1 \in Nat : L1 = Len(q)
    OBVIOUS
  <1>2. PICK F : F = {i \in 1..L1 : i <= ScanLimit /\ Among(i - 1) < PlayableLimit}
    OBVIOUS
  <1>3. ScanLimit \in Nat \ {0} /\ PlayableLimit \in Nat \ {0}
    BY DEF P!PoolConstants
  <1>4. PICK n : n = P!Scanned(q)
    OBVIOUS
  <1>5. n = Cardinality(F)
    BY <1>1, <1>2, <1>4, PoolSets DEF P!Scanned
  <1>6. /\ \A m \in Nat : Among(m) \in Nat
        /\ Among(0) = 0
        /\ \A m \in Nat : m # 0 => Among(m) <= Among(m - 1) + 1
    BY PlayableGrows
  <1>7. \A m, k \in Nat : m <= k => Among(m) <= Among(k)
    <2>1. SUFFICES ASSUME NEW m \in Nat, NEW k \in Nat, m <= k PROVE Among(m) <= Among(k)
      OBVIOUS
    <2>2. PICK A1 : A1 = {i \in 1..m : P!Reads(q[i])}
      OBVIOUS
    <2>3. PICK A2 : A2 = {i \in 1..k : P!Reads(q[i])}
      OBVIOUS
    <2>4. A1 \in SUBSET A2 /\ A2 \in SUBSET (1..k) /\ IsFiniteSet(1..k)
      BY <2>1, <2>2, <2>3, FS_Interval
    <2>5. IsFiniteSet(A2)
      BY <2>4, FS_Subset
    <2>6. Cardinality(A1) <= Cardinality(A2)
      BY <2>4, <2>5, FS_Subset
    <2> QED
      BY <2>2, <2>3, <2>6, PoolSets DEF P!PlayableAmong
  <1> HIDE DEF Among
  <1>8. F \in SUBSET (1..L1) /\ \A i \in F : \A j \in 1..i : j \in F
    <2>1. SUFFICES ASSUME NEW i \in F, NEW j \in 1..i PROVE j \in F
      BY <1>2
    <2>2. i \in 1..L1 /\ i <= ScanLimit /\ Among(i - 1) < PlayableLimit
      BY <1>2
    <2>3. j \in 1..L1 /\ j <= ScanLimit /\ j - 1 \in Nat /\ i - 1 \in Nat /\ j - 1 <= i - 1
      BY <1>3, <2>2
    <2>4. Among(j - 1) <= Among(i - 1) /\ Among(j - 1) \in Nat /\ Among(i - 1) \in Nat
      BY <1>6, <1>7, <2>3
    <2>5. Among(j - 1) < PlayableLimit
      BY <1>3, <2>2, <2>4
    <2> QED
      BY <1>2, <2>3, <2>5
  <1>9. n \in 0..L1 /\ F = 1..n
    BY <1>5, <1>8, FirstPlacesAre
  <1>10. ASSUME L1 # 0 PROVE n # 0
    <2>1. 1 \in 1..L1 /\ 1 <= ScanLimit /\ 1 - 1 = 0
      BY <1>3, <1>10
    <2>2. Among(1 - 1) < PlayableLimit
      BY <1>3, <1>6, <2>1
    <2>3. 1 \in F
      BY <1>2, <2>1, <2>2
    <2> QED
      BY <1>9, <2>3
  <1>11. ASSUME n # L1 PROVE n = ScanLimit \/ Among(n) = PlayableLimit
    <2>1. n + 1 \in 1..L1 /\ n + 1 \notin F /\ (n + 1) - 1 = n /\ n \in Nat
      BY <1>1, <1>9, <1>11
    <2>2. n + 1 > ScanLimit \/ Among(n) >= PlayableLimit
      <3>1. Among(n) \in Nat
        BY <1>6, <2>1
      <3> QED
        BY <1>2, <1>3, <2>1, <3>1
    <2>3. n # 0
      BY <1>10, <2>1
    <2>4. n \in F
      BY <1>9, <2>1, <2>3
    <2>5. n <= ScanLimit /\ Among(n - 1) < PlayableLimit
      BY <1>2, <2>4
    <2>6. CASE n + 1 > ScanLimit
      BY <1>3, <2>1, <2>5, <2>6
    <2>7. CASE Among(n) >= PlayableLimit
      <3>1. Among(n) \in Nat /\ n - 1 \in Nat /\ Among(n) <= Among(n - 1) + 1
        BY <1>6, <2>1, <2>3
      <3>2. Among(n - 1) \in Nat
        BY <1>6, <3>1
      <3>3. Among(n) = PlayableLimit
        BY <1>3, <2>5, <2>7, <3>1, <3>2
      <3> QED
        BY <3>3
    <2> QED
      BY <2>2, <2>6, <2>7
  <1>12. q # <<>> => L1 # 0
    BY <1>1
  <1> QED
    BY <1>1, <1>4, <1>9, <1>10, <1>11, <1>12 DEF Among

\* The playable takes of the scanned part keep the turn of the queue.
LEMMA PickedTurn ==
    ASSUME NEW q \in Seq(P!TakeIds), NEW Places \in SUBSET (1..Len(q)), NEW cut \in Nat, TurnsAt(q, cut),
           NEW s, s = P!Selected(q, Places), s # <<>>
    PROVE  \E i \in 1..Len(s) : TurnsAt(s, i)
  <1>1. s \in Seq(P!TakeIds) /\ \E h : PickedBy(s, q, Places, h)
    BY PickedOut
  <1>2. PICK h : PickedBy(s, q, Places, h)
    BY <1>1
  <1>3. PICK L1 \in Nat : L1 = Len(s)
    BY <1>1
  <1>4. \A m \in 1..L1 : h[m] \in 1..Len(q) /\ s[m] = q[h[m]]
    BY <1>2, <1>3 DEF PickedBy
  <1>5. \A m, n \in 1..L1 : m < n => h[m] < h[n]
    BY <1>2, <1>3 DEF PickedBy
  <1>6. ASSUME NEW j \in 1..L1, NEW k \in 1..L1, j < k, s[j] > s[k] PROVE h[j] < cut /\ cut <= h[k]
    <2>1. h[j] \in 1..Len(q) /\ h[k] \in 1..Len(q) /\ h[j] < h[k] /\ q[h[j]] > q[h[k]]
      BY <1>4, <1>5, <1>6
    <2> QED
      BY <2>1 DEF TurnsAt
  <1> DEFINE Z == {m \in 1..L1 : cut <= h[m]}
  <1>7. CASE Z = {}
    <2>1. 1 \in 1..L1
      BY <1>1, <1>3
    <2>2. TurnsAt(s, 1)
      <3>1. SUFFICES ASSUME NEW j \in 1..L1, NEW k \in 1..L1, j < k, s[j] > s[k] PROVE FALSE
        BY <1>3 DEF TurnsAt
      <3>2. k \in Z
        BY <1>6, <3>1
      <3> QED
        BY <1>7, <3>2
    <2> QED
      BY <1>3, <2>1, <2>2
  <1>8. CASE Z # {}
    <2>1. PICK i \in Z : \A m \in Z : i <= m
      <3>1. Z \in SUBSET Nat
        OBVIOUS
      <3> HIDE DEF Z
      <3> QED
        BY <1>8, <3>1, SmallestNat
    <2>2. i \in 1..L1 /\ cut <= h[i]
      OBVIOUS
    <2>3. TurnsAt(s, i)
      <3>1. SUFFICES ASSUME NEW j \in 1..L1, NEW k \in 1..L1, j < k, s[j] > s[k] PROVE j < i /\ i <= k
        BY <1>3 DEF TurnsAt
      <3>2. h[j] < cut /\ cut <= h[k]
        BY <1>6, <3>1
      <3>3. i <= k
        BY <2>1, <3>2
      <3>4. j < i
        <4>1. h[j] \in Int /\ h[i] \in Int
          <5>1. h[j] \in 1..Len(q) /\ h[i] \in 1..Len(q)
            BY <1>4, <2>2
          <5> QED
            BY <5>1
        <4>2. ~(i < j) /\ i # j
          <5>1. i < j => h[i] < h[j]
            BY <1>5, <2>2
          <5> QED
            BY <2>2, <3>2, <4>1, <5>1
        <4> QED
          BY <2>2, <4>2
      <3> QED
        BY <3>3, <3>4
    <2> QED
      BY <1>3, <2>2, <2>3
  <1> QED
    BY <1>7, <1>8

\* What is known of the queue of a request.
Arranged(q, c, S, start, turned) ==
    /\ Lists(c, S) /\ Lists(q, S)
    /\ start # None => start \in S /\ q[1] = start
    /\ turned => \E cut \in Nat : TurnsAt(q, cut)

\* What is promised of the answer r to it.
Whole(r, S, start, turned) ==
    /\ start # None => r.sources[1] = start
    /\ P!Cardinality(P!ToSet(r.sources)) = Len(r.sources)
    /\ P!ToSet(r.sources) \cup P!ToSet(r.skipped) \subseteq S
    /\ \A t \in P!ToSet(r.skipped) : ~lib[t].readable
    /\ r.complete => P!ToSet(r.sources) \cup P!ToSet(r.skipped) = S
    /\ ~r.complete => \/ Len(r.sources) = PlayableLimit
                      \/ Len(r.sources) + Len(r.skipped) = ScanLimit
    /\ turned => \E i \in 1..Len(r.sources) : TurnsAt(r.sources, i)

\* The answer to a queue is whole.
LEMMA MembershipIsWhole ==
    ASSUME P!PoolConstants, NEW S \in SUBSET P!TakeIds, NEW q, NEW c, NEW start \in P!TakeIds \cup {None},
           NEW turned \in BOOLEAN, Arranged(q, c, S, start, turned), P!Membership(start, c, q) # Refused
    PROVE  Whole(P!Membership(start, c, q), S, start, turned)
  <1>1. PICK r : r = P!Membership(start, c, q)
    OBVIOUS
  <1>2. PICK n : n = P!Scanned(q)
    OBVIOUS
  <1>3. PICK seen : seen = SubSeq(q, 1, n)
    OBVIOUS
  <1>4. PICK I : I = {i \in DOMAIN seen : P!Reads(seen[i])}
    OBVIOUS
  <1>5. PICK J : J = {i \in DOMAIN c : c[i] \in P!ToSet(seen) /\ ~P!Reads(c[i])}
    OBVIOUS
  <1>6. PICK src : src = P!Selected(seen, I)
    OBVIOUS
  <1>7. PICK skp : skp = P!Selected(c, J)
    OBVIOUS
  <1>8. /\ r = [sources |-> src, skipped |-> skp, complete |-> Len(seen) = Len(q)]
        /\ src # <<>> /\ (start # None => start \notin P!ToSet(skp))
    BY <1>1, <1>2, <1>3, <1>4, <1>5, <1>6, <1>7 DEF P!Membership
  <1>9. r.sources = src /\ r.skipped = skp /\ (r.complete <=> Len(seen) = Len(q))
    BY <1>8
  <1>10. /\ q \in Seq(P!TakeIds) /\ Once(q) /\ P!ToSet(q) = S
         /\ c \in Seq(P!TakeIds) /\ Once(c) /\ P!ToSet(c) = S
         /\ start # None => start \in S /\ q[1] = start
    BY DEF Arranged, Lists
  <1>11. PICK L1 \in Nat : L1 = Len(q)
    BY <1>10
  <1>12. /\ n \in 0..L1 /\ (q # <<>> => n # 0)
         /\ n # L1 => n = ScanLimit \/ P!PlayableAmong(q, n) = PlayableLimit
    BY <1>2, <1>10, <1>11, ScanStops
  <1>13. seen \in Seq(P!TakeIds) /\ Len(seen) = n /\ DOMAIN seen = 1..n /\ \A i \in 1..n : seen[i] = q[i]
    <2>1. \A i \in 1..n : q[i] \in P!TakeIds
      BY <1>10, <1>11, <1>12
    <2> QED
      BY <1>3, <1>10, <1>11, <1>12, <2>1
  <1>14. Once(seen) /\ P!ToSet(seen) = {q[i] : i \in 1..n} /\ P!ToSet(seen) \subseteq S
    <2>1. Once(seen)
      BY <1>10, <1>11, <1>12, <1>13 DEF Once
    <2>2. P!ToSet(seen) = {seen[i] : i \in 1..n}
      BY <1>13 DEF P!ToSet
    <2>3. \A i \in 1..n : i \in 1..L1
      BY <1>11, <1>12
    <2>4. S = {q[i] : i \in 1..L1}
      BY <1>10, <1>11 DEF P!ToSet
    <2> QED
      BY <1>13, <2>1, <2>2, <2>3, <2>4
  <1>15. I \in SUBSET (1..Len(seen)) /\ J \in SUBSET (1..Len(c))
    BY <1>4, <1>5, <1>10, <1>13
  <1>16. /\ src \in Seq(P!TakeIds) /\ Len(src) = Cardinality(I) /\ P!ToSet(src) = {seen[i] : i \in I} /\ Once(src)
         /\ \E h : PickedBy(src, seen, I, h)
    BY <1>6, <1>13, <1>14, <1>15, PickedOut, PickedOnce
  <1>17. skp \in Seq(P!TakeIds) /\ P!ToSet(skp) = {c[i] : i \in J} /\ Once(skp)
    BY <1>7, <1>10, <1>15, PickedOut, PickedOnce
  <1>18. P!ToSet(src) = {t \in P!ToSet(seen) : P!Reads(t)}
    <2>1. P!ToSet(seen) = {seen[i] : i \in 1..n}
      BY <1>13 DEF P!ToSet
    <2> QED
      BY <1>4, <1>13, <1>16, <2>1
  <1>19. P!ToSet(skp) = {t \in P!ToSet(seen) : ~P!Reads(t)}
    <2>1. S = {c[i] : i \in DOMAIN c}
      BY <1>10 DEF P!ToSet
    <2>2. ASSUME NEW t \in P!ToSet(seen), ~P!Reads(t) PROVE t \in P!ToSet(skp)
      <3>1. PICK i \in DOMAIN c : t = c[i]
        BY <1>14, <2>1
      <3>2. i \in J
        BY <1>5, <2>2, <3>1
      <3> QED
        BY <1>17, <3>1, <3>2
    <2> QED
      BY <1>5, <1>17, <2>2
  <1>20. start # None => r.sources[1] = start
    <2>1. SUFFICES ASSUME start # None PROVE src[1] = start
      BY <1>9
    <2>2. start \in S /\ q[1] = start /\ n # 0
      <3>1. start \in S /\ q[1] = start
        BY <1>10, <2>1
      <3>2. q # <<>>
        BY <1>10, <3>1 DEF P!ToSet
      <3> QED
        BY <1>12, <3>1, <3>2
    <2>3. 1 \in 1..n /\ seen[1] = start /\ start \in P!ToSet(seen)
      <3>1. 1 \in 1..n
        BY <1>11, <1>12, <2>2
      <3> QED
        BY <1>13, <1>14, <2>2, <3>1
    <2>4. P!Reads(start)
      BY <1>8, <1>19, <2>1, <2>3
    <2>5. 1 \in I
      BY <1>4, <1>13, <2>3, <2>4
    <2>6. PICK h : PickedBy(src, seen, I, h)
      BY <1>16
    <2>7. PICK m \in 1..Len(src) : h[m] = 1
      BY <2>5, <2>6 DEF PickedBy
    <2>8. m = 1
      <3>1. 1 \in 1..Len(src) /\ m \in Int
        BY <1>16, <2>7
      <3>2. h[1] \in I /\ (1 < m => h[1] < h[m])
        BY <2>6, <2>7, <3>1 DEF PickedBy
      <3>3. h[1] \in 1..Len(seen)
        BY <1>15, <3>2
      <3>4. ~(1 < m)
        BY <2>7, <3>2, <3>3
      <3> QED
        BY <2>7, <3>1, <3>4
    <2>9. src[1] = seen[1]
      BY <2>6, <2>7, <2>8 DEF PickedBy
    <2> QED
      BY <2>3, <2>9
  <1>21. P!Cardinality(P!ToSet(src)) = Len(src)
    BY <1>16, OnceCount, PoolSets
  <1>22. P!ToSet(src) \cup P!ToSet(skp) = P!ToSet(seen)
    BY <1>18, <1>19
  <1>23. \A t \in P!ToSet(skp) : ~lib[t].readable
    BY <1>19 DEF P!Reads
  <1>24. r.complete => P!ToSet(seen) = S
    <2>1. SUFFICES ASSUME n = L1 PROVE P!ToSet(seen) = S
      BY <1>9, <1>11, <1>13
    <2>2. S = {q[i] : i \in 1..L1}
      BY <1>10, <1>11 DEF P!ToSet
    <2> QED
      BY <1>14, <2>1, <2>2
  <1>25. ~r.complete => Len(src) = PlayableLimit \/ Len(src) + Len(skp) = ScanLimit
    <2>1. SUFFICES ASSUME n # L1 PROVE Len(src) = PlayableLimit \/ Len(src) + Len(skp) = ScanLimit
      BY <1>9, <1>11, <1>13
    <2>2. Len(src) = P!PlayableAmong(q, n)
      <3>1. I = {i \in 1..n : P!Reads(q[i])}
        BY <1>4, <1>13
      <3>2. P!PlayableAmong(q, n) = Cardinality(I)
        BY <3>1, PoolSets DEF P!PlayableAmong
      <3> QED
        BY <1>16, <3>2
    <2>3. Len(src) + Len(skp) = n
      <3>1. PICK A1 : A1 = P!ToSet(src)
        OBVIOUS
      <3>2. PICK A2 : A2 = P!ToSet(skp)
        OBVIOUS
      <3>3. PICK A3 : A3 = P!ToSet(seen)
        OBVIOUS
      <3>4. /\ IsFiniteSet(A1) /\ Cardinality(A1) = Len(src)
            /\ IsFiniteSet(A2) /\ Cardinality(A2) = Len(skp)
            /\ Cardinality(A3) = n
        BY <1>13, <1>14, <1>16, <1>17, <3>1, <3>2, <3>3, OnceCount
      <3>5. A1 \cup A2 = A3 /\ A1 \cap A2 = {}
        BY <1>18, <1>19, <3>1, <3>2, <3>3
      <3>6. Cardinality(A1 \cup A2) = Cardinality(A1) + Cardinality(A2) - 0
        BY <3>4, <3>5, FS_Union, FS_EmptySet
      <3>7. Len(src) \in Nat /\ Len(skp) \in Nat
        BY <1>16, <1>17
      <3>8. Cardinality(A1 \cup A2) = n
        <4>1. A1 \cup A2 = A3
          BY <3>5
        <4> QED
          BY <3>4, <4>1
      <3>9. Len(src) + Len(skp) - 0 = n
        BY <3>4, <3>6, <3>8
      <3> QED
        BY <3>7, <3>9
    <2> QED
      BY <1>12, <2>1, <2>2, <2>3
  <1>26. ASSUME turned PROVE \E i \in 1..Len(src) : TurnsAt(src, i)
    <2>1. PICK cut \in Nat : TurnsAt(q, cut)
      BY <1>26 DEF Arranged
    <2>2. TurnsAt(seen, cut)
      <3>1. SUFFICES ASSUME NEW j \in 1..n, NEW k \in 1..n, j < k, seen[j] > seen[k] PROVE j < cut /\ cut <= k
        BY <1>13 DEF TurnsAt
      <3>2. j \in 1..Len(q) /\ k \in 1..Len(q) /\ q[j] > q[k]
        BY <1>11, <1>12, <1>13, <3>1
      <3> QED
        BY <2>1, <3>1, <3>2 DEF TurnsAt
    <2> QED
      BY <1>6, <1>8, <1>13, <1>15, <2>2, PickedTurn
  <1>27. P!ToSet(src) \cup P!ToSet(skp) \subseteq S
    BY <1>14, <1>22
  <1>28. Whole(r, S, start, turned)
    BY <1>9, <1>20, <1>21, <1>22, <1>23, <1>24, <1>25, <1>26, <1>27 DEF Whole
  <1> QED
    BY <1>1, <1>28

\* The types of the pool and of the request; the request is answered once, and wholly.
PoolInv ==
    /\ lib \in [P!TakeIds -> [mark : P!Marks, readable : BOOLEAN]]
    /\ ask \in [pool : P!Pools, start : P!TakeIds \cup {None}, shuffle : BOOLEAN]
    /\ P!PoolIsWhole

\* Whether the answer keeps the library's order: unshuffled, from a start of the pool.
InOrder == ~ask.shuffle /\ (ask.start = None \/ P!Matches(ask.start, ask.pool))

\* The answer to the request keeps the invariant.
LEMMA PoolStep == ASSUME P!PoolConstants PROVE PoolInv /\ [P!Next]_(P!vars) => PoolInv'
  <1> SUFFICES ASSUME PoolInv, [P!Next]_(P!vars) PROVE PoolInv'
    OBVIOUS
  <1>1. CASE UNCHANGED P!vars
    BY <1>1 DEF PoolInv, P!vars, P!PoolIsWhole, P!Matches
  <1>2. CASE P!PoolQueue
    <2>1. UNCHANGED <<lib, ask>>
      BY <1>2 DEF P!PoolQueue
    <2>2. P!PoolIsWhole'
      <3>1. CASE answer' = Refused
        BY <3>1 DEF P!PoolIsWhole
      <3>2. CASE answer' # Refused
        <4> DEFINE S == Wanted(ask.pool, ask.start)
                   c == P!Collected(ask.pool, ask.start)
        <4>1. ask.start \in P!TakeIds \cup {None} /\ ask.shuffle \in BOOLEAN
          BY DEF PoolInv
        <4>2. PICK q \in P!Arrangements(c, ask.start, ask.shuffle) : answer' = P!Membership(ask.start, c, q)
          BY <1>2, <3>2 DEF P!PoolQueue
        <4>3. Lists(c, S) /\ (InOrder => TurnsAt(c, 0))
          BY <4>1, CollectedLists DEF InOrder
        <4>4. S \in SUBSET P!TakeIds /\ ask.start \in S \cup {None}
          BY <4>1 DEF Wanted
        <4> HIDE DEF S, c
        <4>5. /\ Lists(q, S)
              /\ ask.start # None => q[1] = ask.start
              /\ (~ask.shuffle /\ TurnsAt(c, 0)) => \E cut \in Nat : TurnsAt(q, cut)
          BY <4>1, <4>2, <4>3, <4>4, ArrangedLists
        <4>6. Arranged(q, c, S, ask.start, InOrder)
          BY <4>3, <4>4, <4>5 DEF Arranged, InOrder
        <4>7. InOrder \in BOOLEAN
          BY <4>1 DEF InOrder
        <4>8. Whole(P!Membership(ask.start, c, q), S, ask.start, InOrder)
          BY <3>2, <4>1, <4>2, <4>4, <4>6, <4>7, MembershipIsWhole
        <4>9. PICK r : r = P!Membership(ask.start, c, q)
          OBVIOUS
        <4>10. Whole(r, Wanted(ask.pool, ask.start), ask.start, InOrder) /\ answer' = r
          BY <4>2, <4>8, <4>9 DEF S
        <4>11. /\ ask' = ask /\ lib' = lib
               /\ (InOrder => \E i \in 1..Len(r.sources) : TurnsAt(r.sources, i))
          BY <2>1, <4>10 DEF Whole
        <4> QED
          BY <4>10, <4>11 DEF Whole, Wanted, InOrder, TurnsAt, P!PoolIsWhole, P!Matches
      <3> QED
        BY <3>1, <3>2
    <2> QED
      BY <2>1, <2>2 DEF PoolInv
  <1> QED
    BY <1>1, <1>2 DEF P!Next

\* The queue of a pool starts where it was asked to, plays nothing twice, and leaves out
\* no take of the pool unless it says the scan ended at a limit; unshuffled it keeps the
\* library's order from the start on round, for any library and any limits
\* (resolve_library_pool_membership, _scan_library_candidates, _rotate_sources_to_start).
THEOREM PoolStaysWhole == Spec => []PoolIsWhole
  <1>1. Init => PoolInv
    BY DEF Init, P!Init, PoolInv, P!PoolIsWhole
  <1>2. PoolInv /\ [P!Next]_(P!vars) => PoolInv'
    BY PartConstants, PoolStep
  <1>3. [Next]_vars => [P!Next]_(P!vars)
    BY DEF Next, vars, P!vars, poolVars
  <1>4. PoolInv => PoolIsWhole
    BY DEF PoolInv, PoolIsWhole
  <1> QED
    BY <1>1, <1>2, <1>3, <1>4, PTL DEF Spec
=============================================================================
