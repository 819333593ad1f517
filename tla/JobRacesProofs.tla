--------------------------- MODULE JobRacesProofs ---------------------------
(***************************************************************************)
(* Proofs about the admission of jobs under limits (JobLimits), voices,    *)
(* their samples and their trainings (VoiceSamples), and the jobs that     *)
(* score takes through one child (Scoring), for any number of users,       *)
(* requests, rows, takes and scorers and any limits.                       *)
(***************************************************************************)
EXTENDS MCJobRaces, FiniteSetTheorems, SequenceTheorems, WellFoundedInduction, TLAPS
-----------------------------------------------------------------------------
\* A non-empty set of naturals has a least element.
LEMMA SmallestNat ==
    ASSUME NEW T \in SUBSET Nat, T # {}
    PROVE  \E n \in T : \A k \in T : n <= k
  <1>1. \A x, y \in Nat : x < y => <<x, y>> \in OpToRel(<, Nat)
    BY DEF OpToRel
  <1>2. PICK R : IsWellFoundedOn(R, Nat) /\ \A x, y \in Nat : x < y => <<x, y>> \in R
    <2>1. \E R : IsWellFoundedOn(R, Nat) /\ \A x, y \in Nat : x < y => <<x, y>> \in R
      BY NatLessThanWellFounded, <1>1, Zenon
    <2> QED
      BY <2>1, Zenon
  <1>3. T \subseteq Nat /\ IsWellFoundedOn(R, Nat)
    BY <1>2, Zenon
  <1>4. PICK x \in T : \A y \in T : ~(<<y, x>> \in R)
    <2>1. \E x \in T : \A y \in T : ~(<<y, x>> \in R)
      BY <1>3, WFMin, Zenon
    <2> QED
      BY <2>1, Zenon
  <1>5. \A y \in T : ~(y < x)
    BY <1>2, <1>3, <1>4, Zenon
  <1> QED
    BY <1>3, <1>5

-----------------------------------------------------------------------------
(***************************************************************************)
(* JobLimits.                                                              *)
(***************************************************************************)

\* The instance counts as FiniteSets does.
LEMMA LimitSets ==
    ASSUME NEW X PROVE (L!IsFiniteSet(X) <=> IsFiniteSet(X)) /\ L!Cardinality(X) = Cardinality(X)
  <1>1. L!IsFiniteSet(X) <=> IsFiniteSet(X)
    BY DEF L!IsFiniteSet, IsFiniteSet
  <1>2. L!Cardinality(X) = Cardinality(X)
    BY DEF L!Cardinality, Cardinality, L!IsFiniteSet, IsFiniteSet
  <1> QED
    BY <1>1, <1>2

\* The rows, the requests, and the lock that a request holds from its count to
\* its insert.
LimitType ==
    /\ admitted \in [Rows -> [status : {"none", "queued", "running", "over"}, user : Users \cup {None},
                         recent : BOOLEAN]]
    /\ req \in [Requests -> [pc : {"idle", "asking", "counting", "inserting", "dispatch"},
                             user : Users \cup {None}, stale : SUBSET Rows, row : Rows \cup {None}]]
    /\ setting \in [Users \cup {None} -> Overrides \cup {None}]

\* Only the holder of the lock counts and inserts, and for a user; a request
\* that dispatches has its row.
Serialized ==
    \A q \in Requests :
        /\ req[q].pc \in {"counting", "inserting"} => lock = q
        /\ req[q].pc \in {"asking", "counting", "inserting"} => req[q].user \in Users
        /\ req[q].pc = "dispatch" => req[q].row \in Rows

\* A row that was not used yet counts for nobody.
BlankRows == \A r \in Rows : admitted[r].status = "none" => admitted[r].user = None

\* All active rows of users.
Owned == {r \in L!ActiveRows : admitted[r].user # None}

\* From the count to the insert there is room for one more row.
RoomFor(u, gone) ==
    /\ Cardinality(Owned \ gone) < MaxQueue
    /\ Cardinality(L!ActiveOf(u) \ gone) < L!Limit(u)
    /\ Cardinality(L!WindowOf(u)) < L!Limit(u)
RoomIsKept == \A q \in Requests : req[q].pc = "inserting" => RoomFor(req[q].user, req[q].stale)

\* L!LimitsHold, counted with Cardinality.
Within ==
    /\ \A u \in Users : Cardinality(L!ActiveOf(u)) <= L!Limit(u) /\ Cardinality(L!WindowOf(u)) <= L!Limit(u)
    /\ Cardinality(Owned) <= MaxQueue

\* The inductive invariant of the limits: a waiting insert keeps the room it counted.
LimitInv == LimitType /\ Serialized /\ BlankRows /\ RoomIsKept /\ Within

\* The sets that are counted are finite, the limits numbers.
LEMMA LimitFacts ==
    ASSUME L!LimitConstants, LimitType
    PROVE  /\ \A X \in SUBSET Rows : IsFiniteSet(X) /\ Cardinality(X) \in Nat
           /\ \A X, T \in SUBSET Rows : X \subseteq T => Cardinality(X) <= Cardinality(T)
           /\ \A u \in Users : L!Limit(u) \in Nat
           /\ L!ActiveRows \in SUBSET Rows /\ Owned \in SUBSET Rows
           /\ \A u \in Users : L!ActiveOf(u) \in SUBSET Rows /\ L!WindowOf(u) \in SUBSET Rows
  <1>1. IsFiniteSet(Rows)
    BY LimitSets DEF L!LimitConstants
  <1>2. \A X \in SUBSET Rows : IsFiniteSet(X) /\ Cardinality(X) \in Nat
    BY <1>1, FS_Subset, FS_CardinalityType
  <1>3. \A X, T \in SUBSET Rows : X \subseteq T => Cardinality(X) <= Cardinality(T)
    BY <1>2, FS_Subset
  <1>4. \A u \in Users : L!Limit(u) \in Nat
    BY DEF L!Limit, LimitType, L!LimitConstants
  <1>5. L!ActiveRows \in SUBSET Rows /\ Owned \in SUBSET Rows
    BY DEF L!ActiveRows, Owned
  <1>6. \A u \in Users : L!ActiveOf(u) \in SUBSET Rows /\ L!WindowOf(u) \in SUBSET Rows
    BY <1>5 DEF L!ActiveOf, L!WindowOf
  <1> QED
    BY <1>2, <1>3, <1>4, <1>5, <1>6

\* No row is active or recent at first.
LEMMA LimitInit == ASSUME L!LimitConstants PROVE L!Init => LimitInv
  <1> SUFFICES ASSUME L!Init PROVE LimitInv
    OBVIOUS
  <1>1. LimitType
    <2>1. FALSE \in BOOLEAN
      OBVIOUS
    <2> QED
      BY <2>1 DEF L!Init, L!NoRow, LimitType
  <1>2. Serialized /\ BlankRows /\ RoomIsKept
    BY DEF L!Init, L!NoRow, Serialized, BlankRows, RoomIsKept
  <1>3. Owned = {} /\ \A u \in Users : L!ActiveOf(u) = {} /\ L!WindowOf(u) = {}
    BY DEF L!Init, L!NoRow, Owned, L!ActiveRows, L!Active, L!ActiveOf, L!WindowOf
  <1>4. Cardinality({}) = 0
    BY FS_EmptySet
  <1>5. Within
    BY <1>1, <1>3, <1>4, LimitFacts DEF Within, L!LimitConstants
  <1> QED
    BY <1>1, <1>2, <1>5 DEF LimitInv

\* A step that adds no owned active row and no recent row keeps the limits, and
\* the room of a request that waits for its insert.
LEMMA FewerRows ==
    ASSUME L!LimitConstants, LimitType, LimitType', UNCHANGED setting, Within,
           Owned' \subseteq Owned,
           \A u \in Users : L!ActiveOf(u)' \subseteq L!ActiveOf(u) /\ L!WindowOf(u)' \subseteq L!WindowOf(u)
    PROVE  /\ Within'
           /\ \A u \in Users : \A gone \in SUBSET Rows : RoomFor(u, gone) => RoomFor(u, gone)'
  <1>0. /\ \A X, T \in SUBSET Rows : X \subseteq T => Cardinality(X) <= Cardinality(T)
        /\ \A X \in SUBSET Rows : Cardinality(X) \in Nat
    BY LimitFacts
  <1>1. Owned \in SUBSET Rows /\ Owned' \in SUBSET Rows /\ MaxQueue \in Nat
    BY LimitFacts DEF L!LimitConstants
  <1>2. ASSUME NEW u \in Users
        PROVE  /\ L!Limit(u)' = L!Limit(u) /\ L!Limit(u) \in Nat
               /\ L!ActiveOf(u) \in SUBSET Rows /\ L!ActiveOf(u)' \in SUBSET Rows
               /\ L!WindowOf(u) \in SUBSET Rows /\ L!WindowOf(u)' \in SUBSET Rows
    BY LimitFacts DEF L!Limit
  <1>3. ASSUME NEW u \in Users
        PROVE  Cardinality(L!ActiveOf(u)') <= L!Limit(u)' /\ Cardinality(L!WindowOf(u)') <= L!Limit(u)'
    <2>1. Cardinality(L!ActiveOf(u)') <= Cardinality(L!ActiveOf(u)) /\ Cardinality(L!ActiveOf(u)) <= L!Limit(u)
      BY <1>0, <1>2 DEF Within
    <2>2. Cardinality(L!WindowOf(u)') <= Cardinality(L!WindowOf(u)) /\ Cardinality(L!WindowOf(u)) <= L!Limit(u)
      BY <1>0, <1>2 DEF Within
    <2> QED
      BY <1>0, <1>2, <2>1, <2>2
  <1>4. Cardinality(Owned') <= MaxQueue
    <2>1. Cardinality(Owned') <= Cardinality(Owned) /\ Cardinality(Owned) <= MaxQueue
      BY <1>0, <1>1 DEF Within
    <2> QED
      BY <1>0, <1>1, <2>1
  <1>5. ASSUME NEW u \in Users, NEW gone \in SUBSET Rows, RoomFor(u, gone)
        PROVE  RoomFor(u, gone)'
    <2>1. Cardinality(Owned' \ gone) <= Cardinality(Owned \ gone) /\ Cardinality(Owned \ gone) < MaxQueue
      <3>1. Owned \ gone \in SUBSET Rows /\ Owned' \ gone \in SUBSET Rows /\ Owned' \ gone \subseteq Owned \ gone
        BY <1>1
      <3> QED
        BY <1>0, <1>5, <3>1 DEF RoomFor
    <2>2. /\ Cardinality(L!ActiveOf(u)' \ gone) <= Cardinality(L!ActiveOf(u) \ gone)
          /\ Cardinality(L!ActiveOf(u) \ gone) < L!Limit(u)
      <3>1. /\ L!ActiveOf(u) \ gone \in SUBSET Rows /\ L!ActiveOf(u)' \ gone \in SUBSET Rows
            /\ L!ActiveOf(u)' \ gone \subseteq L!ActiveOf(u) \ gone
        BY <1>2
      <3> QED
        BY <1>0, <1>5, <3>1 DEF RoomFor
    <2>3. Cardinality(L!WindowOf(u)') <= Cardinality(L!WindowOf(u)) /\ Cardinality(L!WindowOf(u)) < L!Limit(u)
      BY <1>0, <1>2, <1>5 DEF RoomFor
    <2>4. /\ Cardinality(Owned' \ gone) \in Nat /\ Cardinality(Owned \ gone) \in Nat
          /\ Cardinality(L!ActiveOf(u)' \ gone) \in Nat /\ Cardinality(L!ActiveOf(u) \ gone) \in Nat
          /\ Cardinality(L!WindowOf(u)') \in Nat /\ Cardinality(L!WindowOf(u)) \in Nat
      BY <1>0, <1>1, <1>2
    <2>5. Cardinality(Owned' \ gone) < MaxQueue
      BY <1>1, <2>1, <2>4
    <2>6. Cardinality(L!ActiveOf(u)' \ gone) < L!Limit(u)' /\ Cardinality(L!WindowOf(u)') < L!Limit(u)'
      BY <1>2, <2>2, <2>3, <2>4
    <2> QED
      BY <2>5, <2>6 DEF RoomFor
  <1> QED
    BY <1>3, <1>4, <1>5 DEF Within

\* ... so does one that lets no further request past its count.
LEMMA NobodyEnters ==
    ASSUME L!LimitConstants, LimitInv, LimitType', UNCHANGED setting,
           Owned' \subseteq Owned,
           \A u \in Users : L!ActiveOf(u)' \subseteq L!ActiveOf(u) /\ L!WindowOf(u)' \subseteq L!WindowOf(u),
           \A q \in Requests : req'[q].pc = "inserting" =>
               req[q].pc = "inserting" /\ req'[q].user = req[q].user /\ req'[q].stale = req[q].stale
    PROVE  RoomIsKept' /\ Within'
  <1>1. Within' /\ \A u \in Users : \A gone \in SUBSET Rows : RoomFor(u, gone) => RoomFor(u, gone)'
    BY FewerRows DEF LimitInv
  <1>2. ASSUME NEW q \in Requests, req'[q].pc = "inserting" PROVE RoomFor(req[q].user, req[q].stale)'
    <2>1. req[q].user \in Users /\ req[q].stale \in SUBSET Rows /\ RoomFor(req[q].user, req[q].stale)
      BY <1>2 DEF LimitInv, LimitType, Serialized, RoomIsKept
    <2>2. PICK u \in Users, gone \in SUBSET Rows :
            req[q].user = u /\ req[q].stale = gone /\ req'[q].user = u /\ req'[q].stale = gone
      BY <1>2, <2>1
    <2>3. RoomFor(u, gone)'
      BY <1>1, <2>1, <2>2
    <2> QED
      BY <2>2, <2>3 DEF RoomFor
  <1> QED
    BY <1>1, <1>2 DEF RoomIsKept

\* One row more than was counted below the limit is within it.
LEMMA OneMore ==
    ASSUME NEW X, IsFiniteSet(X), NEW r, NEW T, T \subseteq X \cup {r}, NEW n \in Nat, Cardinality(X) < n
    PROVE  Cardinality(T) <= n
  <1>1. Cardinality(X) \in Nat
    BY FS_CardinalityType
  <1>2. IsFiniteSet(X \cup {r}) /\ Cardinality(X \cup {r}) <= Cardinality(X) + 1
    <2>1. CASE r \in X
      <3>1. X \cup {r} = X
        BY <2>1
      <3>2. IsFiniteSet(X \cup {r}) /\ Cardinality(X \cup {r}) = Cardinality(X)
        BY <3>1, Zenon
      <3> QED
        BY <1>1, <3>2
    <2>2. CASE r \notin X
      <3>1. IsFiniteSet(X \cup {r}) /\ Cardinality(X \cup {r}) = Cardinality(X) + 1
        BY <2>2, FS_AddElement, Zenon
      <3> QED
        BY <1>1, <3>1
    <2> QED
      BY <2>1, <2>2
  <1>3. Cardinality(T) <= Cardinality(X \cup {r}) /\ Cardinality(T) \in Nat /\ Cardinality(X \cup {r}) \in Nat
    BY <1>2, FS_Subset, FS_CardinalityType
  <1> QED
    BY <1>1, <1>2, <1>3

\* The insert uses the room that was counted: it is the only one to do so.
LEMMA CommitKeeps ==
    ASSUME L!LimitConstants, LimitInv, NEW q \in Requests, L!Commit(q)
    PROVE  LimitInv'
  <1>0. LimitType /\ Serialized /\ BlankRows /\ RoomIsKept /\ Within
    BY DEF LimitInv
  <1> DEFINE r == L!FreshRow
  <1>1. r \in Rows /\ admitted[r].status = "none" /\ admitted[r].user = None
    BY <1>0 DEF L!Commit, L!FreshRow, L!Unused, BlankRows
  <1> HIDE DEF r
  <1>2. PICK u \in Users, gone \in SUBSET Rows :
          req[q].user = u /\ req[q].stale = gone /\ req[q].pc = "inserting" /\ lock = q /\ RoomFor(u, gone)
    BY <1>0 DEF L!Commit, Serialized, LimitType, RoomIsKept
  <1>3. /\ admitted' = [s \in Rows |->
             IF s = r THEN [status |-> "queued", user |-> u, recent |-> TRUE]
             ELSE IF s \in gone THEN [admitted[s] EXCEPT !.status = "over"] ELSE admitted[s]]
        /\ req' = [req EXCEPT ![q] = [pc |-> "dispatch", user |-> None, stale |-> {}, row |-> r]]
        /\ setting' = setting /\ lock' = None
    BY <1>2 DEF L!Commit, r, L!Release
  <1>4. LimitType'
    <2>1. [status |-> "queued", user |-> u, recent |-> TRUE]
            \in [status : {"none", "queued", "running", "over"}, user : Users \cup {None}, recent : BOOLEAN]
      BY Zenon
    <2>2. admitted' \in [Rows -> [status : {"none", "queued", "running", "over"}, user : Users \cup {None},
                             recent : BOOLEAN]]
      BY <1>0, <1>3, <2>1 DEF LimitType
    <2> QED
      BY <1>0, <1>1, <1>3, <2>2 DEF LimitType
  <1>5. Serialized'
    BY <1>0, <1>1, <1>2, <1>3 DEF LimitType, Serialized, L!LimitConstants
  <1>6. BlankRows'
    BY <1>0, <1>3 DEF LimitType, BlankRows
  <1>7. RoomIsKept'
    BY <1>0, <1>2, <1>3 DEF LimitType, Serialized, RoomIsKept
  <1>8. /\ Owned' \subseteq (Owned \ gone) \cup {r}
        /\ L!ActiveOf(u)' \subseteq (L!ActiveOf(u) \ gone) \cup {r}
        /\ L!WindowOf(u)' \subseteq L!WindowOf(u) \cup {r}
        /\ \A v \in Users \ {u} : L!ActiveOf(v)' \subseteq L!ActiveOf(v) /\ L!WindowOf(v)' \subseteq L!WindowOf(v)
    BY <1>0, <1>3 DEF LimitType, Owned, L!ActiveOf, L!ActiveRows, L!WindowOf, L!Active
  <1>9. Within'
    <2>1. Owned \in SUBSET Rows /\ MaxQueue \in Nat
      BY <1>0, <1>4, LimitFacts DEF L!LimitConstants
    <2>2. \A v \in Users : /\ L!ActiveOf(v) \in SUBSET Rows /\ L!WindowOf(v) \in SUBSET Rows
                           /\ L!Limit(v) \in Nat /\ L!Limit(v)' = L!Limit(v)
      BY <1>0, <1>3, LimitFacts DEF L!Limit
    <2>3. Cardinality(Owned') <= MaxQueue
      <3>1. IsFiniteSet(Owned \ gone) /\ Cardinality(Owned \ gone) < MaxQueue
        BY <1>0, <1>2, <2>1, LimitFacts DEF RoomFor
      <3> QED
        BY <1>1, <1>8, <2>1, <3>1, OneMore
    <2>4. Cardinality(L!ActiveOf(u)') <= L!Limit(u)' /\ Cardinality(L!WindowOf(u)') <= L!Limit(u)'
      <3>1. /\ IsFiniteSet(L!ActiveOf(u) \ gone) /\ IsFiniteSet(L!WindowOf(u))
            /\ Cardinality(L!ActiveOf(u) \ gone) < L!Limit(u)
        BY <1>0, <1>2, <2>2, LimitFacts DEF RoomFor
      <3>2. Cardinality(L!ActiveOf(u)') <= L!Limit(u)
        BY <1>1, <1>8, <2>2, <3>1, OneMore
      <3>3. Cardinality(L!WindowOf(u)') <= L!Limit(u)
        BY <1>1, <1>2, <1>8, <2>2, <3>1, OneMore DEF RoomFor
      <3> QED
        BY <2>2, <3>2, <3>3
    <2>5. ASSUME NEW v \in Users \ {u}
          PROVE  Cardinality(L!ActiveOf(v)') <= L!Limit(v)' /\ Cardinality(L!WindowOf(v)') <= L!Limit(v)'
      <3>1. /\ Cardinality(L!ActiveOf(v)') <= Cardinality(L!ActiveOf(v)) /\ Cardinality(L!ActiveOf(v)') \in Nat
            /\ Cardinality(L!WindowOf(v)') <= Cardinality(L!WindowOf(v)) /\ Cardinality(L!WindowOf(v)') \in Nat
            /\ Cardinality(L!ActiveOf(v)) \in Nat /\ Cardinality(L!WindowOf(v)) \in Nat
        <4>1. L!ActiveOf(v)' \in SUBSET Rows /\ L!WindowOf(v)' \in SUBSET Rows
          BY <1>8, <2>2
        <4> QED
          BY <1>0, <1>8, <2>2, <4>1, LimitFacts
      <3>2. Cardinality(L!ActiveOf(v)) <= L!Limit(v) /\ Cardinality(L!WindowOf(v)) <= L!Limit(v)
        BY <1>0 DEF Within
      <3>3. L!Limit(v) \in Nat /\ L!Limit(v)' = L!Limit(v)
        BY <2>2
      <3> QED
        BY <3>1, <3>2, <3>3
    <2> QED
      BY <2>3, <2>4, <2>5 DEF Within
  <1> QED
    BY <1>4, <1>5, <1>6, <1>7, <1>9 DEF LimitInv

\* Every step keeps the invariant.
LEMMA LimitNext == ASSUME L!LimitConstants PROVE LimitInv /\ [L!Next]_(L!vars) => LimitInv'
  <1> SUFFICES ASSUME LimitInv, [L!Next]_(L!vars) PROVE LimitInv'
    OBVIOUS
  <1>0. LimitType /\ Serialized /\ BlankRows /\ RoomIsKept /\ Within
    BY DEF LimitInv
  <1>1. ASSUME UNCHANGED <<admitted, setting>>, LimitType', Serialized',
               \A q \in Requests : req'[q].pc = "inserting" =>
                   req[q].pc = "inserting" /\ req'[q].user = req[q].user /\ req'[q].stale = req[q].stale
        PROVE  LimitInv'
    <2>1. Owned' = Owned /\ \A u \in Users : L!ActiveOf(u)' = L!ActiveOf(u) /\ L!WindowOf(u)' = L!WindowOf(u)
      BY <1>1 DEF Owned, L!ActiveOf, L!ActiveRows, L!WindowOf
    <2>2. RoomIsKept' /\ Within'
      BY <1>1, <2>1, NobodyEnters
    <2>3. BlankRows'
      BY <1>0, <1>1 DEF BlankRows
    <2> QED
      BY <1>1, <2>2, <2>3 DEF LimitInv
  <1>2. ASSUME NEW q \in Requests, NEW u \in Users, L!Ask(q, u) PROVE LimitInv'
    <2>1. LimitType' /\ Serialized'
      <3>1. req' = [req EXCEPT ![q] = [req[q] EXCEPT !.pc = "asking", !.user = u]]
        BY <1>0, <1>2 DEF L!Ask, LimitType
      <3>2. LimitType'
        BY <1>0, <1>2, <3>1 DEF L!Ask, LimitType
      <3>3. Serialized'
        BY <1>0, <1>2, <3>1 DEF L!Ask, LimitType, Serialized
      <3> QED
        BY <3>2, <3>3
    <2> QED
      BY <1>0, <1>1, <1>2, <2>1 DEF L!Ask, LimitType
  <1>3. ASSUME NEW q \in Requests, L!Begin(q) PROVE LimitInv'
    <2>1. LimitType' /\ Serialized'
      BY <1>0, <1>3 DEF L!Begin, L!BeginExclusive, LimitType, Serialized, L!LimitConstants
    <2> QED
      BY <1>0, <1>1, <1>3, <2>1 DEF L!Begin, LimitType
  <1>4. ASSUME NEW q \in Requests, L!Reject(q) PROVE LimitInv'
    <2>1. LimitType' /\ Serialized'
      <3>1. req' = [req EXCEPT ![q] = [req[q] EXCEPT !.pc = "idle", !.user = None]]
        BY <1>0, <1>4 DEF L!Reject, LimitType
      <3>2. LimitType'
        BY <1>0, <1>4, <3>1 DEF L!Reject, LimitType
      <3>3. Serialized'
        BY <1>0, <1>4, <3>1 DEF L!Reject, L!Release, LimitType, Serialized
      <3> QED
        BY <3>2, <3>3
    <2> QED
      BY <1>0, <1>1, <1>4, <2>1 DEF L!Reject, LimitType
  <1>5. ASSUME NEW q \in Requests, L!Enforce(q) PROVE LimitInv'
    <2>1. PICK gone \in L!Recoverable(req[q].user) :
            /\ L!Admissible(req[q].user, gone)
            /\ req' = [req EXCEPT ![q].pc = "inserting", ![q].stale = gone]
      BY <1>5 DEF L!Enforce
    <2>2. PICK u \in Users : req[q].user = u
      BY <1>0, <1>5 DEF L!Enforce, Serialized
    <2>3. gone \in SUBSET Rows
      BY <2>1 DEF L!Recoverable, L!ActiveOf, L!ActiveRows
    <2>4. req' = [req EXCEPT ![q] = [req[q] EXCEPT !.pc = "inserting", !.stale = gone]] /\ req[q].pc = "counting"
      BY <1>0, <1>5, <2>1 DEF L!Enforce, LimitType
    <2>5. LimitType' /\ Serialized' /\ BlankRows'
      <3>1. LimitType'
        <4>1. UNCHANGED <<admitted, setting>>
          BY <1>5 DEF L!Enforce
        <4>2. req[q].row \in Rows \cup {None} /\ req[q].user \in Users \cup {None}
          BY <1>0 DEF LimitType
        <4> QED
          BY <1>0, <2>3, <2>4, <4>1, <4>2 DEF LimitType
      <3>2. Serialized'
        BY <1>0, <1>5, <2>4 DEF L!Enforce, LimitType, Serialized
      <3> QED
        BY <1>0, <1>5, <3>1, <3>2 DEF L!Enforce, BlankRows
    <2>6. Owned' = Owned /\ \A v \in Users : L!ActiveOf(v)' = L!ActiveOf(v) /\ L!WindowOf(v)' = L!WindowOf(v)
      BY <1>5 DEF L!Enforce, Owned, L!ActiveOf, L!ActiveRows, L!WindowOf
    <2>7. /\ Within'
          /\ \A v \in Users : \A old \in SUBSET Rows : RoomFor(v, old) => RoomFor(v, old)'
      <3>1. UNCHANGED setting
        BY <1>5 DEF L!Enforce
      <3> QED
        BY <1>0, <2>5, <2>6, <3>1, FewerRows
    <2>8. RoomFor(u, gone)
      <3>1. /\ Owned \ gone \in SUBSET Rows /\ L!ActiveRows \ gone \in SUBSET Rows
            /\ Owned \ gone \subseteq L!ActiveRows \ gone
        BY DEF Owned, L!ActiveRows
      <3>2. /\ Cardinality(Owned \ gone) <= Cardinality(L!ActiveRows \ gone)
            /\ Cardinality(Owned \ gone) \in Nat /\ Cardinality(L!ActiveRows \ gone) \in Nat
        BY <1>0, <3>1, LimitFacts
      <3>3. /\ Cardinality(L!ActiveRows \ gone) < MaxQueue
            /\ Cardinality(L!ActiveOf(u) \ gone) < L!Limit(u)
            /\ Cardinality(L!WindowOf(u)) < L!Limit(u)
        BY <2>1, <2>2, LimitSets DEF L!Admissible
      <3>4. Cardinality(Owned \ gone) < MaxQueue
        BY <3>2, <3>3 DEF L!LimitConstants
      <3> QED
        BY <3>3, <3>4 DEF RoomFor
    <2>9. RoomIsKept'
      <3>1. ASSUME NEW p \in Requests, req'[p].pc = "inserting" PROVE p = q
        BY <1>0, <2>4, <3>1 DEF Serialized, LimitType
      <3>2. req'[q].user = u /\ req'[q].stale = gone
        BY <1>0, <2>2, <2>4 DEF LimitType
      <3>3. RoomFor(u, gone)'
        BY <2>2, <2>3, <2>7, <2>8
      <3> QED
        BY <3>1, <3>2, <3>3 DEF RoomIsKept, RoomFor
    <2> QED
      BY <2>5, <2>7, <2>9 DEF LimitInv
  <1>6. ASSUME NEW q \in Requests, L!Commit(q) PROVE LimitInv'
    BY <1>6, CommitKeeps
  <1>7. ASSUME NEW q \in Requests, L!Dispatch(q) PROVE LimitInv'
    <2>1. LimitType' /\ Serialized' /\ BlankRows'
      <3>1. req' = [req EXCEPT ![q] = [req[q] EXCEPT !.pc = "idle", !.row = None]]
        BY <1>0, <1>7 DEF L!Dispatch, LimitType
      <3>2. admitted' = admitted \/ (req[q].row \in Rows /\ admitted' = [admitted EXCEPT ![req[q].row].status = "over"])
        BY <1>0, <1>7 DEF L!Dispatch, Serialized
      <3>3. LimitType'
        <4>1. admitted' \in [Rows -> [status : {"none", "queued", "running", "over"}, user : Users \cup {None},
                                 recent : BOOLEAN]]
          BY <1>0, <3>2 DEF LimitType
        <4>2. req' \in [Requests -> [pc : {"idle", "asking", "counting", "inserting", "dispatch"},
                                     user : Users \cup {None}, stale : SUBSET Rows, row : Rows \cup {None}]]
          BY <1>0, <3>1 DEF LimitType
        <4> QED
          BY <1>0, <1>7, <4>1, <4>2 DEF L!Dispatch, LimitType
      <3>4. Serialized'
        BY <1>0, <1>7, <3>1 DEF L!Dispatch, LimitType, Serialized
      <3>5. BlankRows'
        BY <1>0, <3>2 DEF LimitType, BlankRows
      <3> QED
        BY <3>3, <3>4, <3>5
    <2>2. Owned' \subseteq Owned
      BY <1>0, <1>7 DEF L!Dispatch, LimitType, Owned, L!ActiveRows, L!Active
    <2>3. \A u \in Users : L!ActiveOf(u)' \subseteq L!ActiveOf(u) /\ L!WindowOf(u)' \subseteq L!WindowOf(u)
      BY <1>0, <1>7 DEF L!Dispatch, LimitType, L!ActiveOf, L!ActiveRows, L!WindowOf, L!Active
    <2>4. RoomIsKept' /\ Within'
      BY <1>0, <1>7, <2>1, <2>2, <2>3, NobodyEnters DEF L!Dispatch, LimitType
    <2> QED
      BY <2>1, <2>4 DEF LimitInv
  <1>8. CASE L!CreateUnowned
    <2>0. L!FreshRow \in Rows /\ admitted[L!FreshRow].status = "none"
      BY <1>8 DEF L!CreateUnowned, L!FreshRow, L!Unused
    <2>1. LimitType' /\ Serialized' /\ BlankRows'
      BY <1>0, <1>8, <2>0 DEF L!CreateUnowned, L!NoRow, LimitType, Serialized, BlankRows
    <2>2. Owned' \subseteq Owned
      BY <1>0, <1>8, <2>0 DEF L!CreateUnowned, L!NoRow, LimitType, Owned, L!ActiveRows, L!Active
    <2>3. \A u \in Users : L!ActiveOf(u)' \subseteq L!ActiveOf(u) /\ L!WindowOf(u)' \subseteq L!WindowOf(u)
      BY <1>0, <1>8, <2>0
      DEF L!CreateUnowned, L!NoRow, LimitType, L!ActiveOf, L!ActiveRows, L!WindowOf, L!Active, L!LimitConstants
    <2>4. RoomIsKept' /\ Within'
      BY <1>0, <1>8, <2>1, <2>2, <2>3, NobodyEnters DEF L!CreateUnowned, LimitType
    <2> QED
      BY <2>1, <2>4 DEF LimitInv
  <1>9. ASSUME NEW r \in Rows, L!Work(r) PROVE LimitInv'
    <2>1. LimitType' /\ Serialized' /\ BlankRows'
      BY <1>0, <1>9 DEF L!Work, LimitType, Serialized, BlankRows, L!Active
    <2>2. Owned' \subseteq Owned
      BY <1>0, <1>9 DEF L!Work, LimitType, Owned, L!ActiveRows, L!Active
    <2>3. \A u \in Users : L!ActiveOf(u)' \subseteq L!ActiveOf(u) /\ L!WindowOf(u)' \subseteq L!WindowOf(u)
      BY <1>0, <1>9 DEF L!Work, LimitType, L!ActiveOf, L!ActiveRows, L!WindowOf, L!Active
    <2>4. RoomIsKept' /\ Within'
      BY <1>0, <1>9, <2>1, <2>2, <2>3, NobodyEnters DEF L!Work, LimitType
    <2> QED
      BY <2>1, <2>4 DEF LimitInv
  <1>10. ASSUME NEW r \in Rows, L!LeaveWindow(r) PROVE LimitInv'
    <2>1. LimitType' /\ Serialized' /\ BlankRows'
      <3>1. PICK b \in BOOLEAN : admitted' = [admitted EXCEPT ![r].recent = b]
        BY <1>10, Zenon DEF L!LeaveWindow
      <3>2. LimitType'
        <4>1. UNCHANGED <<req, setting>>
          BY <1>10 DEF L!LeaveWindow
        <4> QED
          BY <1>0, <3>1, <4>1 DEF LimitType
      <3>3. Serialized' /\ BlankRows'
        BY <1>0, <1>10 DEF L!LeaveWindow, LimitType, Serialized, BlankRows
      <3> QED
        BY <3>2, <3>3
    <2>2. Owned' \subseteq Owned
      BY <1>0, <1>10 DEF L!LeaveWindow, LimitType, Owned, L!ActiveRows, L!Active
    <2>3. \A u \in Users : L!ActiveOf(u)' \subseteq L!ActiveOf(u) /\ L!WindowOf(u)' \subseteq L!WindowOf(u)
      BY <1>0, <1>10 DEF L!LeaveWindow, LimitType, L!ActiveOf, L!ActiveRows, L!WindowOf, L!Active
    <2>4. RoomIsKept' /\ Within'
      BY <1>0, <1>10, <2>1, <2>2, <2>3, NobodyEnters DEF L!LeaveWindow, LimitType
    <2> QED
      BY <2>1, <2>4 DEF LimitInv
  <1>11. CASE UNCHANGED L!vars
    <2>1. LimitType' /\ Serialized'
      BY <1>0, <1>11 DEF L!vars, LimitType, Serialized
    <2> QED
      BY <1>1, <1>11, <2>1 DEF L!vars
  <1> QED
    BY <1>2, <1>3, <1>4, <1>5, <1>6, <1>7, <1>8, <1>9, <1>10, <1>11 DEF L!Next

\* No user ever has more active jobs, or more jobs in an hour, than the limit
\* that holds for him, and all users together no more than the queue takes,
\* whatever requests run at once (create_job_with_rate_limit).
THEOREM JobsWithinLimits == ASSUME L!LimitConstants PROVE L!Spec => []L!LimitsHold
  <1>1. LimitInv => L!LimitsHold
    BY LimitSets DEF LimitInv, Within, L!LimitsHold, Owned
  <1> QED
    BY <1>1, LimitInit, LimitNext, PTL DEF L!Spec
-----------------------------------------------------------------------------
(***************************************************************************)
(* VoiceSamples: the types of its rows and requests.                       *)
(***************************************************************************)

\* The records a voice, a sample, a training and a request may be.
VoiceRows == [owner : Users \cup {None}, status : {"resting", "queued", "training"},
              deleted : BOOLEAN, slug : Nat]
SampleRows == [voice : Voices \cup {None}, told : BOOLEAN]
TrainingRows == [status : {"none", "queued", "put back", "running", "over"}, voice : Voices \cup {None}]
Asked == [pc : {"idle", "create", "insert", "delete", "write", "commit", "patch", "drop", "unlink", "train",
                "queue", "enqueue"},
          voice : Voices \cup Nat \cup {None}, sample : Samples \cup {None}, owner : Users \cup {None},
          told : BOOLEAN, job : Trainings \cup {None}]

\* The tables and the requests hold such records.
VoiceType ==
    /\ voice \in [Voices -> VoiceRows]
    /\ sample \in [Samples -> SampleRows]
    /\ training \in [Trainings -> TrainingRows]
    /\ asked \in [Requests -> Asked]
    /\ deaths \in Nat

\* A request has what its step works on.
Equipped(r) ==
    /\ r.pc \in {"create", "insert"} => r.owner \in Users
    /\ r.pc = "insert" => r.voice \in Nat
    /\ r.pc \in {"delete", "write", "commit", "train", "queue", "enqueue"} => r.voice \in Voices
    /\ r.pc \in {"write", "commit", "patch", "drop", "unlink"} => r.sample \in Samples
    /\ r.pc = "enqueue" => r.job \in Trainings
\* Every request has what its step works on.
AskedType == \A q \in Requests : Equipped(asked[q])

\* The rows that stand for nothing have their types.
LEMMA EmptyRows ==
    /\ V!NoVoice \in VoiceRows /\ V!NoVoice.owner = None /\ V!NoVoice.deleted = FALSE /\ V!NoVoice.status = "resting"
    /\ V!NoSample \in SampleRows /\ V!NoSample.voice = None
    /\ V!Idle \in Asked /\ V!Idle.pc = "idle" /\ V!Idle.sample = None
  <1>1. V!NoVoice \in VoiceRows
    <2>1. 0 \in Nat
      OBVIOUS
    <2> QED
      BY <2>1, Zenon DEF V!NoVoice, VoiceRows
  <1>2. V!NoSample \in SampleRows
    BY Zenon DEF V!NoSample, SampleRows
  <1>3. V!Idle \in Asked
    BY Zenon DEF V!Idle, Asked
  <1>4. V!NoVoice.owner = None /\ V!NoVoice.deleted = FALSE /\ V!NoVoice.status = "resting"
    BY DEF V!NoVoice
  <1>5. V!NoSample.voice = None /\ V!Idle.pc = "idle" /\ V!Idle.sample = None
    BY DEF V!NoSample, V!Idle
  <1> QED
    BY <1>1, <1>2, <1>3, <1>4, <1>5

\* At first there is no voice, no sample, no training and no request.
LEMMA VoiceTypeInit == V!Init => VoiceType /\ AskedType
  BY EmptyRows DEF V!Init, VoiceType, AskedType, Equipped, TrainingRows

\* The instance counts as FiniteSets does.
LEMMA VoiceSets ==
    ASSUME NEW X PROVE (V!IsFiniteSet(X) <=> IsFiniteSet(X)) /\ V!Cardinality(X) = Cardinality(X)
  <1>1. V!IsFiniteSet(X) <=> IsFiniteSet(X)
    BY DEF V!IsFiniteSet, IsFiniteSet
  <1>2. V!Cardinality(X) = Cardinality(X)
    BY DEF V!Cardinality, Cardinality, V!IsFiniteSet, IsFiniteSet
  <1> QED
    BY <1>1, <1>2

\* There is a free slug, and _first_free_slug finds one: fewer slugs are taken
\* than are tried.
LEMMA SlugIsFree ==
    ASSUME V!SampleConstants, NEW o
    PROVE  V!FreeSlug(o) \in Nat /\ \A v \in V!VoicesOf(o) : voice[v].slug # V!FreeSlug(o)
  <1> DEFINE Mine == V!VoicesOf(o)
             Taken == {voice[v].slug : v \in Mine}
             Tried == 1 .. Cardinality(Voices) + 1
             Free == Tried \ Taken
  <1>1. IsFiniteSet(Voices) /\ Cardinality(Voices) \in Nat
    BY VoiceSets, FS_CardinalityType DEF V!SampleConstants
  <1>2. IsFiniteSet(Mine) /\ Cardinality(Mine) <= Cardinality(Voices) /\ Cardinality(Mine) \in Nat
    <2>1. Mine \subseteq Voices
      BY DEF V!VoicesOf
    <2> HIDE DEF Mine
    <2> QED
      BY <1>1, <2>1, FS_Subset, FS_CardinalityType
  <1>3. IsFiniteSet(Taken) /\ Cardinality(Taken) <= Cardinality(Mine) /\ Cardinality(Taken) \in Nat
    <2> DEFINE f == [v \in Mine |-> voice[v].slug]
    <2>1. f \in Surjection(Mine, Taken)
      BY DEF Surjection
    <2> HIDE DEF f, Mine, Taken
    <2> QED
      BY <1>2, <2>1, FS_Surjection, FS_CardinalityType
  <1>4. IsFiniteSet(Tried) /\ Cardinality(Tried) = Cardinality(Voices) + 1
    BY <1>1, FS_Interval
  <1>5. Free # {}
    <2>1. SUFFICES ASSUME Tried \subseteq Taken PROVE FALSE
      OBVIOUS
    <2>2. Cardinality(Tried) <= Cardinality(Taken)
      <3> HIDE DEF Tried, Taken
      <3> QED
        BY <1>3, <2>1, FS_Subset
    <2> QED
      BY <1>1, <1>2, <1>3, <1>4, <2>2
  <1>6. Free \in SUBSET Nat
    BY <1>1
  <1>7. V!FreeSlug(o) = V!Min(Free)
    BY VoiceSets DEF V!FreeSlug
  <1>8. V!Min(Free) \in Free
    <2> HIDE DEF Free
    <2>1. \E n \in Free : \A k \in Free : n <= k
      BY <1>5, <1>6, SmallestNat
    <2> QED
      BY <2>1 DEF V!Min
  <1> QED
    BY <1>1, <1>7, <1>8

\* What a step does to the requests: at most one of them changes, unless the
\* process dies.
LEMMA OneRequest ==
    ASSUME VoiceType, AskedType, NEW q \in Requests, NEW r \in Asked, Equipped(r),
           asked' = [asked EXCEPT ![q] = r]
    PROVE  asked' \in [Requests -> Asked] /\ AskedType'
  BY DEF VoiceType, AskedType

\* The request of a step after it.
LEMMA RequestSteps ==
    ASSUME V!SampleConstants, VoiceType, AskedType, NEW q \in Requests,
           \/ \E o \in Users : V!AskCreate(q, o)
           \/ V!RejectCreate(q) \/ V!ChooseSlug(q) \/ V!InsertVoice(q)
           \/ \E v \in Voices : V!AskDelete(q, v) \/ V!AskTrain(q, v)
           \/ V!SoftDelete(q)
           \/ V!Upload(q) \/ V!FromGeneration(q) \/ V!WriteFile(q) \/ V!CommitSample(q) \/ V!AddFails(q)
           \/ \E s \in Samples, pc \in {"patch", "drop"} : V!AskSample(q, s, pc)
           \/ V!PatchSample(q) \/ V!DropSample(q) \/ V!UnlinkFile(q)
           \/ V!RejectTrain(q) \/ V!AcceptTrain(q) \/ V!QueueTraining(q) \/ V!Enqueue(q)
    PROVE  \E r \in Asked : Equipped(r) /\ asked' = [asked EXCEPT ![q] = r]
  <1> USE DEF Asked, Equipped, V!Become, V!Step
  <1>0. V!Idle \in Asked /\ V!Idle.pc = "idle" /\ asked[q] \in Asked /\ Equipped(asked[q]) /\ DOMAIN asked = Requests
    BY EmptyRows DEF VoiceType, AskedType
  <1>1. CASE \E o \in Users : V!AskCreate(q, o)
    BY <1>0, <1>1 DEF V!AskCreate
  <1>2. CASE V!RejectCreate(q) \/ V!InsertVoice(q) \/ V!SoftDelete(q) \/ V!CommitSample(q) \/ V!AddFails(q)
             \/ V!PatchSample(q) \/ V!UnlinkFile(q) \/ V!RejectTrain(q) \/ V!Enqueue(q)
    BY <1>0, <1>2 DEF V!RejectCreate, V!InsertVoice, V!SoftDelete, V!CommitSample, V!AddFails, V!PatchSample,
                      V!UnlinkFile, V!RejectTrain, V!Enqueue
  <1>3. CASE V!ChooseSlug(q)
    <2>1. V!FreeSlug(asked[q].owner) \in Nat
      BY SlugIsFree
    <2> QED
      BY <1>0, <1>3, <2>1 DEF V!ChooseSlug
  <1>4. CASE \E v \in Voices : V!AskDelete(q, v) \/ V!AskTrain(q, v)
    BY <1>0, <1>4 DEF V!AskDelete, V!AskTrain
  <1>5. CASE \E s \in Samples, pc \in {"patch", "drop"} : V!AskSample(q, s, pc)
    <2>1. PICK s \in Samples, pc \in {"patch", "drop"} :
              asked' = [asked EXCEPT ![q] = [V!Idle EXCEPT !.pc = pc, !.sample = s]]
      BY <1>5 DEF V!AskSample
    <2>2. [V!Idle EXCEPT !.pc = pc, !.sample = s] \in Asked
      BY <1>0
    <2> QED
      BY <1>0, <2>1, <2>2
  <1>6. CASE V!WriteFile(q) \/ V!AcceptTrain(q)
    BY <1>0, <1>6 DEF V!WriteFile, V!AcceptTrain
  <1>7. CASE V!DropSample(q)
    BY <1>0, <1>7 DEF V!DropSample
  <1>8. CASE V!QueueTraining(q)
    BY <1>0, <1>8 DEF V!QueueTraining, V!NewId
  <1>9. CASE V!Upload(q) \/ V!FromGeneration(q)
    <2>1. PICK told \in BOOLEAN : V!AddSample(q, told)
      BY <1>9, Zenon DEF V!Upload, V!FromGeneration
    <2>2. V!NewId(V!FreshSamples) \in Samples
      BY <2>1 DEF V!AddSample, V!NewId, V!FreshSamples, V!SamplesOf
    <2>3. PICK v \in Voices, s \in Samples :
            asked' = [asked EXCEPT ![q] = [V!Idle EXCEPT !.pc = "write", !.voice = v, !.sample = s, !.told = told]]
      BY <2>1, <2>2 DEF V!AddSample
    <2> QED
      BY <1>0, <2>3
  <1> QED
    BY <1>1, <1>2, <1>3, <1>4, <1>5, <1>6, <1>7, <1>8, <1>9, Zenon

\* Every step keeps the types.
LEMMA VoiceTypeNext == ASSUME V!SampleConstants, VoiceType, AskedType, V!Next PROVE VoiceType' /\ AskedType'
  <1>1. asked' \in [Requests -> Asked] /\ AskedType'
    <2>1. CASE V!Crash
      BY <2>1, EmptyRows DEF V!Crash, AskedType, Equipped
    <2>2. CASE asked' = asked
      BY <2>2 DEF VoiceType, AskedType
    <2>3. ASSUME NEW q \in Requests, \E r \in Asked : Equipped(r) /\ asked' = [asked EXCEPT ![q] = r]
          PROVE  asked' \in [Requests -> Asked] /\ AskedType'
      BY <2>3, OneRequest
    <2>4. V!Crash \/ asked' = asked
            \/ \E q \in Requests : \E r \in Asked : Equipped(r) /\ asked' = [asked EXCEPT ![q] = r]
      BY RequestSteps, Zenon DEF V!Next, V!Run, V!End, V!RunVoice
    <2> QED
      BY <2>1, <2>2, <2>3, <2>4
  <1> USE DEF V!Next, V!Crash, V!Run, V!End, V!RunVoice, V!AskCreate, V!RejectCreate, V!ChooseSlug, V!InsertVoice,
          V!AskDelete, V!AskTrain, V!SoftDelete, V!Upload, V!FromGeneration, V!AddSample, V!WriteFile,
          V!CommitSample, V!AddFails, V!AskSample, V!PatchSample, V!DropSample, V!UnlinkFile, V!RejectTrain,
          V!AcceptTrain, V!QueueTraining, V!Enqueue
  <1>2. training' \in [Trainings -> TrainingRows]
    <2>1. \/ training' = training
          \/ \E t \in Trainings : V!Run(t) \/ V!End(t)
          \/ \E q \in Requests : V!QueueTraining(q) \/ V!Enqueue(q)
      BY Zenon
    <2> HIDE DEF V!Next, V!Run, V!End, V!QueueTraining, V!Enqueue
    <2>2. ASSUME NEW t \in Trainings, V!Run(t) \/ V!End(t) PROVE training' \in [Trainings -> TrainingRows]
      BY <2>2 DEF V!Run, V!End, VoiceType, TrainingRows
    <2>3. ASSUME NEW q \in Requests, V!QueueTraining(q) \/ V!Enqueue(q)
          PROVE  training' \in [Trainings -> TrainingRows]
      <3>1. asked[q].pc = "queue" => asked[q].voice \in Voices
        BY DEF AskedType, Equipped
      <3>2. CASE V!QueueTraining(q)
        BY <3>1, <3>2 DEF V!QueueTraining, VoiceType, TrainingRows
      <3>3. CASE V!Enqueue(q)
        <4>1. training' = training \/ \E t : training' = [training EXCEPT ![t].status = "over"]
          BY <3>3, Zenon DEF V!Enqueue
        <4> QED
          BY <4>1 DEF VoiceType, TrainingRows
      <3> QED
        BY <2>3, <3>2, <3>3
    <2> QED
      BY <2>1, <2>2, <2>3 DEF VoiceType
  <1>3. voice' \in [Voices -> VoiceRows]
    <2>1. \/ voice' = voice
          \/ \E v : \E s \in {"resting", "queued", "training"} : voice' = [voice EXCEPT ![v].status = s]
          \/ \E v : \E b \in BOOLEAN : voice' = [voice EXCEPT ![v].deleted = b]
          \/ \E v : \E q \in Requests :
               /\ asked[q].pc = "insert"
               /\ voice' = [voice EXCEPT ![v] = [V!NoVoice EXCEPT !.owner = asked[q].owner, !.slug = asked[q].voice]]
      BY Zenon
    <2> HIDE DEF V!Next
    <2>2. ASSUME NEW q \in Requests, asked[q].pc = "insert"
          PROVE  [V!NoVoice EXCEPT !.owner = asked[q].owner, !.slug = asked[q].voice] \in VoiceRows
      BY <2>2, EmptyRows DEF VoiceRows, AskedType, Equipped
    <2>3. voice \in [Voices -> VoiceRows]
      BY DEF VoiceType
    <2>4. ASSUME NEW v, NEW s \in {"resting", "queued", "training"}, voice' = [voice EXCEPT ![v].status = s]
          PROVE  voice' \in [Voices -> VoiceRows]
      BY <2>3, <2>4 DEF VoiceRows
    <2>5. ASSUME NEW v, NEW b \in BOOLEAN, voice' = [voice EXCEPT ![v].deleted = b]
          PROVE  voice' \in [Voices -> VoiceRows]
      BY <2>3, <2>5 DEF VoiceRows
    <2> QED
      BY <2>1, <2>2, <2>3, <2>4, <2>5, Zenon
  <1>4. sample' \in [Samples -> SampleRows]
    <2>1. \/ sample' = sample
          \/ \E s : \E b \in BOOLEAN : sample' = [sample EXCEPT ![s].told = b]
          \/ \E s : sample' = [sample EXCEPT ![s] = V!NoSample]
          \/ \E s : \E q \in Requests :
               /\ asked[q].pc = "commit"
               /\ sample' = [sample EXCEPT ![s] = [voice |-> asked[q].voice, told |-> asked[q].told]]
      BY Zenon
    <2> HIDE DEF V!Next
    <2>2. ASSUME NEW q \in Requests, asked[q].pc = "commit"
          PROVE  [voice |-> asked[q].voice, told |-> asked[q].told] \in SampleRows
      BY <2>2 DEF SampleRows, AskedType, Equipped, VoiceType, Asked
    <2> QED
      BY <2>1, <2>2, EmptyRows DEF VoiceType, SampleRows
  <1>5. deaths' \in Nat
    <2>1. deaths' = deaths \/ deaths' = deaths + 1
      BY Zenon
    <2> HIDE DEF V!Next
    <2> QED
      BY <2>1 DEF VoiceType
  <1> HIDE DEF V!Next
  <1> QED
    BY <1>1, <1>2, <1>3, <1>4, <1>5 DEF VoiceType
-----------------------------------------------------------------------------
(***************************************************************************)
(* Sample rows and sample files.                                           *)
(***************************************************************************)

\* A request that adds a sample is the only one about it, and its row is not
\* visible yet; one that is about to commit has written the file; one that is
\* about to remove the file has removed the row.
Adding ==
    \A q \in Requests :
        /\ asked[q].pc \in {"write", "commit"} =>
             /\ sample[asked[q].sample].voice = None
             /\ \A p \in Requests \ {q} : asked[p].sample # asked[q].sample
        /\ asked[q].pc = "commit" => asked[q].sample \in sampleFile
        /\ asked[q].pc = "unlink" => sample[asked[q].sample].voice = None

\* The inductive invariant of the samples and their files.
SampleInv == VoiceType /\ AskedType /\ sampleFile \subseteq Samples /\ Adding /\ V!SamplesAreWhole

\* Neither row nor file exists at first.
LEMMA SampleInit == V!Init => SampleInv
  <1>1. V!Init => Adding /\ sampleFile \subseteq Samples /\ V!SamplesAreWhole
    BY EmptyRows DEF V!Init, Adding, V!SamplesAreWhole
  <1> QED
    BY <1>1, VoiceTypeInit DEF SampleInv

\* The steps that are about no sample, or only ask for one.
LEMMA SamplesLeft ==
    ASSUME V!SampleConstants, SampleInv, VoiceType', AskedType', UNCHANGED <<sample, sampleFile, deaths>>,
           NEW q \in Requests, NEW r \in Asked, asked' = [asked EXCEPT ![q] = r],
           asked[q].pc \notin {"commit", "unlink"}, r.pc \notin {"write", "commit", "unlink"},
           r.sample \in Samples => r.sample = asked[q].sample \/ sample[r.sample].voice # None
    PROVE  SampleInv'
  <1>1. asked'[q] = r /\ \A p \in Requests \ {q} : asked'[p] = asked[p]
    BY DEF SampleInv, VoiceType
  <1>2. \A p \in Requests : asked'[p].pc \in {"write", "commit", "unlink"} => p # q /\ asked'[p] = asked[p]
    BY <1>1
  <1>3. Adding'
    <2> SUFFICES ASSUME NEW p \in Requests
                 PROVE  /\ asked'[p].pc \in {"write", "commit"} =>
                             /\ sample[asked'[p].sample].voice = None
                             /\ \A k \in Requests \ {p} : asked'[k].sample # asked'[p].sample
                        /\ asked'[p].pc = "commit" => asked'[p].sample \in sampleFile
                        /\ asked'[p].pc = "unlink" => sample[asked'[p].sample].voice = None
      BY DEF Adding
    <2>1. asked'[p].pc = "commit" => asked'[p].sample \in sampleFile
      BY <1>2 DEF SampleInv, Adding
    <2>2. asked'[p].pc \in {"write", "commit", "unlink"} => sample[asked'[p].sample].voice = None
      BY <1>2 DEF SampleInv, Adding
    <2>3. ASSUME asked'[p].pc \in {"write", "commit"}, NEW k \in Requests \ {p}
          PROVE  asked'[k].sample # asked'[p].sample
      <3>1. /\ p # q /\ asked'[p] = asked[p] /\ asked[p].sample \in Samples /\ sample[asked[p].sample].voice = None
            /\ asked[k].sample # asked[p].sample
        BY <1>2, <2>3 DEF SampleInv, Adding, AskedType, Equipped
      <3>2. CASE k = q
        BY <1>1, <3>1, <3>2
      <3>3. CASE k # q
        BY <1>1, <3>1, <3>3
      <3> QED
        BY <3>2, <3>3
    <2> QED
      BY <2>1, <2>2, <2>3
  <1>4. V!InFlight({"commit", "unlink"}) \subseteq V!InFlight({"commit", "unlink"})'
    BY <1>1 DEF V!InFlight
  <1>5. V!SamplesAreWhole'
    BY <1>4 DEF SampleInv, V!SamplesAreWhole
  <1> QED
    BY <1>3, <1>5 DEF SampleInv

\* The steps of one request that change rows and files, or begin to.
LEMMA SampleSteps ==
    ASSUME V!SampleConstants, SampleInv, VoiceType', AskedType', NEW q \in Requests,
           \/ V!Upload(q) \/ V!FromGeneration(q) \/ V!WriteFile(q) \/ V!CommitSample(q) \/ V!AddFails(q)
           \/ V!PatchSample(q) \/ V!DropSample(q) \/ V!UnlinkFile(q)
    PROVE  SampleInv'
  <1>0. /\ VoiceType /\ AskedType /\ sampleFile \subseteq Samples /\ Adding /\ V!SamplesAreWhole
        /\ asked[q] \in Asked /\ Equipped(asked[q]) /\ None \notin Samples /\ None \notin Voices
        /\ V!Idle \in Asked /\ V!Idle.pc = "idle" /\ V!Idle.sample = None
    BY EmptyRows DEF SampleInv, VoiceType, AskedType, V!SampleConstants
  <1>1. CASE V!Upload(q) \/ V!FromGeneration(q)
    <2>1. PICK told \in BOOLEAN : V!AddSample(q, told)
      BY <1>1, Zenon DEF V!Upload, V!FromGeneration
    <2>2. V!NewId(V!FreshSamples) \in V!FreshSamples
      BY <2>1 DEF V!AddSample, V!NewId
    <2>3. PICK v \in Voices, s \in V!FreshSamples :
            asked' = [asked EXCEPT ![q] = [V!Idle EXCEPT !.pc = "write", !.voice = v, !.sample = s, !.told = told]]
      BY <2>1, <2>2 DEF V!AddSample, V!Become
    <2>4. s \in Samples /\ sample[s].voice = None /\ s \notin sampleFile /\ \A p \in Requests : asked[p].sample # s
      BY DEF V!FreshSamples, V!SamplesOf
    <2>5. /\ asked'[q].pc = "write" /\ asked'[q].sample = s
          /\ \A p \in Requests \ {q} : asked'[p] = asked[p]
      BY <1>0, <2>3 DEF VoiceType, Asked
    <2>6. UNCHANGED <<sample, sampleFile, deaths>> /\ asked[q].pc = "idle"
      BY <1>1, <2>1 DEF V!AddSample, V!Upload, V!FromGeneration
    <2>7. Adding'
      BY <1>0, <2>4, <2>5, <2>6 DEF Adding
    <2>8. V!InFlight({"commit", "unlink"}) \subseteq V!InFlight({"commit", "unlink"})'
      BY <2>5, <2>6 DEF V!InFlight
    <2>9. V!SamplesAreWhole'
      BY <1>0, <2>6, <2>8 DEF V!SamplesAreWhole
    <2> QED
      BY <1>0, <2>6, <2>7, <2>9 DEF SampleInv
  <1>2. CASE V!WriteFile(q)
    <2> DEFINE s == asked[q].sample
    <2>1. asked[q].pc = "write" /\ s \in Samples /\ sampleFile' = sampleFile \cup {s} /\ UNCHANGED <<sample, deaths>>
      BY <1>0, <1>2 DEF V!WriteFile, Equipped
    <2>2. /\ asked'[q].pc = "commit" /\ asked'[q].sample = s
          /\ \A p \in Requests \ {q} : asked'[p] = asked[p]
      BY <1>0, <1>2 DEF V!WriteFile, V!Step, VoiceType, Asked
    <2> HIDE DEF s
    <2>3. sample[s].voice = None /\ \A p \in Requests \ {q} : asked[p].sample # s
      BY <1>0, <2>1 DEF Adding, s
    <2>4. Adding'
      BY <1>0, <2>1, <2>2, <2>3 DEF Adding
    <2>5. V!InFlight({"commit", "unlink"}) \cup {s} \subseteq V!InFlight({"commit", "unlink"})'
      BY <2>1, <2>2 DEF V!InFlight
    <2>6. V!SamplesAreWhole'
      BY <1>0, <2>1, <2>5 DEF V!SamplesAreWhole
    <2> QED
      BY <1>0, <2>1, <2>4, <2>6 DEF SampleInv
  <1>3. CASE V!CommitSample(q)
    <2> DEFINE s == asked[q].sample
    <2>1. /\ asked[q].pc = "commit" /\ s \in Samples /\ asked[q].voice \in Voices /\ UNCHANGED <<sampleFile, deaths>>
          /\ sample' = [sample EXCEPT ![s] = [voice |-> asked[q].voice, told |-> asked[q].told]]
      BY <1>0, <1>3 DEF V!CommitSample, Equipped
    <2>2. asked'[q] = V!Idle /\ \A p \in Requests \ {q} : asked'[p] = asked[p]
      BY <1>0, <1>3 DEF V!CommitSample, V!Become, VoiceType
    <2> HIDE DEF s
    <2>3. s \in sampleFile /\ sample[s].voice = None /\ \A p \in Requests \ {q} : asked[p].sample # s
      BY <1>0, <2>1 DEF Adding, s
    <2>4. sample'[s].voice # None /\ \A x \in Samples \ {s} : sample'[x] = sample[x]
      BY <1>0, <2>1 DEF VoiceType
    <2>5. Adding'
      BY <1>0, <2>1, <2>2, <2>3, <2>4 DEF Adding, AskedType, Equipped
    <2>6. V!InFlight({"commit", "unlink"}) \ {s} \subseteq V!InFlight({"commit", "unlink"})'
      BY <2>1, <2>2 DEF V!InFlight, s
    <2>7. V!SamplesAreWhole'
      BY <1>0, <2>1, <2>3, <2>4, <2>6 DEF V!SamplesAreWhole
    <2> QED
      BY <1>0, <2>1, <2>5, <2>7 DEF SampleInv
  <1>4. CASE V!AddFails(q)
    <2> DEFINE s == asked[q].sample
    <2>1. /\ asked[q].pc \in {"write", "commit"} /\ s \in Samples /\ UNCHANGED <<sample, deaths>>
          /\ sampleFile' = sampleFile \ {s}
      BY <1>0, <1>4 DEF V!AddFails, Equipped
    <2>2. asked'[q] = V!Idle /\ \A p \in Requests \ {q} : asked'[p] = asked[p]
      BY <1>0, <1>4 DEF V!AddFails, V!Become, VoiceType
    <2> HIDE DEF s
    <2>3. sample[s].voice = None /\ \A p \in Requests \ {q} : asked[p].sample # s
      BY <1>0, <2>1 DEF Adding, s
    <2>4. Adding'
      BY <1>0, <2>1, <2>2, <2>3 DEF Adding, AskedType, Equipped
    <2>5. V!InFlight({"commit", "unlink"}) \ {s} \subseteq V!InFlight({"commit", "unlink"})'
      BY <2>1, <2>2 DEF V!InFlight, s
    <2>6. V!SamplesAreWhole'
      BY <1>0, <2>1, <2>3, <2>5 DEF V!SamplesAreWhole
    <2> QED
      BY <1>0, <2>1, <2>4, <2>6 DEF SampleInv
  <1>5. CASE V!PatchSample(q)
    <2> DEFINE s == asked[q].sample
    <2>1. /\ asked[q].pc = "patch" /\ s \in Samples /\ UNCHANGED <<sampleFile, deaths>>
          /\ \E b \in BOOLEAN : sample' = [sample EXCEPT ![s].told = b]
      <3>1. asked[q].pc = "patch" /\ s \in Samples
        BY <1>0, <1>5 DEF V!PatchSample, Equipped
      <3>2. UNCHANGED <<sampleFile, deaths>> /\ \E b \in BOOLEAN : sample' = [sample EXCEPT ![s].told = b]
        BY <1>5, Zenon DEF V!PatchSample
      <3> QED
        BY <3>1, <3>2
    <2>2. asked'[q] = V!Idle /\ \A p \in Requests \ {q} : asked'[p] = asked[p]
      BY <1>0, <1>5 DEF V!PatchSample, V!Become, VoiceType
    <2> HIDE DEF s
    <2>3. \A x \in Samples : sample'[x].voice = sample[x].voice
      BY <1>0, <2>1 DEF VoiceType, SampleRows
    <2>4. Adding'
      BY <1>0, <2>1, <2>2, <2>3 DEF Adding, AskedType, Equipped
    <2>5. V!InFlight({"commit", "unlink"}) \subseteq V!InFlight({"commit", "unlink"})'
      BY <2>1, <2>2 DEF V!InFlight
    <2>6. V!SamplesAreWhole'
      BY <1>0, <2>1, <2>3, <2>5 DEF V!SamplesAreWhole
    <2> QED
      BY <1>0, <2>1, <2>4, <2>6 DEF SampleInv
  <1>6. CASE V!DropSample(q)
    <2> DEFINE s == asked[q].sample
    <2>1. /\ asked[q].pc = "drop" /\ s \in Samples /\ UNCHANGED <<sampleFile, deaths>>
          /\ sample' = [sample EXCEPT ![s] = V!NoSample]
      BY <1>0, <1>6 DEF V!DropSample, Equipped
    <2>2. /\ \A p \in Requests \ {q} : asked'[p] = asked[p]
          /\ \/ sample[s].voice = None /\ asked'[q] = V!Idle
             \/ sample[s].voice # None /\ asked'[q].pc = "unlink" /\ asked'[q].sample = s
      BY <1>0, <1>6 DEF V!DropSample, V!Become, V!Step, VoiceType, Asked
    <2> HIDE DEF s
    <2>3. sample'[s].voice = None /\ \A x \in Samples \ {s} : sample'[x] = sample[x]
      BY <1>0, <2>1, EmptyRows DEF VoiceType
    <2>4. Adding'
      <3>1. ASSUME NEW p \in Requests, asked'[p].pc \in {"write", "commit", "unlink"}
            PROVE  sample'[asked'[p].sample].voice = None
        <4>1. CASE p = q
          BY <1>0, <2>2, <2>3, <3>1, <4>1
        <4>2. CASE p # q
          BY <1>0, <2>2, <2>3, <3>1, <4>2 DEF Adding, AskedType, Equipped
        <4> QED
          BY <4>1, <4>2
      <3>2. ASSUME NEW p \in Requests, asked'[p].pc \in {"write", "commit"}
            PROVE  /\ p # q /\ asked'[p] = asked[p]
                   /\ asked'[p].pc = "commit" => asked'[p].sample \in sampleFile'
                   /\ \A k \in Requests \ {p} : asked'[k].sample # asked'[p].sample
        <4>1. p # q /\ asked'[p] = asked[p]
          BY <1>0, <2>2, <3>2
        <4>2. asked'[q].sample = None \/ asked'[q].sample = asked[q].sample
          BY <1>0, <2>2 DEF s
        <4>3. asked[p].sample \in Samples
          BY <1>0, <3>2, <4>1 DEF AskedType, Equipped
        <4> QED
          BY <1>0, <2>1, <2>2, <3>2, <4>1, <4>2, <4>3 DEF Adding
      <3> QED
        BY <3>1, <3>2 DEF Adding
    <2>5. V!InFlight({"commit", "unlink"}) \subseteq V!InFlight({"commit", "unlink"})'
      BY <2>1, <2>2 DEF V!InFlight
    <2>6. sample[s].voice # None => s \in V!InFlight({"commit", "unlink"})'
      BY <2>2 DEF V!InFlight
    <2>7. V!SamplesAreWhole'
      BY <1>0, <2>1, <2>3, <2>5, <2>6 DEF V!SamplesAreWhole
    <2> QED
      BY <1>0, <2>1, <2>4, <2>7 DEF SampleInv
  <1>7. CASE V!UnlinkFile(q)
    <2> DEFINE s == asked[q].sample
    <2>1. /\ asked[q].pc = "unlink" /\ s \in Samples /\ UNCHANGED sample
          /\ \/ sampleFile' = sampleFile \ {s} /\ deaths' = deaths
             \/ sampleFile' = sampleFile /\ deaths' = deaths + 1
      BY <1>0, <1>7 DEF V!UnlinkFile, Equipped
    <2>2. asked'[q] = V!Idle /\ \A p \in Requests \ {q} : asked'[p] = asked[p]
      BY <1>0, <1>7 DEF V!UnlinkFile, V!Become, VoiceType
    <2> HIDE DEF s
    <2>3. sample[s].voice = None
      BY <1>0, <2>1 DEF Adding, s
    <2>4. \A p \in Requests \ {q} : asked[p].pc \in {"write", "commit"} => asked[p].sample # s
      BY <1>0 DEF Adding, s
    <2>5. Adding'
      BY <1>0, <2>1, <2>2, <2>3, <2>4 DEF Adding, AskedType, Equipped
    <2>6. V!InFlight({"commit", "unlink"}) \ {s} \subseteq V!InFlight({"commit", "unlink"})'
      BY <2>1, <2>2 DEF V!InFlight, s
    <2>7. V!SamplesAreWhole'
      BY <1>0, <2>1, <2>3, <2>6 DEF V!SamplesAreWhole, VoiceType
    <2> QED
      BY <1>0, <2>1, <2>5, <2>7 DEF SampleInv
  <1> QED
    BY <1>1, <1>2, <1>3, <1>4, <1>5, <1>6, <1>7, Zenon

\* Every step keeps the invariant.
LEMMA SampleNext == ASSUME V!SampleConstants PROVE SampleInv /\ [V!Next]_(V!vars) => SampleInv'
  <1> SUFFICES ASSUME SampleInv, [V!Next]_(V!vars) PROVE SampleInv'
    OBVIOUS
  <1>1. CASE UNCHANGED V!vars
    BY <1>1 DEF V!vars, SampleInv, VoiceType, AskedType, Adding, V!SamplesAreWhole, V!InFlight
  <1>2. CASE V!Next
    <2>0. /\ VoiceType' /\ AskedType' /\ VoiceType /\ AskedType /\ None \notin Samples
          /\ V!Idle \in Asked /\ V!Idle.pc = "idle" /\ V!Idle.sample = None
      BY <1>2, VoiceTypeNext, EmptyRows DEF SampleInv, V!SampleConstants
    <2>1. ASSUME UNCHANGED <<sample, sampleFile, asked, deaths>> PROVE SampleInv'
      BY <2>0, <2>1 DEF SampleInv, Adding, V!SamplesAreWhole, V!InFlight
    <2>2. ASSUME NEW q \in Requests, NEW r \in Asked, UNCHANGED <<sample, sampleFile, deaths>>,
                 asked' = [asked EXCEPT ![q] = r], asked[q].pc \notin {"commit", "unlink"},
                 r.pc \notin {"write", "commit", "unlink"},
                 r.sample \in Samples => r.sample = asked[q].sample \/ sample[r.sample].voice # None
          PROVE  SampleInv'
      BY <2>0, <2>2, SamplesLeft
    <2>3. CASE V!Crash
      <3>1. UNCHANGED <<sample, sampleFile>> /\ deaths' = deaths + 1 /\ asked' = [q \in Requests |-> V!Idle]
        BY <2>3 DEF V!Crash
      <3>2. Adding'
        BY <2>0, <3>1 DEF Adding
      <3>3. V!SamplesAreWhole'
        BY <2>0, <3>1 DEF SampleInv, V!SamplesAreWhole, VoiceType
      <3> QED
        BY <2>0, <3>1, <3>2, <3>3 DEF SampleInv
    <2>4. ASSUME \/ \E t \in Trainings : V!Run(t) \/ V!End(t)
                 \/ \E v \in Voices : V!RunVoice(v)
          PROVE  SampleInv'
      BY <2>1, <2>4 DEF V!Run, V!End, V!RunVoice
    <2>5. ASSUME NEW q \in Requests,
                 \/ V!Upload(q) \/ V!FromGeneration(q) \/ V!WriteFile(q) \/ V!CommitSample(q) \/ V!AddFails(q)
                 \/ V!PatchSample(q) \/ V!DropSample(q) \/ V!UnlinkFile(q)
          PROVE  SampleInv'
      BY <2>0, <2>5, SampleSteps
    <2>6. ASSUME NEW q \in Requests, NEW o \in Users, V!AskCreate(q, o) PROVE SampleInv'
      <3> DEFINE r == [V!Idle EXCEPT !.pc = "create", !.owner = o]
      <3>1. r \in Asked /\ r.pc = "create" /\ r.sample = None
        BY <2>0 DEF Asked
      <3> QED
        BY <2>0, <2>2, <2>6, <3>1 DEF V!AskCreate, V!Become
    <2>7. ASSUME NEW q \in Requests,
                 \/ V!RejectCreate(q) \/ V!InsertVoice(q) \/ V!SoftDelete(q) \/ V!RejectTrain(q) \/ V!Enqueue(q)
          PROVE  SampleInv'
      BY <2>0, <2>2, <2>7
      DEF V!RejectCreate, V!InsertVoice, V!SoftDelete, V!RejectTrain, V!Enqueue, V!Become
    <2>8. ASSUME NEW q \in Requests, NEW v \in Voices, V!AskDelete(q, v) \/ V!AskTrain(q, v) PROVE SampleInv'
      <3> DEFINE r(pc) == [V!Idle EXCEPT !.pc = pc, !.voice = v]
      <3>1. \A pc \in {"delete", "train"} : r(pc) \in Asked /\ r(pc).pc = pc /\ r(pc).sample = None
        BY <2>0 DEF Asked
      <3> QED
        BY <2>0, <2>2, <2>8, <3>1 DEF V!AskDelete, V!AskTrain, V!Become
    <2>9. ASSUME NEW q \in Requests, NEW s \in Samples, NEW pc \in {"patch", "drop"}, V!AskSample(q, s, pc)
          PROVE  SampleInv'
      <3> DEFINE r == [V!Idle EXCEPT !.pc = pc, !.sample = s]
      <3>1. r \in Asked /\ r.pc = pc /\ r.sample = s
        BY <2>0 DEF Asked
      <3> QED
        BY <2>0, <2>2, <2>9, <3>1 DEF V!AskSample, V!Become
    <2>10. ASSUME NEW q \in Requests, V!ChooseSlug(q) \/ V!AcceptTrain(q) \/ V!QueueTraining(q) PROVE SampleInv'
      <3>1. PICK r \in Asked : Equipped(r) /\ asked' = [asked EXCEPT ![q] = r]
        BY <2>0, <2>10, RequestSteps
      <3>2. asked[q] \in Asked /\ asked'[q] = r
        BY <2>0, <3>1 DEF VoiceType
      <3>3. /\ asked[q].pc \in {"create", "train", "queue"} /\ r.pc \in {"insert", "queue", "enqueue"}
            /\ r.sample = asked[q].sample
        <4>1. CASE V!ChooseSlug(q)
          BY <2>0, <3>2, <4>1 DEF V!ChooseSlug, V!Become, VoiceType, Asked
        <4>2. CASE V!AcceptTrain(q)
          BY <2>0, <3>2, <4>2 DEF V!AcceptTrain, V!Step, VoiceType, Asked
        <4>3. CASE V!QueueTraining(q)
          BY <2>0, <3>2, <4>3 DEF V!QueueTraining, VoiceType, Asked
        <4> QED
          BY <2>10, <4>1, <4>2, <4>3
      <3>4. UNCHANGED <<sample, sampleFile, deaths>>
        BY <2>10 DEF V!ChooseSlug, V!AcceptTrain, V!QueueTraining
      <3> QED
        BY <2>2, <3>1, <3>3, <3>4
    <2> QED
      BY <1>2, <2>3, <2>4, <2>5, <2>6, <2>7, <2>8, <2>9, <2>10, Zenon DEF V!Next
  <1> QED
    BY <1>1, <1>2

\* A sample's row never lacks its file, and no file outlives its row unless its
\* removal was refused or the process died (api_add_sample, api_delete_sample).
THEOREM SamplesKeepTheirFiles == ASSUME V!SampleConstants PROVE V!Spec => []V!SamplesAreWhole
  <1>1. SampleInv => V!SamplesAreWhole
    BY DEF SampleInv
  <1> QED
    BY <1>1, SampleInit, SampleNext, PTL DEF V!Spec
-----------------------------------------------------------------------------
(***************************************************************************)
(* The limits on voices and on waiting trainings.                          *)
(***************************************************************************)

\* Trainings that wait for their first start.
Queued == {t \in Trainings : training[t].status = "queued"}

\* The advisory lock is held from the count to the insert.
CapacityLocked ==
    \A q \in Requests : asked[q].pc \in {"create", "insert", "train", "queue"} => capacityLock = q

\* What a request has counted and read under the lock still holds when it writes.
StillRoom ==
    \A q \in Requests :
        /\ asked[q].pc = "insert" => Cardinality(V!LiveVoices(asked[q].owner)) < MaxVoices /\ ~V!SlugTaken(q)
        /\ asked[q].pc = "queue" => Cardinality(Queued) < MaxQueued /\ voice[asked[q].voice].status # "queued"

\* The caps on voices and on queued trainings hold.
NotTooMany ==
    /\ \A o \in Users : Cardinality(V!LiveVoices(o)) <= MaxVoices
    /\ Cardinality(Queued) <= MaxQueued

\* The inductive invariant of the caps: what was counted under the lock stays so.
CapacityInv == VoiceType /\ AskedType /\ CapacityLocked /\ StillRoom /\ NotTooMany

\* The sets that are counted are finite.
LEMMA CapacityFacts ==
    ASSUME V!SampleConstants
    PROVE  /\ \A X \in SUBSET Voices : IsFiniteSet(X) /\ Cardinality(X) \in Nat
           /\ \A X, T \in SUBSET Voices : X \subseteq T => Cardinality(X) <= Cardinality(T)
           /\ \A X \in SUBSET Trainings : IsFiniteSet(X) /\ Cardinality(X) \in Nat
           /\ \A X, T \in SUBSET Trainings : X \subseteq T => Cardinality(X) <= Cardinality(T)
           /\ \A o : V!LiveVoices(o) \in SUBSET Voices
           /\ Queued \in SUBSET Trainings
           /\ MaxVoices \in Nat /\ MaxQueued \in Nat
  <1>1. IsFiniteSet(Voices) /\ IsFiniteSet(Trainings)
    BY VoiceSets DEF V!SampleConstants
  <1>2. /\ \A X \in SUBSET Voices : IsFiniteSet(X) /\ Cardinality(X) \in Nat
        /\ \A X \in SUBSET Trainings : IsFiniteSet(X) /\ Cardinality(X) \in Nat
    BY <1>1, FS_Subset, FS_CardinalityType
  <1>3. /\ \A X, T \in SUBSET Voices : X \subseteq T => Cardinality(X) <= Cardinality(T)
        /\ \A X, T \in SUBSET Trainings : X \subseteq T => Cardinality(X) <= Cardinality(T)
    BY <1>2, FS_Subset
  <1>4. (\A o : V!LiveVoices(o) \in SUBSET Voices) /\ Queued \in SUBSET Trainings
    BY DEF V!LiveVoices, V!VoicesOf, Queued
  <1> QED
    BY <1>2, <1>3, <1>4 DEF V!SampleConstants

\* No voice and no training at first.
LEMMA CapacityInit == ASSUME V!SampleConstants PROVE V!Init => CapacityInv
  <1> SUFFICES ASSUME V!Init PROVE CapacityInv
    OBVIOUS
  <1>1. Queued = {} /\ \A o \in Users : V!LiveVoices(o) = {}
    BY EmptyRows DEF V!Init, Queued, V!LiveVoices, V!VoicesOf, V!SampleConstants
  <1>2. NotTooMany
    BY <1>1, FS_EmptySet, CapacityFacts DEF NotTooMany
  <1>3. CapacityLocked /\ StillRoom
    BY EmptyRows DEF V!Init, CapacityLocked, StillRoom
  <1> QED
    BY <1>2, <1>3, VoiceTypeInit DEF CapacityInv

\* A step that adds no voice and no waiting training, and lets no request past
\* its count, keeps what was counted.
LEMMA NoGrowth ==
    ASSUME V!SampleConstants, CapacityInv, VoiceType', AskedType',
           \A v \in Voices : /\ voice'[v].owner = voice[v].owner /\ voice'[v].slug = voice[v].slug
                             /\ voice[v].deleted => voice'[v].deleted
                             /\ voice'[v].status = "queued" => voice[v].status = "queued",
           Queued' \subseteq Queued,
           \A q \in Requests : asked'[q].pc \in {"insert", "queue"} => asked'[q] = asked[q]
    PROVE  StillRoom' /\ NotTooMany'
  <1>1. \A o : V!LiveVoices(o)' \subseteq V!LiveVoices(o)
    BY DEF V!LiveVoices, V!VoicesOf
  <1>2. ASSUME NEW o, NEW n \in Nat
        PROVE  /\ Cardinality(V!LiveVoices(o)) <= n => Cardinality(V!LiveVoices(o)') <= n
               /\ Cardinality(V!LiveVoices(o)) < n => Cardinality(V!LiveVoices(o)') < n
    <2>1. V!LiveVoices(o) \in SUBSET Voices /\ V!LiveVoices(o)' \in SUBSET Voices
      BY <1>1, CapacityFacts
    <2>2. /\ Cardinality(V!LiveVoices(o)') <= Cardinality(V!LiveVoices(o))
          /\ Cardinality(V!LiveVoices(o)) \in Nat /\ Cardinality(V!LiveVoices(o)') \in Nat
      BY <1>1, <2>1, CapacityFacts
    <2> QED
      BY <2>2
  <1>3. ASSUME NEW n \in Nat
        PROVE  /\ Cardinality(Queued) <= n => Cardinality(Queued') <= n
               /\ Cardinality(Queued) < n => Cardinality(Queued') < n
    <2>1. Queued \in SUBSET Trainings /\ Queued' \in SUBSET Trainings
      BY CapacityFacts
    <2>2. Cardinality(Queued') <= Cardinality(Queued) /\ Cardinality(Queued) \in Nat /\ Cardinality(Queued') \in Nat
      BY <2>1, CapacityFacts
    <2> QED
      BY <2>2
  <1>4. MaxVoices \in Nat /\ MaxQueued \in Nat
    BY DEF V!SampleConstants
  <1>5. NotTooMany'
    BY <1>2, <1>3, <1>4 DEF NotTooMany, CapacityInv
  <1>6. ASSUME NEW q \in Requests, asked'[q].pc = "insert"
        PROVE  Cardinality(V!LiveVoices(asked[q].owner)') < MaxVoices /\ ~V!SlugTaken(q)'
    <2>1. asked'[q] = asked[q]
      BY <1>6
    <2>2. PICK o \in Users : asked[q].owner = o /\ asked'[q].owner = o
      BY <1>6, <2>1 DEF CapacityInv, AskedType, Equipped
    <2>3. Cardinality(V!LiveVoices(o)) < MaxVoices /\ ~V!SlugTaken(q)
      BY <1>6, <2>1, <2>2 DEF CapacityInv, StillRoom
    <2>4. Cardinality(V!LiveVoices(o)') < MaxVoices
      BY <1>2, <1>4, <2>3
    <2>5. ~V!SlugTaken(q)'
      BY <2>1, <2>3 DEF V!SlugTaken, V!VoicesOf
    <2> QED
      BY <2>2, <2>4, <2>5 DEF V!LiveVoices, V!VoicesOf
  <1>7. ASSUME NEW q \in Requests, asked'[q].pc = "queue"
        PROVE  Cardinality(Queued') < MaxQueued /\ voice'[asked'[q].voice].status # "queued"
    <2>1. asked'[q] = asked[q] /\ asked[q].voice \in Voices
      BY <1>7 DEF CapacityInv, AskedType, Equipped
    <2> QED
      BY <1>3, <1>4, <1>7, <2>1 DEF CapacityInv, StillRoom
  <1> QED
    BY <1>5, <1>6, <1>7 DEF StillRoom

\* A voice is inserted under the lock.
LEMMA InsertKeeps ==
    ASSUME V!SampleConstants, CapacityInv, VoiceType', AskedType', NEW q \in Requests, V!InsertVoice(q)
    PROVE  CapacityInv'
  <1>0. VoiceType /\ AskedType /\ CapacityLocked /\ StillRoom /\ NotTooMany /\ None \notin Requests
    BY DEF CapacityInv, V!SampleConstants
  <1>1. asked[q].pc = "insert" /\ capacityLock = q /\ capacityLock' = None /\ UNCHANGED training
    BY <1>0 DEF V!InsertVoice, V!Release, CapacityLocked
  <1>2. asked'[q].pc = "idle" /\ \A p \in Requests \ {q} : asked'[p] = asked[p]
    BY <1>0, EmptyRows DEF V!InsertVoice, V!Become, VoiceType
  <1>3. CapacityLocked' /\ \A p \in Requests : asked'[p].pc \notin {"create", "insert", "train", "queue"}
    BY <1>0, <1>1, <1>2 DEF CapacityLocked
  <1>4. Queued' = Queued
    BY <1>1 DEF Queued
  <1>5. CASE voice' = voice
    <2>1. StillRoom' /\ NotTooMany'
      BY <1>3, <1>4, <1>5, NoGrowth
    <2> QED
      BY <1>3, <2>1 DEF CapacityInv
  <1>6. CASE voice' # voice
    <2> DEFINE v == V!NewId(V!VoicesOf(None))
    <2>1. /\ V!VoicesOf(None) # {}
          /\ voice' = [voice EXCEPT ![v] = [V!NoVoice EXCEPT !.owner = asked[q].owner, !.slug = asked[q].voice]]
      BY <1>6 DEF V!InsertVoice
    <2>2. v \in Voices /\ voice[v].owner = None
      BY <2>1 DEF V!NewId, V!VoicesOf
    <2> HIDE DEF v
    <2>3. PICK o \in Users : asked[q].owner = o
      BY <1>0, <1>1 DEF AskedType, Equipped
    <2>4. voice'[v].owner = o /\ \A w \in Voices \ {v} : voice'[w] = voice[w]
      BY <1>0, <2>1, <2>2, <2>3, EmptyRows DEF VoiceType, VoiceRows
    <2>5. Cardinality(V!LiveVoices(o)) < MaxVoices
      BY <1>0, <1>1, <2>3 DEF StillRoom
    <2>6. V!LiveVoices(o)' \subseteq V!LiveVoices(o) \cup {v}
      BY <2>4 DEF V!LiveVoices, V!VoicesOf
    <2>7. \A w \in Users \ {o} : V!LiveVoices(w)' \subseteq V!LiveVoices(w)
      BY <2>4 DEF V!LiveVoices, V!VoicesOf
    <2>8. Cardinality(V!LiveVoices(o)') <= MaxVoices
      <3>1. V!LiveVoices(o) \in SUBSET Voices /\ MaxVoices \in Nat
        BY CapacityFacts
      <3>2. IsFiniteSet(V!LiveVoices(o))
        BY <3>1, CapacityFacts
      <3> QED
        BY <2>5, <2>6, <3>1, <3>2, OneMore
    <2>9. ASSUME NEW w \in Users \ {o} PROVE Cardinality(V!LiveVoices(w)') <= MaxVoices
      <3>1. V!LiveVoices(w) \in SUBSET Voices /\ V!LiveVoices(w)' \in SUBSET Voices /\ MaxVoices \in Nat
        BY <2>7, CapacityFacts
      <3>2. /\ Cardinality(V!LiveVoices(w)') <= Cardinality(V!LiveVoices(w)) /\ Cardinality(V!LiveVoices(w)) <= MaxVoices
            /\ Cardinality(V!LiveVoices(w)) \in Nat /\ Cardinality(V!LiveVoices(w)') \in Nat
        BY <1>0, <2>7, <3>1, CapacityFacts DEF NotTooMany
      <3> QED
        BY <3>1, <3>2
    <2>10. NotTooMany'
      BY <1>0, <1>4, <2>8, <2>9 DEF NotTooMany
    <2>11. StillRoom'
      BY <1>3 DEF StillRoom
    <2> QED
      BY <1>3, <2>10, <2>11 DEF CapacityInv
  <1> QED
    BY <1>5, <1>6

\* A training is queued under the lock.
LEMMA QueueKeeps ==
    ASSUME V!SampleConstants, CapacityInv, VoiceType', AskedType', NEW q \in Requests, V!QueueTraining(q)
    PROVE  CapacityInv'
  <1>0. VoiceType /\ AskedType /\ CapacityLocked /\ StillRoom /\ NotTooMany /\ None \notin Requests
    BY DEF CapacityInv, V!SampleConstants
  <1> DEFINE t == V!NewId({u \in Trainings : training[u].status = "none"})
  <1>1. /\ asked[q].pc = "queue" /\ capacityLock = q /\ capacityLock' = None
        /\ training' = [training EXCEPT ![t] = [status |-> "queued", voice |-> asked[q].voice]]
        /\ voice' = [voice EXCEPT ![asked[q].voice].status = "queued"]
        /\ asked' = [asked EXCEPT ![q].pc = "enqueue", ![q].job = t]
    BY <1>0 DEF V!QueueTraining, V!Release, CapacityLocked
  <1>2. t \in Trainings
    BY DEF V!QueueTraining, V!NewId
  <1> HIDE DEF t
  <1>3. asked'[q].pc = "enqueue" /\ \A p \in Requests \ {q} : asked'[p] = asked[p]
    BY <1>0, <1>1 DEF VoiceType, Asked
  <1>4. CapacityLocked' /\ \A p \in Requests : asked'[p].pc \notin {"create", "insert", "train", "queue"}
    BY <1>0, <1>1, <1>3 DEF CapacityLocked
  <1>5. Queued' \subseteq Queued \cup {t}
    BY <1>0, <1>1 DEF Queued, VoiceType
  <1>6. Cardinality(Queued') <= MaxQueued
    <2>1. Queued \in SUBSET Trainings /\ MaxQueued \in Nat /\ Cardinality(Queued) < MaxQueued
      BY <1>0, <1>1, CapacityFacts DEF StillRoom
    <2>2. IsFiniteSet(Queued)
      BY <2>1, CapacityFacts
    <2> QED
      BY <1>5, <2>1, <2>2, OneMore
  <1>7. \A o \in Users : V!LiveVoices(o)' = V!LiveVoices(o)
    <2>1. \A v \in Voices : voice'[v].owner = voice[v].owner /\ voice'[v].deleted = voice[v].deleted
      BY <1>0, <1>1 DEF VoiceType, VoiceRows
    <2> QED
      BY <2>1, Zenon DEF V!LiveVoices, V!VoicesOf
  <1>8. NotTooMany' /\ StillRoom'
    BY <1>0, <1>4, <1>6, <1>7 DEF NotTooMany, StillRoom
  <1> QED
    BY <1>4, <1>8 DEF CapacityInv

\* A slug is chosen: the count and the slug are true under the lock.
LEMMA ChooseKeeps ==
    ASSUME V!SampleConstants, CapacityInv, VoiceType', AskedType', NEW q \in Requests, V!ChooseSlug(q)
    PROVE  CapacityInv'
  <1>0. VoiceType /\ AskedType /\ CapacityLocked /\ StillRoom /\ NotTooMany
    BY DEF CapacityInv
  <1>1. asked[q].pc = "create" /\ capacityLock = q /\ UNCHANGED <<voice, training, capacityLock>>
    BY <1>0 DEF V!ChooseSlug, CapacityLocked
  <1>2. PICK o \in Users : asked[q].owner = o
    BY <1>0, <1>1 DEF AskedType, Equipped
  <1>3. /\ asked'[q].pc = "insert" /\ asked'[q].owner = o /\ asked'[q].voice = V!FreeSlug(o)
        /\ \A p \in Requests \ {q} : asked'[p] = asked[p]
    BY <1>0, <1>2 DEF V!ChooseSlug, V!Become, VoiceType, Asked
  <1>4. CapacityLocked' /\ \A p \in Requests \ {q} : asked'[p].pc \notin {"create", "insert", "train", "queue"}
    BY <1>0, <1>1, <1>3 DEF CapacityLocked
  <1>5. Cardinality(V!LiveVoices(o)) < MaxVoices
    <2>1. ~(Cardinality(V!LiveVoices(o)) >= MaxVoices) \/ Cardinality(V!LiveVoices(o)) < MaxVoices
      BY <1>2, VoiceSets DEF V!ChooseSlug
    <2>2. V!LiveVoices(o) \in SUBSET Voices /\ MaxVoices \in Nat
      BY CapacityFacts
    <2>3. Cardinality(V!LiveVoices(o)) \in Nat
      BY <2>2, CapacityFacts
    <2> QED
      BY <2>1, <2>2, <2>3
  <1>6. \A v \in Voices : voice[v].owner = o => voice[v].slug # V!FreeSlug(o)
    BY SlugIsFree DEF V!VoicesOf
  <1>7. ~V!SlugTaken(q)'
    BY <1>1, <1>3, <1>6 DEF V!SlugTaken, V!VoicesOf
  <1>8. V!LiveVoices(o)' = V!LiveVoices(o) /\ Queued' = Queued /\ \A w : V!LiveVoices(w)' = V!LiveVoices(w)
    BY <1>1 DEF V!LiveVoices, V!VoicesOf, Queued
  <1>9. NotTooMany'
    BY <1>0, <1>8 DEF NotTooMany
  <1>10. StillRoom'
    BY <1>3, <1>4, <1>5, <1>7, <1>8 DEF StillRoom, V!LiveVoices, V!VoicesOf
  <1> QED
    BY <1>4, <1>9, <1>10 DEF CapacityInv

\* A training is accepted: the voice rests and the queue has room, under the lock.
LEMMA AcceptKeeps ==
    ASSUME V!SampleConstants, CapacityInv, VoiceType', AskedType', NEW q \in Requests, V!AcceptTrain(q)
    PROVE  CapacityInv'
  <1>0. VoiceType /\ AskedType /\ CapacityLocked /\ StillRoom /\ NotTooMany
    BY DEF CapacityInv
  <1>1. asked[q].pc = "train" /\ capacityLock = q /\ UNCHANGED <<voice, training, capacityLock>>
    BY <1>0 DEF V!AcceptTrain, CapacityLocked
  <1>2. /\ asked'[q].pc = "queue" /\ asked'[q].voice = asked[q].voice
        /\ \A p \in Requests \ {q} : asked'[p] = asked[p]
    BY <1>0 DEF V!AcceptTrain, V!Step, VoiceType, Asked
  <1>3. CapacityLocked' /\ \A p \in Requests \ {q} : asked'[p].pc \notin {"create", "insert", "train", "queue"}
    BY <1>0, <1>1, <1>2 DEF CapacityLocked
  <1>4. voice[asked[q].voice].status # "queued" /\ Cardinality(V!Waiting) < MaxQueued
    BY VoiceSets DEF V!AcceptTrain, V!Trainable, V!Modifiable, V!LoraActive
  <1>5. Cardinality(Queued) < MaxQueued
    <2>1. Queued \subseteq V!Waiting /\ V!Waiting \in SUBSET Trainings /\ Queued \in SUBSET Trainings
      BY DEF Queued, V!Waiting
    <2>2. /\ Cardinality(Queued) <= Cardinality(V!Waiting)
          /\ Cardinality(Queued) \in Nat /\ Cardinality(V!Waiting) \in Nat /\ MaxQueued \in Nat
      BY <2>1, CapacityFacts
    <2> QED
      BY <1>4, <2>2
  <1>6. Queued' = Queued /\ \A w : V!LiveVoices(w)' = V!LiveVoices(w)
    BY <1>1 DEF V!LiveVoices, V!VoicesOf, Queued
  <1>7. NotTooMany'
    BY <1>0, <1>6 DEF NotTooMany
  <1>8. StillRoom'
    BY <1>1, <1>2, <1>3, <1>4, <1>5, <1>6 DEF StillRoom
  <1> QED
    BY <1>3, <1>7, <1>8 DEF CapacityInv

\* Every step keeps the invariant.
LEMMA CapacityNext == ASSUME V!SampleConstants PROVE CapacityInv /\ [V!Next]_(V!vars) => CapacityInv'
  <1> SUFFICES ASSUME CapacityInv, [V!Next]_(V!vars) PROVE CapacityInv'
    OBVIOUS
  <1>1. CASE UNCHANGED V!vars
    BY <1>1 DEF V!vars, CapacityInv, VoiceType, AskedType, CapacityLocked, StillRoom, NotTooMany, Queued,
                V!LiveVoices, V!VoicesOf, V!SlugTaken
  <1>2. CASE V!Next
    <2>0. /\ VoiceType' /\ AskedType' /\ VoiceType /\ AskedType /\ CapacityLocked /\ StillRoom /\ NotTooMany
          /\ V!Idle.pc = "idle" /\ V!Idle \in Asked /\ None \notin Requests
      BY <1>2, VoiceTypeNext, EmptyRows DEF CapacityInv, V!SampleConstants
    <2>1. ASSUME CapacityLocked', UNCHANGED voice, Queued' \subseteq Queued,
                 \A q \in Requests : asked'[q].pc \in {"insert", "queue"} => asked'[q] = asked[q]
          PROVE  CapacityInv'
      BY <2>0, <2>1, NoGrowth DEF CapacityInv
    <2>2. ASSUME NEW q \in Requests, UNCHANGED <<voice, training>>, CapacityLocked',
                 asked'[q].pc \notin {"insert", "queue"}, \A p \in Requests \ {q} : asked'[p] = asked[p]
          PROVE  CapacityInv'
      <3>1. Queued' = Queued
        BY <2>2 DEF Queued
      <3> QED
        BY <2>1, <2>2, <3>1
    <2>3. CASE V!Crash
      <3>1. UNCHANGED <<voice, training>> /\ \A q \in Requests : asked'[q].pc = "idle"
        BY <2>0, <2>3 DEF V!Crash
      <3>2. CapacityLocked' /\ Queued' = Queued
        BY <3>1 DEF CapacityLocked, Queued
      <3> QED
        BY <2>1, <3>1, <3>2
    <2>4. ASSUME NEW t \in Trainings, V!Run(t) \/ V!End(t) PROVE CapacityInv'
      <3>1. UNCHANGED <<voice, asked, capacityLock>>
        BY <2>4 DEF V!Run, V!End
      <3>2. Queued' \subseteq Queued
        <4>1. PICK s \in {"running", "put back", "over"} : training' = [training EXCEPT ![t].status = s]
          BY <2>4 DEF V!Run, V!End
        <4> QED
          BY <2>0, <4>1 DEF Queued, VoiceType, TrainingRows
      <3>3. CapacityLocked'
        BY <2>0, <3>1 DEF CapacityLocked
      <3> QED
        BY <2>1, <3>1, <3>2, <3>3
    <2>5. ASSUME NEW v, NEW s \in {"training", "resting"}, voice' = [voice EXCEPT ![v].status = s], CapacityLocked',
                 Queued' \subseteq Queued, \A q \in Requests : asked'[q].pc \in {"insert", "queue"} => asked'[q] = asked[q]
          PROVE  CapacityInv'
      <3>1. \A w \in Voices : /\ voice'[w].owner = voice[w].owner /\ voice'[w].slug = voice[w].slug
                              /\ voice'[w].deleted = voice[w].deleted
                              /\ voice'[w].status = "queued" => voice[w].status = "queued"
        BY <2>0, <2>5 DEF VoiceType, VoiceRows
      <3>2. StillRoom' /\ NotTooMany'
        BY <2>0, <2>5, <3>1, NoGrowth
      <3> QED
        BY <2>0, <2>5, <3>2 DEF CapacityInv
    <2>6. ASSUME NEW v \in Voices, V!RunVoice(v) PROVE CapacityInv'
      <3>1. UNCHANGED <<training, asked, capacityLock>>
        BY <2>6 DEF V!RunVoice
      <3>2. Queued' = Queued /\ CapacityLocked'
        BY <2>0, <3>1 DEF CapacityLocked, Queued
      <3> QED
        BY <2>5, <2>6, <3>1, <3>2 DEF V!RunVoice
    <2>7. ASSUME NEW q \in Requests, NEW r \in Asked, asked' = [asked EXCEPT ![q] = r]
          PROVE  asked'[q] = r /\ \A p \in Requests \ {q} : asked'[p] = asked[p]
      BY <2>0, <2>7 DEF VoiceType
    <2>8. ASSUME NEW q \in Requests, NEW o \in Users, V!AskCreate(q, o) PROVE CapacityInv'
      <3> DEFINE r == [V!Idle EXCEPT !.pc = "create", !.owner = o]
      <3>1. r \in Asked /\ r.pc = "create"
        BY <2>0 DEF Asked
      <3>2. asked'[q].pc = "create" /\ \A p \in Requests \ {q} : asked'[p] = asked[p]
        BY <2>7, <2>8, <3>1 DEF V!AskCreate, V!Become
      <3>3. CapacityLocked'
        BY <2>0, <2>8, <3>2 DEF V!AskCreate, V!LockCapacity, CapacityLocked
      <3> QED
        BY <2>2, <2>8, <3>2, <3>3 DEF V!AskCreate
    <2>9. ASSUME NEW q \in Requests, NEW v \in Voices, V!AskTrain(q, v) PROVE CapacityInv'
      <3> DEFINE r == [V!Idle EXCEPT !.pc = "train", !.voice = v]
      <3>1. r \in Asked /\ r.pc = "train"
        BY <2>0 DEF Asked
      <3>2. asked'[q].pc = "train" /\ \A p \in Requests \ {q} : asked'[p] = asked[p]
        BY <2>7, <2>9, <3>1 DEF V!AskTrain, V!Become
      <3>3. CapacityLocked'
        BY <2>0, <2>9, <3>2 DEF V!AskTrain, V!LockCapacity, CapacityLocked
      <3> QED
        BY <2>2, <2>9, <3>2, <3>3 DEF V!AskTrain
    <2>10. ASSUME NEW q \in Requests, V!RejectCreate(q) \/ V!RejectTrain(q) PROVE CapacityInv'
      <3>1. asked'[q].pc = "idle" /\ \A p \in Requests \ {q} : asked'[p] = asked[p]
        BY <2>0, <2>7, <2>10 DEF V!RejectCreate, V!RejectTrain, V!Become
      <3>2. CapacityLocked'
        BY <2>0, <2>10, <3>1 DEF V!RejectCreate, V!RejectTrain, V!Release, CapacityLocked
      <3> QED
        BY <2>2, <2>10, <3>1, <3>2 DEF V!RejectCreate, V!RejectTrain
    <2>11. ASSUME NEW q \in Requests, V!InsertVoice(q) PROVE CapacityInv'
      BY <2>0, <2>11, InsertKeeps
    <2>12. ASSUME NEW q \in Requests, V!QueueTraining(q) PROVE CapacityInv'
      BY <2>0, <2>12, QueueKeeps
    <2>13. ASSUME NEW q \in Requests,
                  \/ \E v \in Voices : V!AskDelete(q, v)
                  \/ V!Upload(q) \/ V!FromGeneration(q) \/ V!WriteFile(q) \/ V!CommitSample(q) \/ V!AddFails(q)
                  \/ \E s \in Samples, pc \in {"patch", "drop"} : V!AskSample(q, s, pc)
                  \/ V!PatchSample(q) \/ V!DropSample(q) \/ V!UnlinkFile(q)
           PROVE  CapacityInv'
      <3>1. UNCHANGED <<voice, training, capacityLock>>
        BY <2>13, Zenon DEF V!AskDelete, V!Upload, V!FromGeneration, V!AddSample, V!WriteFile, V!CommitSample,
           V!AddFails, V!AskSample, V!PatchSample, V!DropSample, V!UnlinkFile
      <3>2. asked \in [Requests -> Asked] /\ "pc" \in DOMAIN V!Idle /\ "pc" \in DOMAIN asked[q]
        BY <2>0 DEF VoiceType, Asked
      <3>3. asked'[q].pc \in {"delete", "write", "commit", "idle", "patch", "drop", "unlink"}
        <4>1. CASE \E v \in Voices : V!AskDelete(q, v)
          BY <3>2, <4>1 DEF V!AskDelete, V!Become
        <4>2. CASE V!Upload(q) \/ V!FromGeneration(q)
          <5>1. PICK told \in BOOLEAN : V!AddSample(q, told)
            BY <4>2, Zenon DEF V!Upload, V!FromGeneration
          <5>2. PICK r : asked' = [asked EXCEPT ![q] = r] /\ r.pc = "write"
            BY <3>2, <5>1 DEF V!AddSample, V!Become
          <5> QED
            BY <3>2, <5>2
        <4>3. CASE V!WriteFile(q)
          BY <3>2, <4>3 DEF V!WriteFile, V!Step
        <4>4. CASE V!CommitSample(q) \/ V!AddFails(q) \/ V!PatchSample(q) \/ V!UnlinkFile(q)
          <5>1. asked' = [asked EXCEPT ![q] = V!Idle]
            BY <4>4, Zenon DEF V!CommitSample, V!AddFails, V!PatchSample, V!UnlinkFile, V!Become
          <5> QED
            BY <2>0, <3>2, <5>1
        <4>5. CASE \E s \in Samples, pc \in {"patch", "drop"} : V!AskSample(q, s, pc)
          BY <3>2, <4>5 DEF V!AskSample, V!Become
        <4>6. CASE V!DropSample(q)
          BY <2>0, <3>2, <4>6 DEF V!DropSample, V!Become, V!Step
        <4> QED
          BY <2>13, <4>1, <4>2, <4>3, <4>4, <4>5, <4>6, Zenon
      <3>4. \A p \in Requests \ {q} : asked'[p] = asked[p]
        BY <2>0, <2>7, <2>13, RequestSteps
      <3>5. CapacityLocked'
        BY <2>0, <3>1, <3>3, <3>4 DEF CapacityLocked
      <3> QED
        BY <2>2, <3>1, <3>3, <3>4, <3>5
    <2>14. ASSUME NEW q \in Requests, V!SoftDelete(q) PROVE CapacityInv'
      <3>1. asked'[q].pc = "idle" /\ \A p \in Requests \ {q} : asked'[p] = asked[p]
        BY <2>0, <2>7, <2>14 DEF V!SoftDelete, V!Become
      <3>2. CapacityLocked' /\ Queued' = Queued
        BY <2>0, <2>14, <3>1 DEF V!SoftDelete, CapacityLocked, Queued
      <3>3. PICK b \in BOOLEAN : b /\ voice' = [voice EXCEPT ![asked[q].voice].deleted = b]
        BY <2>14, Zenon DEF V!SoftDelete
      <3>4. \A w \in Voices : /\ voice'[w].owner = voice[w].owner /\ voice'[w].slug = voice[w].slug
                              /\ voice'[w].status = voice[w].status
                              /\ voice[w].deleted => voice'[w].deleted
        BY <2>0, <3>3 DEF VoiceType, VoiceRows
      <3>5. StillRoom' /\ NotTooMany'
        BY <2>0, <3>1, <3>2, <3>4, NoGrowth
      <3> QED
        BY <2>0, <3>2, <3>5 DEF CapacityInv
    <2>15. ASSUME NEW q \in Requests, V!Enqueue(q) PROVE CapacityInv'
      <3>1. asked'[q].pc = "idle" /\ \A p \in Requests \ {q} : asked'[p] = asked[p]
        BY <2>0, <2>7, <2>15 DEF V!Enqueue, V!Become
      <3>2. CapacityLocked'
        BY <2>0, <2>15, <3>1 DEF V!Enqueue, CapacityLocked
      <3>3. Queued' \subseteq Queued
        <4>1. training' = training \/ training' = [training EXCEPT ![asked[q].job].status = "over"]
          BY <2>15, Zenon DEF V!Enqueue
        <4>2. CASE training' = training
          BY <4>2 DEF Queued
        <4>3. ASSUME NEW t, training' = [training EXCEPT ![t].status = "over"] PROVE Queued' \subseteq Queued
          BY <2>0, <4>3 DEF Queued, VoiceType, TrainingRows
        <4> QED
          BY <4>1, <4>2, <4>3
      <3>4. voice' = voice \/ voice' = [voice EXCEPT ![asked[q].voice].status = "resting"]
        BY <2>15, Zenon DEF V!Enqueue
      <3> QED
        BY <2>1, <2>5, <3>1, <3>2, <3>3, <3>4
    <2>16. ASSUME NEW q \in Requests, V!ChooseSlug(q) PROVE CapacityInv'
      BY <2>0, <2>16, ChooseKeeps
    <2>17. ASSUME NEW q \in Requests, V!AcceptTrain(q) PROVE CapacityInv'
      BY <2>0, <2>17, AcceptKeeps
    <2> QED
      BY <1>2, <2>3, <2>4, <2>6, <2>8, <2>9, <2>10, <2>11, <2>12, <2>13, <2>14, <2>15, <2>16, <2>17, Zenon DEF V!Next
  <1> QED
    BY <1>1, <1>2

\* However requests run at once, a musician has no more voices than allowed and
\* no more trainings wait for their first start than the queue takes; a slug
\* that was chosen is still free at the insert, and a voice whose training is
\* being queued was not queued meanwhile (lock_lora_capacity).
THEOREM CapacityIsKept == ASSUME V!SampleConstants PROVE V!Spec => []V!CapacityHolds
  <1>1. CapacityInv => V!CapacityHolds
    BY VoiceSets DEF CapacityInv, NotTooMany, StillRoom, V!CapacityHolds, Queued
  <1> QED
    BY <1>1, CapacityInit, CapacityNext, PTL DEF V!Spec

-----------------------------------------------------------------------------
(***************************************************************************)
(* Scoring.                                                                *)
(***************************************************************************)

\* What the scores of take g may be: nothing, or one row of values all measured on g.
Keys == Scorers \cup {S!Verdict}
ScoreRows(g) == UNION {[K -> {g}] : K \in SUBSET Keys}
RowsOf(g) == {<<>>} \cup {<<f>> : f \in ScoreRows(g)}

\* The rows of any take.
AnyRows == UNION {RowsOf(g) : g \in Gens}

\* What the child may say.
ScoreSet == [kind : {"scores"}, of : Gens, got : SUBSET Scorers, late : BOOLEAN]

\* ... instead of scores, ...
ErrorSet == [kind : {"error"}]

\* ... while it works, ...
Progress == [kind |-> "progress"]

\* ... and what it has said that nobody has read yet.
Told == {<<>>, <<Progress>>} \cup {<<a>> : a \in ScoreSet \cup ErrorSet}
            \cup {<<Progress, a>> : a \in ScoreSet \cup ErrorSet}

\* The types of the scoring jobs.
ScoringRow ==
    [status : {"queued", "running"} \cup S!Over,
     pc : {"pick", "load", "score", "send", "poll", "scored", "merge", "finish", "end"},
     gen : Gens, try : {1, 2}, got : SUBSET Scorers, of : Gens \cup {None}, late : BOOLEAN, seen : AnyRows]
ChildRow ==
    [alive : BOOLEAN, asked : {<<>>} \cup {<<j>> : j \in Scorings}, told : Told, abandoned : BOOLEAN]
ScoringType ==
    /\ scoring \in [Scorings -> ScoringRow]
    /\ verdict \in [pc : {"idle", "merge", "end"}, gen : Gens, seen : AnyRows]
    /\ child \in ChildRow /\ tainted \in BOOLEAN
    /\ rows \in [Gens -> AnyRows] /\ transcript \in [Gens -> Gens \cup {None}]
    /\ takeLock \in [Gens -> S!Writers \cup {None}]

\* Whoever uses the pipe holds its lock.
PipeHeld == \A j \in Scorings : scoring[j].pc \in {"send", "poll"} => pipeLock = j

\* The pipe between two jobs is empty, and a live child with an abandoned scorer is known.
PipeIdle ==
    (\A j \in Scorings : scoring[j].pc # "poll") =>
        /\ child.asked = <<>> /\ child.told = <<>>
        /\ child.alive /\ child.abandoned => tainted

\* While job j waits, the child c works on its request and on no other, or is dead, or
\* has answered it.
Working(j, c) == c.alive /\ c.asked = <<j>> /\ c.told \in {<<>>, <<Progress>>} /\ ~c.abandoned
Broken(c) == ~c.alive /\ c.asked = <<>> /\ c.told \in {<<>>, <<Progress>>}
Answered(g, c) ==
    /\ c.asked = <<>>
    /\ \E a \in ScoreSet \cup ErrorSet :
        /\ c.told \in {<<a>>, <<Progress, a>>}
        /\ a.kind = "scores" => a.of = g
        /\ c.abandoned => a.kind = "scores" /\ a.late
PipeOfOne ==
    \A j \in Scorings : scoring[j].pc = "poll" =>
        Working(j, child) \/ Broken(child) \/ Answered(scoring[j].gen, child)

\* What is stored was measured on its take, and so is what a job is about to store.
ScoresTrue ==
    /\ \A g \in Gens : rows[g] \in RowsOf(g) /\ transcript[g] \in {None, g}
    /\ \A j \in Scorings : scoring[j].pc \in {"scored", "merge"} => scoring[j].of = scoring[j].gen

\* A writer between reading and writing a row has it locked, and the row is as it was read.
MergesHoldRow ==
    /\ \A j \in Scorings : scoring[j].pc = "merge" =>
          takeLock[scoring[j].gen] = j /\ scoring[j].seen = rows[scoring[j].gen]
    /\ verdict.pc = "merge" =>
          takeLock[verdict.gen] = S!Verdict /\ verdict.seen = rows[verdict.gen]

\* The inductive invariant of the scoring jobs.
PipeInv == PipeHeld /\ PipeIdle /\ PipeOfOne
ScoringInv == ScoringType /\ PipeInv /\ ScoresTrue /\ MergesHoldRow

\* The first jobs keep to the invariant.
LEMMA ScoringInit == ASSUME S!ScoringConstants PROVE S!Init => ScoringInv
  <1> SUFFICES ASSUME S!Init PROVE ScoringInv
    OBVIOUS
  <1>1. \A g \in Gens : <<>> \in RowsOf(g) /\ <<>> \in AnyRows
    BY DEF RowsOf, AnyRows
  <1>2. \A j \in Scorings : scoring[j].pc = "pick" /\ scoring[j] \in ScoringRow
    BY <1>1 DEF S!Init, ScoringRow
  <1>3. child \in ChildRow /\ child = [alive |-> FALSE, asked |-> <<>>, told |-> <<>>, abandoned |-> FALSE]
    BY DEF S!Init, S!NoChild, ChildRow, Told
  <1>4. ScoringType
    BY <1>1, <1>2, <1>3 DEF S!Init, ScoringType
  <1>5. PipeInv
    BY <1>2, <1>3 DEF PipeInv, PipeHeld, PipeIdle, PipeOfOne
  <1>6. ScoresTrue /\ MergesHoldRow
    BY <1>1, <1>2 DEF S!Init, ScoresTrue, MergesHoldRow
  <1> QED
    BY <1>4, <1>5, <1>6 DEF ScoringInv

\* What a merge makes of the row of take g: one row, of values measured on g, with every
\* key the row that was read had.
LEMMA SavedIs ==
    ASSUME NEW g \in Gens, NEW keys \in SUBSET Keys, rows[g] \in RowsOf(g)
    PROVE  LET new == S!Saved(g, rows[g], keys, [k \in keys |-> g]) IN
           /\ new \in RowsOf(g) /\ new # <<>> /\ Len(new) = 1
           /\ rows[g] # <<>> => DOMAIN rows[g][1] \subseteq DOMAIN new[1]
  <1> DEFINE values == [k \in keys |-> g]
             new == S!Saved(g, rows[g], keys, values)
  <1>1. ASSUME NEW f \in ScoreRows(g), new = <<f>>,
               rows[g] # <<>> => DOMAIN rows[g][1] \subseteq DOMAIN f
        PROVE  /\ new \in RowsOf(g) /\ new # <<>> /\ Len(new) = 1
               /\ rows[g] # <<>> => DOMAIN rows[g][1] \subseteq DOMAIN new[1]
    <2> HIDE DEF new
    <2>1. <<f>> \in RowsOf(g)
      BY DEF RowsOf
    <2>2. new[1] = f /\ Len(new) = 1 /\ new # <<>>
      BY <1>1
    <2> QED
      BY <1>1, <2>1, <2>2
  <1>2. CASE rows[g] = <<>>
    <2>1. new = <<values>>
      BY <1>2 DEF S!Saved
    <2>2. values \in ScoreRows(g)
      BY DEF ScoreRows
    <2> QED
      BY <1>1, <1>2, <2>1, <2>2
  <1>3. CASE rows[g] # <<>>
    <2>1. PICK f \in ScoreRows(g) : rows[g] = <<f>>
      BY <1>3 DEF RowsOf
    <2> DEFINE M == keys \cup (DOMAIN f \ keys)
               h == [k \in M |-> IF k \in keys THEN values[k] ELSE f[k]]
    <2>2. DOMAIN values = keys /\ rows[g][1] = f
      BY <2>1
    <2>3. new = [rows[g] EXCEPT ![1] = h]
      BY <1>3, <2>2 DEF S!Saved
    <2>4. DOMAIN f \in SUBSET Keys /\ f \in [DOMAIN f -> {g}]
      BY DEF ScoreRows
    <2>5. M \in SUBSET Keys /\ h \in [M -> {g}] /\ DOMAIN f \subseteq DOMAIN h
      BY <2>4
    <2>6. new = <<h>>
      <3> HIDE DEF h
      <3> QED
        BY <2>1, <2>3
    <2> HIDE DEF new, h, M
    <2>7. h \in ScoreRows(g)
      BY <2>5 DEF ScoreRows
    <2>8. rows[g] # <<>> => DOMAIN rows[g][1] \subseteq DOMAIN h
      BY <2>2, <2>5
    <2>9. /\ new \in RowsOf(g) /\ new # <<>> /\ Len(new) = 1
          /\ rows[g] # <<>> => DOMAIN rows[g][1] \subseteq DOMAIN new[1]
      BY <1>1, <2>6, <2>7, <2>8
    <2> QED
      BY <2>9 DEF new
  <1> QED
    BY <1>2, <1>3

\* A step of job j that leaves the pipe, the rows and their locks alone.
LEMMA JobMoves ==
    ASSUME S!ScoringConstants, ScoringInv, NEW j \in Scorings, NEW q \in ScoringRow,
           scoring' = [scoring EXCEPT ![j] = q], q.gen = scoring[j].gen,
           scoring[j].pc # "poll", q.pc \notin {"poll", "merge"},
           q.pc = "send" => pipeLock' = j,
           \A k \in Scorings : k # j /\ scoring[k].pc \in {"send", "poll"} => pipeLock' = k,
           q.pc = "scored" => q.of = q.gen,
           UNCHANGED <<verdict, child, tainted, rows, transcript, takeLock>>
    PROVE  ScoringInv'
  <1>1. \A k \in Scorings : scoring'[k] = IF k = j THEN q ELSE scoring[k]
    BY DEF ScoringInv, ScoringType
  <1>2. ScoringType'
    BY DEF ScoringInv, ScoringType
  <1>3. PipeHeld' /\ PipeOfOne' /\ PipeIdle'
    BY <1>1 DEF ScoringInv, PipeInv, PipeHeld, PipeOfOne, PipeIdle
  <1>4. ScoresTrue' /\ MergesHoldRow'
    BY <1>1 DEF ScoringInv, ScoresTrue, MergesHoldRow
  <1> QED
    BY <1>2, <1>3, <1>4 DEF ScoringInv, PipeInv

\* A step of the child, or of the job that waits for it, which goes on waiting.
LEMMA ChildMoves ==
    ASSUME S!ScoringConstants, ScoringInv, child' \in ChildRow,
           UNCHANGED <<scoring, verdict, pipeLock, tainted, rows, transcript, takeLock>>,
           PipeIdle', PipeOfOne'
    PROVE  ScoringInv'
  <1>1. ScoringType' /\ PipeHeld' /\ ScoresTrue' /\ MergesHoldRow'
    BY DEF ScoringInv, ScoringType, PipeInv, PipeHeld, ScoresTrue, MergesHoldRow
  <1> QED
    BY <1>1 DEF ScoringInv, PipeInv

\* Two jobs do not wait for the child at the same time.
LEMMA OneWaits ==
    ASSUME S!ScoringConstants, ScoringInv, NEW j \in Scorings, scoring[j].pc \in {"send", "poll"}
    PROVE  /\ pipeLock = j /\ pipeLock # None
           /\ \A k \in Scorings : k # j => scoring[k].pc \notin {"send", "poll"}
  BY DEF ScoringInv, PipeInv, PipeHeld, S!ScoringConstants, S!Writers

\* The job that waits stops waiting: it lets the pipe go, which is empty then.
LEMMA StopsWaiting ==
    ASSUME S!ScoringConstants, ScoringInv, NEW j \in Scorings, scoring[j].pc = "poll",
           NEW q \in ScoringRow, scoring' = [scoring EXCEPT ![j] = q],
           q.gen = scoring[j].gen, q.pc \in {"scored", "send", "end"},
           q.pc = "scored" => q.of = q.gen,
           q.pc = "send" => pipeLock' = j,
           child' \in ChildRow, tainted' \in BOOLEAN,
           child'.asked = <<>>, child'.told = <<>>, child'.alive /\ child'.abandoned => tainted',
           UNCHANGED <<verdict, rows, transcript, takeLock>>
    PROVE  ScoringInv'
  <1>1. \A k \in Scorings : scoring'[k] = IF k = j THEN q ELSE scoring[k]
    BY DEF ScoringInv, ScoringType
  <1>2. \A k \in Scorings : k # j => scoring[k].pc \notin {"send", "poll"}
    BY OneWaits
  <1>3. ScoringType'
    BY DEF ScoringInv, ScoringType
  <1>4. PipeHeld' /\ PipeOfOne' /\ PipeIdle'
    BY <1>1, <1>2 DEF PipeHeld, PipeOfOne, PipeIdle
  <1>5. ScoresTrue' /\ MergesHoldRow'
    BY <1>1 DEF ScoringInv, ScoresTrue, MergesHoldRow
  <1> QED
    BY <1>3, <1>4, <1>5 DEF ScoringInv, PipeInv

\* How a job ends.
LEMMA EndsAs ==
    ASSUME ScoringInv, NEW j \in Scorings, NEW status \in S!Over, S!EndAs(j, status)
    PROVE  \E q \in ScoringRow : scoring' = [scoring EXCEPT ![j] = q] /\ q.pc = "end" /\ q.gen = scoring[j].gen
  <1> DEFINE s == IF scoring[j].status \in S!Over THEN scoring[j].status ELSE status
             q == [scoring[j] EXCEPT !.pc = "end", !.status = s]
  <1>1. scoring[j] \in ScoringRow
    BY DEF ScoringInv, ScoringType
  <1>2. s \in S!Over
    OBVIOUS
  <1>3. scoring' = [scoring EXCEPT ![j] = q]
    BY DEF S!EndAs
  <1> HIDE DEF s
  <1>4. q \in ScoringRow /\ q.pc = "end" /\ q.gen = scoring[j].gen
    BY <1>1, <1>2 DEF ScoringRow
  <1> QED
    BY <1>3, <1>4

\* Where a job goes that only moves.
LEMMA MovesTo ==
    ASSUME ScoringInv, NEW j \in Scorings,
           NEW pc \in {"score", "send", "poll", "merge", "finish", "end"}, S!Move(j, pc)
    PROVE  \E q \in ScoringRow : /\ scoring' = [scoring EXCEPT ![j] = q]
                                 /\ q = [scoring[j] EXCEPT !.pc = pc]
                                 /\ q.pc = pc /\ q.gen = scoring[j].gen /\ q.of = scoring[j].of
  <1>1. scoring[j] \in ScoringRow
    BY DEF ScoringInv, ScoringType
  <1>2. scoring' = [scoring EXCEPT ![j] = [scoring[j] EXCEPT !.pc = pc]]
    BY DEF S!Move
  <1>3. [scoring[j] EXCEPT !.pc = pc] \in ScoringRow
    BY <1>1 DEF ScoringRow
  <1>4. /\ [scoring[j] EXCEPT !.pc = pc].pc = pc /\ [scoring[j] EXCEPT !.pc = pc].gen = scoring[j].gen
        /\ [scoring[j] EXCEPT !.pc = pc].of = scoring[j].of
    BY <1>1 DEF ScoringRow
  <1> QED
    BY <1>2, <1>3, <1>4

\* Before the pipe: a job that picks its row, loads its take, waits for the pipe.
LEMMA BeforePipe ==
    ASSUME S!ScoringConstants, ScoringInv, NEW j \in Scorings,
           S!Pick(j) \/ S!LoadScoringInput(j) \/ S!TakePipe(j)
    PROVE  ScoringInv'
  <1>1. scoring[j] \in ScoringRow /\ scoring[j].pc \in {"pick", "load", "score"}
    BY DEF ScoringInv, ScoringType, S!Pick, S!LoadScoringInput, S!TakePipe
  <1>2. UNCHANGED <<verdict, child, tainted, rows, transcript, takeLock>>
    BY DEF S!Pick, S!LoadScoringInput, S!TakePipe, S!childVars, S!rowVars
  <1>3. pipeLock' = pipeLock \/ pipeLock = None
    BY DEF S!Pick, S!LoadScoringInput, S!TakePipe, S!childVars, S!rowVars
  <1>4. \A k \in Scorings : k # j /\ scoring[k].pc \in {"send", "poll"} => pipeLock' = k
    BY <1>3, OneWaits
  <1>5. ASSUME NEW q \in ScoringRow, scoring' = [scoring EXCEPT ![j] = q], q.gen = scoring[j].gen,
               q.pc \in {"load", "score", "send", "end"}, q.pc = "send" => pipeLock' = j
        PROVE  ScoringInv'
    BY <1>1, <1>2, <1>4, <1>5, JobMoves
  <1>6. ASSUME NEW pc \in {"score", "end"}, S!Move(j, pc) PROVE ScoringInv'
    <2>1. PICK q \in ScoringRow : /\ scoring' = [scoring EXCEPT ![j] = q]
                                   /\ q.pc = pc /\ q.gen = scoring[j].gen
      BY <1>6, MovesTo
    <2> QED
      BY <1>5, <2>1
  <1>7. CASE S!Pick(j)
    <2>1. CASE S!Move(j, "end")
      BY <1>6, <2>1
    <2>2. CASE scoring' = [scoring EXCEPT ![j].pc = "load", ![j].status = "running"]
      <3> DEFINE q == [scoring[j] EXCEPT !.pc = "load", !.status = "running"]
      <3>1. q \in ScoringRow /\ q.gen = scoring[j].gen /\ q.pc = "load"
        BY <1>1 DEF ScoringRow
      <3>2. scoring' = [scoring EXCEPT ![j] = q]
        BY <2>2
      <3> HIDE DEF q
      <3> QED
        BY <1>5, <3>1, <3>2
    <2> QED
      BY <1>7, <2>1, <2>2 DEF S!Pick
  <1>8. CASE S!LoadScoringInput(j)
    <2>1. CASE S!Move(j, "end")
      BY <1>6, <2>1
    <2>2. CASE S!EndAs(j, "failed")
      <3>1. PICK q \in ScoringRow : scoring' = [scoring EXCEPT ![j] = q] /\ q.pc = "end" /\ q.gen = scoring[j].gen
        BY <2>2, EndsAs DEF S!Over
      <3> QED
        BY <1>5, <3>1
    <2>3. CASE S!Move(j, "score")
      BY <1>6, <2>3
    <2> QED
      BY <1>8, <2>1, <2>2, <2>3 DEF S!LoadScoringInput
  <1>9. CASE S!TakePipe(j)
    <2>1. CASE S!Move(j, "end")
      BY <1>6, <2>1
    <2>2. CASE pipeLock' = j /\ scoring' = [scoring EXCEPT ![j].pc = "send", ![j].try = 1]
      <3> DEFINE q == [scoring[j] EXCEPT !.pc = "send", !.try = 1]
      <3>1. q \in ScoringRow /\ q.gen = scoring[j].gen /\ q.pc = "send"
        BY <1>1 DEF ScoringRow
      <3>2. scoring' = [scoring EXCEPT ![j] = q]
        BY <2>2
      <3> QED
        BY <1>5, <2>2, <3>1, <3>2
    <2> QED
      BY <1>9, <2>1, <2>2 DEF S!TakePipe
  <1> QED
    BY <1>7, <1>8, <1>9

\* A request goes into an empty pipe, to a child in which nothing is left running.
LEMMA SendKeeps ==
    ASSUME S!ScoringConstants, ScoringInv, NEW j \in Scorings, S!SendRequest(j)
    PROVE  ScoringInv'
  <1>1. scoring[j].pc = "send" /\ \A k \in Scorings : scoring[k].pc # "poll"
    BY OneWaits DEF S!SendRequest
  <1>2. child.asked = <<>> /\ child.told = <<>> /\ (child.alive /\ child.abandoned => tainted)
    BY <1>1 DEF ScoringInv, PipeInv, PipeIdle
  <1>3. child \in ChildRow /\ tainted \in BOOLEAN
    BY DEF ScoringInv, ScoringType
  <1> DEFINE c == S!EnsureStarted
  <1>4. c \in ChildRow /\ c.alive /\ ~c.abandoned /\ c.asked = <<>> /\ c.told = <<>>
    <2>1. CASE child.alive /\ ~tainted
      BY <1>2, <1>3, <2>1 DEF S!EnsureStarted
    <2>2. CASE ~(child.alive /\ ~tainted)
      <3>1. c = [alive |-> TRUE, asked |-> <<>>, told |-> <<>>, abandoned |-> FALSE]
        BY <2>2 DEF S!EnsureStarted, S!FreshChild, S!NoChild
      <3> QED
        BY <3>1 DEF ChildRow, Told
    <2> QED
      BY <2>1, <2>2
  <1>5. PICK b \in BOOLEAN : tainted' = b
    <2>1. \E b \in BOOLEAN : b = (c = child /\ tainted)
      BY <1>3, Zenon
    <2> QED
      BY <2>1, Zenon DEF S!SendRequest
  <1>6. PICK q \in ScoringRow : scoring' = [scoring EXCEPT ![j] = q] /\ q.pc = "poll" /\ q.gen = scoring[j].gen
    BY MovesTo DEF S!SendRequest
  <1>7. /\ child' = [c EXCEPT !.asked = Append(@, j)]
        /\ UNCHANGED <<pipeLock, verdict, rows, transcript, takeLock>>
    BY DEF S!SendRequest, S!rowVars
  <1> HIDE DEF c
  <1>8. child' \in ChildRow /\ Working(j, child')
    BY <1>4, <1>7 DEF ChildRow, Told, Working
  <1>9. \A k \in Scorings : scoring'[k] = IF k = j THEN q ELSE scoring[k]
    BY <1>6 DEF ScoringInv, ScoringType
  <1>10. ScoringType'
    BY <1>5, <1>6, <1>7, <1>8 DEF ScoringInv, ScoringType
  <1>11. PipeHeld' /\ PipeIdle'
    BY <1>1, <1>6, <1>7, <1>9 DEF ScoringInv, PipeInv, PipeHeld, PipeIdle
  <1>12. PipeOfOne'
    BY <1>1, <1>6, <1>8, <1>9 DEF PipeOfOne
  <1>13. ScoresTrue' /\ MergesHoldRow'
    BY <1>6, <1>7, <1>9 DEF ScoringInv, ScoresTrue, MergesHoldRow
  <1> QED
    BY <1>10, <1>11, <1>12, <1>13 DEF ScoringInv, PipeInv

\* A message behind another one.
LEMMA TwoMessages == ASSUME NEW p, NEW a PROVE Append(<<p>>, a) = <<p, a>>
  <1> DEFINE s == Append(<<p>>, a)
             t == <<p, a>>
  <1>1. s \in Seq({p, a}) /\ t \in Seq({p, a}) /\ Len(s) = 2 /\ Len(t) = 2
    OBVIOUS
  <1>2. s[1] = t[1] /\ s[2] = t[2]
    OBVIOUS
  <1> HIDE DEF s, t
  <1>3. \A i \in 1..Len(s) : s[i] = t[i]
    BY <1>1, <1>2
  <1>4. s = t
    BY <1>1, <1>3, SeqEqual
  <1> QED
    BY <1>4 DEF s, t

\* What the pipe holds, message by message.
LEMMA ToldIs ==
    ASSUME ScoringInv
    PROVE  /\ child \in ChildRow /\ child.told \in Told
           /\ child.told # <<>> =>
                \/ child.told = <<Progress>>
                \/ \E a \in ScoreSet \cup ErrorSet : child.told \in {<<a>>, <<Progress, a>>}
  <1>1. child \in ChildRow
    BY DEF ScoringInv, ScoringType
  <1>2. child.told \in Told
    BY <1>1 DEF ChildRow
  <1> QED
    BY <1>1, <1>2 DEF Told

\* While a request is in the pipe its job waits and the child works on it.
LEMMA Asked1 ==
    ASSUME S!ScoringConstants, ScoringInv, child.asked # <<>>
    PROVE  \E j \in Scorings :
              /\ scoring[j].pc = "poll" /\ Working(j, child)
              /\ \A k \in Scorings : k # j => scoring[k].pc # "poll"
  <1>1. PICK j \in Scorings : scoring[j].pc = "poll"
    BY DEF ScoringInv, PipeInv, PipeIdle
  <1>2. Working(j, child)
    BY <1>1 DEF ScoringInv, PipeInv, PipeOfOne, Broken, Answered
  <1> QED
    BY <1>1, <1>2, OneWaits

\* The child reports progress, answers or dies.
LEMMA ChildKeeps ==
    ASSUME S!ScoringConstants, ScoringInv, S!ChildProgress \/ S!ChildAnswer \/ S!ChildDies
    PROVE  ScoringInv'
  <1>1. child \in ChildRow
    BY ToldIs
  <1>2. UNCHANGED <<scoring, verdict, pipeLock, tainted, rows, transcript, takeLock>>
    BY DEF S!ChildProgress, S!ChildAnswer, S!ChildDies, S!rowVars
  <1>3. CASE S!ChildProgress
    <2>1. PICK j \in Scorings : /\ scoring[j].pc = "poll" /\ Working(j, child)
                                /\ \A k \in Scorings : k # j => scoring[k].pc # "poll"
      BY <1>3, Asked1 DEF S!ChildProgress
    <2>2. child' = [child EXCEPT !.told = <<Progress>>]
      BY <1>3 DEF S!ChildProgress, Progress
    <2>3. child' \in ChildRow /\ Working(j, child')
      BY <1>1, <2>1, <2>2 DEF ChildRow, Told, Working
    <2>4. PipeIdle' /\ PipeOfOne'
      BY <1>2, <2>1, <2>3 DEF PipeIdle, PipeOfOne
    <2> QED
      BY <1>2, <2>3, <2>4, ChildMoves
  <1>4. CASE S!ChildAnswer
    <2>1. PICK j \in Scorings : /\ scoring[j].pc = "poll" /\ Working(j, child)
                                /\ \A k \in Scorings : k # j => scoring[k].pc # "poll"
      BY <1>4, Asked1 DEF S!ChildAnswer
    <2>2. child.asked = <<j>> /\ child.told \in {<<>>, <<Progress>>} /\ ~child.abandoned
      BY <2>1 DEF Working
    <2>3. PICK a \in S!Answers(j) :
            child' = [child EXCEPT !.asked = Tail(@), !.told = Append(@, a),
                                   !.abandoned = @ \/ (a.kind = "scores" /\ a.late)]
      <3>1. Head(child.asked) = j
        BY <2>2
      <3> QED
        BY <1>4, <3>1, Zenon DEF S!ChildAnswer
    <2>4. /\ a \in ScoreSet \cup ErrorSet
          /\ a.kind = "scores" => a.of = scoring[j].gen
      <3>1. scoring[j].gen \in Gens
        BY DEF ScoringInv, ScoringType, ScoringRow
      <3>2. CASE a = [kind |-> "error"]
        BY <3>2 DEF ErrorSet
      <3>3. CASE a # [kind |-> "error"]
        <4>1. PICK o \in S!ScorerRuns :
                a = [kind |-> "scores", of |-> scoring[j].gen, got |-> {s \in Scorers : o[s] = "value"},
                     late |-> \E s \in Scorers : o[s] = "abandoned"]
          BY <2>3, <3>3 DEF S!Answers
        <4>2. PICK b \in BOOLEAN : b = \E s \in Scorers : o[s] = "abandoned"
          BY Zenon
        <4>3. a = [kind |-> "scores", of |-> scoring[j].gen, got |-> {s \in Scorers : o[s] = "value"},
                   late |-> b]
          BY <4>1, <4>2, Zenon
        <4> QED
          BY <3>1, <4>3 DEF ScoreSet
      <3> QED
        BY <3>2, <3>3
    <2>5. PICK b \in BOOLEAN : b = (child.abandoned \/ (a.kind = "scores" /\ a.late))
      BY Zenon
    <2>6. child' = [child EXCEPT !.asked = Tail(@), !.told = Append(@, a), !.abandoned = b]
      BY <2>3, <2>5, Zenon
    <2>7. b => a.kind = "scores" /\ a.late
      BY <2>2, <2>5, Zenon
    <2>8. /\ Append(child.told, a) \in {<<a>>, <<Progress, a>>} /\ Tail(child.asked) = <<>>
      <3>1. Append(<<>>, a) = <<a>> /\ Append(<<Progress>>, a) = <<Progress, a>> /\ Tail(<<j>>) = <<>>
        BY TwoMessages
      <3> QED
        BY <2>2, <3>1
    <2>9. Append(child.told, a) \in Told
      BY <2>4, <2>8 DEF Told
    <2>10. child' = [alive |-> child.alive, asked |-> <<>>, told |-> Append(child.told, a), abandoned |-> b]
      BY <1>1, <2>6, <2>8 DEF ChildRow
    <2>11. child' \in ChildRow
      BY <1>1, <2>9, <2>10 DEF ChildRow
    <2>12. Answered(scoring[j].gen, child')
      <3>1. child'.asked = <<>> /\ child'.told \in {<<a>>, <<Progress, a>>} /\ child'.abandoned = b
        BY <2>8, <2>10
      <3> QED
        BY <2>4, <2>7, <3>1 DEF Answered
    <2>13. PipeIdle' /\ PipeOfOne'
      BY <1>2, <2>1, <2>12 DEF PipeIdle, PipeOfOne
    <2> QED
      BY <1>2, <2>11, <2>13, ChildMoves
  <1>5. CASE S!ChildDies
    <2>1. child' = [child EXCEPT !.alive = FALSE, !.asked = <<>>]
      BY <1>5 DEF S!ChildDies
    <2>2. /\ child' \in ChildRow /\ ~child'.alive /\ child'.asked = <<>>
          /\ child'.told = child.told /\ child'.abandoned = child.abandoned
      BY <1>1, <2>1 DEF ChildRow
    <2>3. PipeIdle'
      BY <1>2, <2>2 DEF ScoringInv, PipeInv, PipeIdle
    <2>4. PipeOfOne'
      <3> SUFFICES ASSUME NEW j \in Scorings, scoring[j].pc = "poll"
                   PROVE  Broken(child') \/ Answered(scoring[j].gen, child')
        BY <1>2 DEF PipeOfOne
      <3>1. CASE Working(j, child) \/ Broken(child)
        BY <2>2, <3>1 DEF Working, Broken
      <3>2. CASE Answered(scoring[j].gen, child)
        BY <2>2, <3>2 DEF Answered
      <3> QED
        BY <3>1, <3>2 DEF ScoringInv, PipeInv, PipeOfOne
    <2> QED
      BY <1>2, <2>2, <2>3, <2>4, ChildMoves
  <1> QED
    BY <1>3, <1>4, <1>5

\* What the job that waits hears: progress and goes on waiting, or the answer to its own
\* request, with which the pipe is empty.
LEMMA HeardIs ==
    ASSUME S!ScoringConstants, ScoringInv, NEW j \in Scorings, scoring[j].pc = "poll", child.told # <<>>
    PROVE  \/ /\ Head(child.told) = Progress /\ Tail(child.told) = <<>>
              /\ Working(j, child) \/ Broken(child)
           \/ /\ Head(child.told) = Progress /\ child.asked = <<>>
              /\ \E a \in ScoreSet \cup ErrorSet :
                    /\ Tail(child.told) = <<a>>
                    /\ a.kind = "scores" => a.of = scoring[j].gen
                    /\ child.abandoned => a.kind = "scores" /\ a.late
           \/ /\ Tail(child.told) = <<>> /\ child.asked = <<>>
              /\ \E a \in ScoreSet \cup ErrorSet :
                    /\ Head(child.told) = a
                    /\ a.kind = "scores" => a.of = scoring[j].gen
                    /\ child.abandoned => a.kind = "scores" /\ a.late
  <1>1. Working(j, child) \/ Broken(child) \/ Answered(scoring[j].gen, child)
    BY DEF ScoringInv, PipeInv, PipeOfOne
  <1>2. CASE Working(j, child) \/ Broken(child)
    <2>1. child.told = <<Progress>>
      BY <1>2 DEF Working, Broken
    <2> QED
      BY <1>2, <2>1
  <1>3. CASE Answered(scoring[j].gen, child)
    <2>1. PICK a \in ScoreSet \cup ErrorSet :
            /\ child.told \in {<<a>>, <<Progress, a>>}
            /\ a.kind = "scores" => a.of = scoring[j].gen
            /\ child.abandoned => a.kind = "scores" /\ a.late
      BY <1>3 DEF Answered
    <2>2. child.asked = <<>>
      BY <1>3 DEF Answered
    <2>3. CASE child.told = <<a>>
      <3>1. Head(child.told) = a /\ Tail(child.told) = <<>>
        BY <2>3
      <3> QED
        BY <2>1, <2>2, <3>1
    <2>4. CASE child.told = <<Progress, a>>
      <3>1. Head(child.told) = Progress /\ Tail(child.told) = <<a>>
        BY <2>4
      <3> QED
        BY <2>1, <2>2, <3>1
    <2> QED
      BY <2>1, <2>3, <2>4
  <1> QED
    BY <1>1, <1>2, <1>3

\* The job hears of progress and goes on waiting.
LEMMA ProgressKeeps ==
    ASSUME S!ScoringConstants, ScoringInv, NEW j \in Scorings, S!PollProgress(j)
    PROVE  ScoringInv'
  <1>1. scoring[j].pc = "poll" /\ child.told # <<>> /\ Head(child.told).kind = "progress"
    BY DEF S!PollProgress, S!Hears
  <1>2. /\ child' = [child EXCEPT !.told = Tail(@)]
        /\ UNCHANGED <<scoring, verdict, pipeLock, tainted, rows, transcript, takeLock>>
    BY DEF S!PollProgress, S!rowVars
  <1>3. child \in ChildRow
    BY ToldIs
  <1>4. /\ child'.alive = child.alive /\ child'.asked = child.asked /\ child'.abandoned = child.abandoned
        /\ child'.told = Tail(child.told)
        /\ Tail(child.told) \in Told => child' \in ChildRow
    BY <1>2, <1>3 DEF ChildRow
  <1>5. \A k \in Scorings : k # j => scoring[k].pc # "poll"
    BY <1>1, OneWaits
  <1>6. \A a \in ScoreSet \cup ErrorSet : a.kind # "progress"
    BY DEF ScoreSet, ErrorSet
  <1>7. \/ Tail(child.told) = <<>> /\ (Working(j, child) \/ Broken(child))
        \/ /\ child.asked = <<>>
           /\ \E a \in ScoreSet \cup ErrorSet :
                 /\ Tail(child.told) = <<a>>
                 /\ a.kind = "scores" => a.of = scoring[j].gen
                 /\ child.abandoned => a.kind = "scores" /\ a.late
    BY <1>1, <1>6, HeardIs
  <1>8. child' \in ChildRow /\ (Working(j, child') \/ Broken(child') \/ Answered(scoring[j].gen, child'))
    <2>1. CASE Tail(child.told) = <<>> /\ (Working(j, child) \/ Broken(child))
      BY <1>4, <2>1 DEF Working, Broken, Told
    <2>2. CASE /\ child.asked = <<>>
               /\ \E a \in ScoreSet \cup ErrorSet :
                    /\ Tail(child.told) = <<a>>
                    /\ a.kind = "scores" => a.of = scoring[j].gen
                    /\ child.abandoned => a.kind = "scores" /\ a.late
      <3>1. PICK a \in ScoreSet \cup ErrorSet :
              /\ Tail(child.told) = <<a>>
              /\ a.kind = "scores" => a.of = scoring[j].gen
              /\ child.abandoned => a.kind = "scores" /\ a.late
        BY <2>2
      <3>2. <<a>> \in Told /\ <<a>> \in {<<a>>, <<Progress, a>>}
        BY DEF Told
      <3> QED
        BY <1>4, <2>2, <3>1, <3>2 DEF Answered
    <2> QED
      BY <1>7, <2>1, <2>2
  <1>9. PipeIdle' /\ PipeOfOne'
    BY <1>1, <1>2, <1>5, <1>8 DEF PipeIdle, PipeOfOne
  <1> QED
    BY <1>2, <1>8, <1>9, ChildMoves

\* The job hears its answer, or that there will be none.
LEMMA AnswerKeeps ==
    ASSUME S!ScoringConstants, ScoringInv, NEW j \in Scorings,
           S!PollScores(j) \/ S!PollError(j) \/ S!PollBroken(j) \/ S!PollTimeout(j)
    PROVE  ScoringInv'
  <1>1. scoring[j].pc = "poll" /\ scoring[j] \in ScoringRow
    BY DEF S!PollScores, S!PollError, S!PollBroken, S!PollTimeout, S!Hears, ScoringInv, ScoringType
  <1>2. UNCHANGED <<verdict, rows, transcript, takeLock>>
    BY DEF S!PollScores, S!PollError, S!PollBroken, S!PollTimeout, S!rowVars
  <1>3. child \in ChildRow /\ tainted \in BOOLEAN
    BY DEF ScoringInv, ScoringType
  <1>4. ASSUME NEW c \in ChildRow, NEW b \in BOOLEAN, child' = c, tainted' = b,
               c.asked = <<>>, c.told = <<>>, c.alive /\ c.abandoned => b,
               NEW q \in ScoringRow, scoring' = [scoring EXCEPT ![j] = q],
               q.gen = scoring[j].gen, q.pc \in {"scored", "send", "end"},
               q.pc = "scored" => q.of = q.gen,
               q.pc = "send" => pipeLock' = j
        PROVE  ScoringInv'
    BY <1>1, <1>2, <1>4, StopsWaiting
  <1>5. /\ S!NoChild \in ChildRow
        /\ S!NoChild.asked = <<>> /\ S!NoChild.told = <<>> /\ ~S!NoChild.alive
    BY DEF S!NoChild, ChildRow, Told
  <1>6. \* The answer is the last message of the pipe.
        ASSUME child.told # <<>>, Head(child.told).kind # "progress", child' = [child EXCEPT !.told = Tail(@)]
        PROVE  /\ Head(child.told) \in ScoreSet \cup ErrorSet
               /\ Head(child.told).kind = "scores" => Head(child.told).of = scoring[j].gen
               /\ child' \in ChildRow /\ child'.asked = <<>> /\ child'.told = <<>>
               /\ child'.abandoned => Head(child.told).kind = "scores" /\ Head(child.told).late
    <2>1. Progress.kind = "progress"
      BY DEF Progress
    <2>2. /\ Tail(child.told) = <<>> /\ child.asked = <<>>
          /\ \E a \in ScoreSet \cup ErrorSet :
                /\ Head(child.told) = a
                /\ a.kind = "scores" => a.of = scoring[j].gen
                /\ child.abandoned => a.kind = "scores" /\ a.late
      BY <1>1, <1>6, <2>1, HeardIs
    <2>3. /\ child' \in ChildRow /\ child'.asked = <<>> /\ child'.told = <<>>
          /\ child'.abandoned = child.abandoned
      BY <1>3, <1>6, <2>2 DEF ChildRow, Told
    <2> QED
      BY <2>2, <2>3
  <1>7. CASE S!PollScores(j)
    <2> DEFINE a == Head(child.told)
    <2>1. /\ child.told # <<>> /\ a.kind = "scores" /\ child' = [child EXCEPT !.told = Tail(@)]
          /\ scoring' = [scoring EXCEPT ![j].pc = "scored", ![j].got = a.got, ![j].of = a.of, ![j].late = a.late]
          /\ tainted' = a.late
      BY <1>7 DEF S!PollScores, S!Hears
    <2>2. /\ a \in ScoreSet \cup ErrorSet /\ a.of = scoring[j].gen
          /\ child' \in ChildRow /\ child'.asked = <<>> /\ child'.told = <<>>
          /\ child'.abandoned => a.late
      BY <1>6, <2>1
    <2> HIDE DEF a
    <2>3. a \in ScoreSet
      BY <2>1, <2>2 DEF ErrorSet
    <2> DEFINE q == [scoring[j] EXCEPT !.pc = "scored", !.got = a.got, !.of = a.of, !.late = a.late]
    <2>4. q \in ScoringRow /\ q.gen = scoring[j].gen /\ q.pc = "scored" /\ q.of = q.gen
      BY <1>1, <2>2, <2>3 DEF ScoringRow, ScoreSet
    <2>5. scoring' = [scoring EXCEPT ![j] = q] /\ a.late \in BOOLEAN
      BY <2>1, <2>3 DEF ScoreSet
    <2> HIDE DEF q
    <2> QED
      BY <1>4, <2>1, <2>2, <2>4, <2>5
  <1>8. CASE S!PollError(j)
    <2>1. /\ child.told # <<>> /\ Head(child.told).kind = "error" /\ child' = [child EXCEPT !.told = Tail(@)]
          /\ S!EndAs(j, "failed") /\ tainted' = tainted
      BY <1>8 DEF S!PollError, S!Hears
    <2>2. child' \in ChildRow /\ child'.asked = <<>> /\ child'.told = <<>> /\ ~child'.abandoned
      BY <1>6, <2>1
    <2>3. PICK q \in ScoringRow : scoring' = [scoring EXCEPT ![j] = q] /\ q.pc = "end" /\ q.gen = scoring[j].gen
      BY <2>1, EndsAs DEF S!Over
    <2> QED
      BY <1>3, <1>4, <2>1, <2>2, <2>3
  <1>9. CASE S!PollBroken(j)
    <2>1. child' = S!NoChild /\ tainted' = tainted
      BY <1>9 DEF S!PollBroken
    <2>2. CASE scoring' = [scoring EXCEPT ![j].pc = "send", ![j].try = 2] /\ UNCHANGED pipeLock
      <3> DEFINE q == [scoring[j] EXCEPT !.pc = "send", !.try = 2]
      <3>1. q \in ScoringRow /\ q.gen = scoring[j].gen /\ q.pc = "send"
        BY <1>1 DEF ScoringRow
      <3>2. scoring' = [scoring EXCEPT ![j] = q] /\ pipeLock' = j
        BY <1>1, <2>2, OneWaits
      <3> HIDE DEF q
      <3> QED
        BY <1>3, <1>4, <1>5, <2>1, <3>1, <3>2
    <2>3. CASE S!EndAs(j, "failed")
      <3>1. PICK q \in ScoringRow : scoring' = [scoring EXCEPT ![j] = q] /\ q.pc = "end" /\ q.gen = scoring[j].gen
        BY <2>3, EndsAs DEF S!Over
      <3> QED
        BY <1>3, <1>4, <1>5, <2>1, <3>1
    <2> QED
      BY <1>9, <2>2, <2>3 DEF S!PollBroken
  <1>10. CASE S!PollTimeout(j)
    <2>1. child' = S!NoChild /\ tainted' = tainted /\ S!EndAs(j, "failed")
      BY <1>10 DEF S!PollTimeout
    <2>2. PICK q \in ScoringRow : scoring' = [scoring EXCEPT ![j] = q] /\ q.pc = "end" /\ q.gen = scoring[j].gen
      BY <2>1, EndsAs DEF S!Over
    <2> QED
      BY <1>3, <1>4, <1>5, <2>1, <2>2
  <1> QED
    BY <1>7, <1>8, <1>9, <1>10

\* Two writers do not have a row at the same time.
LEMMA RowOfOne ==
    ASSUME S!ScoringConstants, ScoringInv, NEW j \in Scorings, scoring[j].pc = "merge"
    PROVE  /\ \A k \in Scorings : k # j /\ scoring[k].pc = "merge" => scoring[k].gen # scoring[j].gen
           /\ verdict.pc = "merge" => verdict.gen # scoring[j].gen
  BY DEF ScoringInv, MergesHoldRow, S!ScoringConstants, S!Writers

\* A job locks its take's row and reads it, writes it, or ends.
LEMMA JobWrites ==
    ASSUME S!ScoringConstants, ScoringInv, NEW j \in Scorings,
           S!LockForScores(j) \/ S!PersistScores(j) \/ S!FinishScoring(j)
    PROVE  ScoringInv'
  <1>1. scoring[j] \in ScoringRow
    BY DEF ScoringInv, ScoringType
  <1>2. CASE S!LockForScores(j)
    <2>1. scoring[j].pc = "scored" /\ UNCHANGED <<pipeLock, child, tainted, verdict, rows, transcript>>
      BY <1>2 DEF S!LockForScores, S!childVars
    <2>2. CASE S!Move(j, "end") /\ UNCHANGED takeLock
      <3>1. PICK q \in ScoringRow : scoring' = [scoring EXCEPT ![j] = q] /\ q.pc = "end" /\ q.gen = scoring[j].gen
        BY <2>2, MovesTo
      <3> QED
        BY <2>1, <2>2, <3>1, OneWaits, JobMoves
    <2>3. CASE /\ S!LockGeneration(scoring[j].gen, j)
               /\ scoring' = [scoring EXCEPT ![j].pc = "merge", ![j].seen = rows[scoring[j].gen]]
      <3> DEFINE g == scoring[j].gen
                 q == [scoring[j] EXCEPT !.pc = "merge", !.seen = rows[g]]
      <3>1. g \in Gens /\ rows[g] \in AnyRows
        BY <1>1 DEF ScoringRow, ScoringInv, ScoringType
      <3>2. q \in ScoringRow /\ q.gen = g /\ q.pc = "merge" /\ q.seen = rows[g] /\ q.of = scoring[j].of
        BY <1>1, <3>1 DEF ScoringRow
      <3>3. scoring' = [scoring EXCEPT ![j] = q]
        BY <2>3
      <3>4. takeLock[g] = None /\ takeLock' = [takeLock EXCEPT ![g] = j]
        BY <2>3 DEF S!LockGeneration
      <3> HIDE DEF q
      <3>5. \A k \in Scorings : scoring'[k] = IF k = j THEN q ELSE scoring[k]
        BY <3>3 DEF ScoringInv, ScoringType
      <3>6. ScoringType'
        BY <2>1, <3>2, <3>3, <3>4 DEF ScoringInv, ScoringType, S!Writers
      <3>7. PipeInv'
        BY <2>1, <3>2, <3>5 DEF ScoringInv, PipeInv, PipeHeld, PipeIdle, PipeOfOne
      <3>8. ScoresTrue'
        BY <2>1, <3>2, <3>5 DEF ScoringInv, ScoresTrue
      <3>9. MergesHoldRow'
        <4>1. \A h \in Gens : takeLock'[h] = IF h = g THEN j ELSE takeLock[h]
          BY <3>4 DEF ScoringInv, ScoringType
        <4>2. \A k \in Scorings : scoring[k].gen \in Gens
          BY DEF ScoringInv, ScoringType, ScoringRow
        <4>3. verdict.gen \in Gens
          BY DEF ScoringInv, ScoringType
        <4>4. None \notin Scorings
          BY DEF S!ScoringConstants, S!Writers
        <4>5. \A k \in Scorings : scoring[k].pc = "merge" => scoring[k].gen # g
          BY <3>4, <4>4 DEF ScoringInv, MergesHoldRow
        <4>6. verdict.pc = "merge" => verdict.gen # g
          BY <3>4, <4>4 DEF ScoringInv, MergesHoldRow, S!ScoringConstants, S!Writers
        <4> QED
          BY <2>1, <3>1, <3>2, <3>5, <4>1, <4>2, <4>3, <4>5, <4>6 DEF ScoringInv, MergesHoldRow
      <3> QED
        BY <3>6, <3>7, <3>8, <3>9 DEF ScoringInv
    <2> QED
      BY <1>2, <2>2, <2>3 DEF S!LockForScores
  <1>3. CASE S!PersistScores(j)
    <2> DEFINE g == scoring[j].gen
    <2>1. /\ scoring[j].pc = "merge" /\ g \in Gens /\ scoring[j].got \in SUBSET Keys
          /\ UNCHANGED <<pipeLock, child, tainted, verdict>>
          /\ takeLock' = [takeLock EXCEPT ![g] = None]
      BY <1>1, <1>3 DEF S!PersistScores, S!childVars, S!Unlock, ScoringRow, Keys
    <2>2. scoring[j].seen = rows[g] /\ scoring[j].of = g /\ rows[g] \in RowsOf(g)
      BY <2>1 DEF ScoringInv, MergesHoldRow, ScoresTrue
    <2>3. /\ rows' \in [Gens -> AnyRows] /\ rows'[g] \in RowsOf(g)
          /\ \A h \in Gens : h # g => rows'[h] = rows[h]
      <3>1. CASE rows' = [rows EXCEPT ![g] = S!Saved(g, rows[g], scoring[j].got, [k \in scoring[j].got |-> g])]
        <4> DEFINE new == S!Saved(g, rows[g], scoring[j].got, [k \in scoring[j].got |-> g])
        <4>1. new \in RowsOf(g)
          BY <2>1, <2>2, SavedIs
        <4> HIDE DEF new
        <4>2. new \in AnyRows
          BY <2>1, <4>1 DEF AnyRows
        <4>3. rows' = [rows EXCEPT ![g] = new] /\ rows \in [Gens -> AnyRows]
          BY <3>1 DEF new, ScoringInv, ScoringType
        <4> HIDE DEF g
        <4> QED
          BY <2>1, <4>1, <4>2, <4>3
      <3>2. CASE rows' = rows
        BY <2>2, <3>2 DEF ScoringInv, ScoringType
      <3> QED
        BY <1>3, <2>2, <3>1, <3>2 DEF S!PersistScores
    <2>4. /\ transcript' \in [Gens -> Gens \cup {None}] /\ transcript'[g] \in {None, g}
          /\ \A h \in Gens : h # g => transcript'[h] = transcript[h]
      <3>1. transcript' = transcript \/ transcript' = [transcript EXCEPT ![g] = g]
        BY <1>3, <2>2 DEF S!PersistScores
      <3>2. transcript \in [Gens -> Gens \cup {None}] /\ transcript[g] \in {None, g}
        BY <2>1 DEF ScoringInv, ScoringType, ScoresTrue
      <3> HIDE DEF g
      <3> QED
        BY <2>1, <3>1, <3>2
    <2>5. PICK q \in ScoringRow : /\ scoring' = [scoring EXCEPT ![j] = q]
                                  /\ q.pc \in {"finish", "end"} /\ q.gen = g
      <3>1. CASE S!Move(j, "finish")
        BY <3>1, MovesTo
      <3>2. CASE S!EndAs(j, "failed")
        BY <3>2, EndsAs DEF S!Over
      <3> QED
        BY <1>3, <3>1, <3>2 DEF S!PersistScores
    <2>6. \A k \in Scorings : scoring'[k] = IF k = j THEN q ELSE scoring[k]
      BY <2>5 DEF ScoringInv, ScoringType
    <2>7. ScoringType'
      BY <2>1, <2>3, <2>4, <2>5 DEF ScoringInv, ScoringType
    <2>8. PipeInv'
      BY <2>1, <2>5, <2>6 DEF ScoringInv, PipeInv, PipeHeld, PipeIdle, PipeOfOne
    <2>9. ScoresTrue'
      BY <2>3, <2>4, <2>5, <2>6 DEF ScoringInv, ScoresTrue
    <2>10. MergesHoldRow'
      <3>1. \A h \in Gens : h # g => takeLock'[h] = takeLock[h] /\ rows'[h] = rows[h]
        BY <2>1, <2>3 DEF ScoringInv, ScoringType
      <3>2. verdict.gen \in Gens /\ \A k \in Scorings : scoring[k].gen \in Gens
        BY DEF ScoringInv, ScoringType, ScoringRow
      <3>3. /\ \A k \in Scorings : k # j /\ scoring[k].pc = "merge" => scoring[k].gen # g
            /\ verdict.pc = "merge" => verdict.gen # g
        BY <2>1, RowOfOne
      <3> HIDE DEF g
      <3> QED
        BY <2>1, <2>5, <2>6, <3>1, <3>2, <3>3 DEF ScoringInv, MergesHoldRow
    <2> QED
      BY <2>7, <2>8, <2>9, <2>10 DEF ScoringInv
  <1>4. CASE S!FinishScoring(j)
    <2>1. /\ scoring[j].pc = "finish" /\ UNCHANGED <<pipeLock, tainted, verdict, rows, transcript, takeLock>>
          /\ (pipeLock = None /\ child' = S!NoChild) \/ child' = child
      BY <1>4 DEF S!FinishScoring, S!rowVars
    <2>2. PICK q \in ScoringRow : scoring' = [scoring EXCEPT ![j] = q] /\ q.pc = "end" /\ q.gen = scoring[j].gen
      BY <1>4, EndsAs DEF S!FinishScoring, S!Over
    <2>3. CASE child' = child
      BY <2>1, <2>2, <2>3, OneWaits, JobMoves
    <2>4. CASE pipeLock = None /\ child' = S!NoChild
      <3>1. \A k \in Scorings : scoring[k].pc \notin {"send", "poll"}
        BY <2>4, OneWaits
      <3>2. child' \in ChildRow /\ child'.asked = <<>> /\ child'.told = <<>> /\ ~child'.alive
        BY <2>4 DEF S!NoChild, ChildRow, Told
      <3>3. \A k \in Scorings : scoring'[k] = IF k = j THEN q ELSE scoring[k]
        BY <2>2 DEF ScoringInv, ScoringType
      <3>4. ScoringType'
        BY <2>1, <2>2, <3>2 DEF ScoringInv, ScoringType
      <3>5. PipeInv'
        BY <2>1, <2>2, <3>1, <3>2, <3>3 DEF PipeInv, PipeHeld, PipeIdle, PipeOfOne
      <3>6. ScoresTrue' /\ MergesHoldRow'
        BY <2>1, <2>2, <3>3 DEF ScoringInv, ScoresTrue, MergesHoldRow
      <3> QED
        BY <3>4, <3>5, <3>6 DEF ScoringInv
    <2> QED
      BY <2>1, <2>3, <2>4
  <1> QED
    BY <1>2, <1>3, <1>4

\* The co-writer's verdict locks its take's row and reads it, then writes it.
LEMMA VerdictWrites ==
    ASSUME S!ScoringConstants, ScoringInv, S!LockForVerdict \/ S!SaveCoherenceVerdict
    PROVE  ScoringInv'
  <1> DEFINE g == verdict.gen
  <1>1. g \in Gens /\ verdict \in [pc : {"idle", "merge", "end"}, gen : Gens, seen : AnyRows]
    BY DEF ScoringInv, ScoringType
  <1>2. UNCHANGED <<scoring, pipeLock, child, tainted, transcript>>
    BY DEF S!LockForVerdict, S!SaveCoherenceVerdict, S!childVars
  <1>3. PipeInv'
    BY <1>2 DEF ScoringInv, PipeInv, PipeHeld, PipeIdle, PipeOfOne
  <1>4. \A k \in Scorings : scoring[k].gen \in Gens
    BY DEF ScoringInv, ScoringType, ScoringRow
  <1>5. rows \in [Gens -> AnyRows] /\ takeLock \in [Gens -> S!Writers \cup {None}]
    BY DEF ScoringInv, ScoringType
  <1>6. CASE S!LockForVerdict
    <2>1. /\ takeLock[g] = None /\ takeLock' = [takeLock EXCEPT ![g] = S!Verdict]
          /\ verdict' = [verdict EXCEPT !.pc = "merge", !.seen = rows[g]] /\ UNCHANGED rows
      BY <1>6 DEF S!LockForVerdict, S!LockGeneration
    <2>2. /\ verdict' \in [pc : {"idle", "merge", "end"}, gen : Gens, seen : AnyRows]
          /\ verdict'.gen = g /\ verdict'.seen = rows[g]
      BY <1>1, <1>5, <2>1
    <2> HIDE DEF g
    <2>3. takeLock' \in [Gens -> S!Writers \cup {None}]
          /\ \A h \in Gens : takeLock'[h] = IF h = g THEN S!Verdict ELSE takeLock[h]
      BY <1>1, <1>5, <2>1 DEF S!Writers
    <2>4. ScoringType'
      BY <1>2, <2>1, <2>2, <2>3 DEF ScoringInv, ScoringType
    <2>5. ScoresTrue'
      BY <1>2, <2>1 DEF ScoringInv, ScoresTrue
    <2>6. \A k \in Scorings : scoring[k].pc = "merge" => scoring[k].gen # g
      BY <2>1 DEF ScoringInv, MergesHoldRow, S!ScoringConstants, S!Writers
    <2>7. MergesHoldRow'
      BY <1>1, <1>2, <1>4, <2>1, <2>2, <2>3, <2>6 DEF ScoringInv, MergesHoldRow
    <2> QED
      BY <1>3, <2>4, <2>5, <2>7 DEF ScoringInv
  <1>7. CASE S!SaveCoherenceVerdict
    <2>1. /\ verdict.pc = "merge" /\ takeLock' = [takeLock EXCEPT ![g] = None]
          /\ verdict' = [verdict EXCEPT !.pc = "end"]
          /\ rows' = rows \/ rows' = [rows EXCEPT ![g] = S!Saved(g, verdict.seen, {S!Verdict}, [k \in {S!Verdict} |-> g])]
      BY <1>7 DEF S!SaveCoherenceVerdict, S!Unlock
    <2>2. verdict.seen = rows[g] /\ rows[g] \in RowsOf(g) /\ {S!Verdict} \in SUBSET Keys
      BY <1>1, <2>1 DEF ScoringInv, MergesHoldRow, ScoresTrue, Keys
    <2>3. /\ rows' \in [Gens -> AnyRows] /\ rows'[g] \in RowsOf(g)
          /\ \A h \in Gens : h # g => rows'[h] = rows[h]
      <3>1. CASE rows' = [rows EXCEPT ![g] = S!Saved(g, rows[g], {S!Verdict}, [k \in {S!Verdict} |-> g])]
        <4> DEFINE new == S!Saved(g, rows[g], {S!Verdict}, [k \in {S!Verdict} |-> g])
        <4>1. new \in RowsOf(g)
          BY <1>1, <2>2, SavedIs
        <4> HIDE DEF new
        <4>2. new \in AnyRows
          BY <1>1, <4>1 DEF AnyRows
        <4>3. rows' = [rows EXCEPT ![g] = new]
          BY <3>1 DEF new
        <4> HIDE DEF g
        <4> QED
          BY <1>1, <1>5, <4>1, <4>2, <4>3
      <3>2. CASE rows' = rows
        BY <1>5, <2>2, <3>2
      <3> QED
        BY <2>1, <2>2, <3>1, <3>2
    <2>4. /\ verdict' \in [pc : {"idle", "merge", "end"}, gen : Gens, seen : AnyRows]
          /\ verdict'.pc = "end"
      BY <1>1, <2>1
    <2>5. \A k \in Scorings : scoring[k].pc = "merge" => scoring[k].gen # g
      BY <2>1, RowOfOne
    <2> HIDE DEF g
    <2>6. takeLock' \in [Gens -> S!Writers \cup {None}]
          /\ \A h \in Gens : h # g => takeLock'[h] = takeLock[h]
      BY <1>1, <1>5, <2>1
    <2>7. ScoringType'
      BY <1>2, <2>3, <2>4, <2>6 DEF ScoringInv, ScoringType
    <2>8. ScoresTrue'
      BY <1>2, <2>3 DEF ScoringInv, ScoresTrue
    <2>9. MergesHoldRow'
      BY <1>2, <1>4, <2>3, <2>4, <2>5, <2>6 DEF ScoringInv, MergesHoldRow
    <2> QED
      BY <1>3, <2>7, <2>8, <2>9 DEF ScoringInv
  <1> QED
    BY <1>6, <1>7

\* A job ended from outside, or a take deleted, while nobody has the row locked.
LEMMA OutsideKeeps ==
    ASSUME S!ScoringConstants, ScoringInv,
           (\E j \in Scorings : S!EndFromOutside(j)) \/ (\E g \in Gens : S!DeleteGeneration(g))
    PROVE  ScoringInv'
  <1>1. ASSUME NEW j \in Scorings, S!EndFromOutside(j) PROVE ScoringInv'
    <2>1. PICK s \in {"cancelled", "failed"} : scoring' = [scoring EXCEPT ![j].status = s]
      BY <1>1 DEF S!EndFromOutside
    <2>2. UNCHANGED <<verdict, pipeLock, child, tainted, rows, transcript, takeLock>>
      BY <1>1 DEF S!EndFromOutside, S!childVars, S!rowVars
    <2> DEFINE q == [scoring[j] EXCEPT !.status = s]
    <2>3. /\ q \in ScoringRow
          /\ q.pc = scoring[j].pc /\ q.gen = scoring[j].gen /\ q.of = scoring[j].of /\ q.seen = scoring[j].seen
      BY DEF ScoringInv, ScoringType, ScoringRow, S!Over
    <2>4. scoring' = [scoring EXCEPT ![j] = q]
      BY <2>1
    <2> HIDE DEF q
    <2>5. /\ scoring' \in [Scorings -> ScoringRow]
          /\ \A k \in Scorings : /\ scoring'[k].pc = scoring[k].pc /\ scoring'[k].gen = scoring[k].gen
                                 /\ scoring'[k].of = scoring[k].of /\ scoring'[k].seen = scoring[k].seen
      BY <2>3, <2>4 DEF ScoringInv, ScoringType
    <2>6. ScoringType'
      BY <2>2, <2>5 DEF ScoringInv, ScoringType
    <2>7. PipeInv'
      BY <2>2, <2>5 DEF ScoringInv, PipeInv, PipeHeld, PipeIdle, PipeOfOne
    <2>8. ScoresTrue' /\ MergesHoldRow'
      BY <2>2, <2>5 DEF ScoringInv, ScoresTrue, MergesHoldRow
    <2> QED
      BY <2>6, <2>7, <2>8 DEF ScoringInv
  <1>2. ASSUME NEW g \in Gens, S!DeleteGeneration(g) PROVE ScoringInv'
    <2>1. /\ takeLock[g] = None
          /\ rows' = [rows EXCEPT ![g] = <<>>] /\ transcript' = [transcript EXCEPT ![g] = None]
          /\ UNCHANGED <<scoring, verdict, pipeLock, child, tainted, takeLock>>
      BY <1>2 DEF S!DeleteGeneration, S!childVars
    <2>2. <<>> \in RowsOf(g) /\ <<>> \in AnyRows
      BY DEF RowsOf, AnyRows
    <2>3. /\ rows' \in [Gens -> AnyRows] /\ transcript' \in [Gens -> Gens \cup {None}]
          /\ \A h \in Gens : /\ rows'[h] = IF h = g THEN <<>> ELSE rows[h]
                             /\ transcript'[h] = IF h = g THEN None ELSE transcript[h]
      BY <2>1, <2>2 DEF ScoringInv, ScoringType
    <2>4. ScoringType'
      BY <2>1, <2>3 DEF ScoringInv, ScoringType
    <2>5. PipeInv'
      BY <2>1 DEF ScoringInv, PipeInv, PipeHeld, PipeIdle, PipeOfOne
    <2>6. ScoresTrue'
      BY <2>1, <2>2, <2>3 DEF ScoringInv, ScoresTrue
    <2>7. verdict.gen \in Gens /\ \A k \in Scorings : scoring[k].gen \in Gens
      BY DEF ScoringInv, ScoringType, ScoringRow
    <2>8. /\ \A k \in Scorings : scoring[k].pc = "merge" => scoring[k].gen # g
          /\ verdict.pc = "merge" => verdict.gen # g
      BY <2>1 DEF ScoringInv, MergesHoldRow, S!ScoringConstants, S!Writers
    <2>9. MergesHoldRow'
      BY <2>1, <2>3, <2>7, <2>8 DEF ScoringInv, MergesHoldRow
    <2> QED
      BY <2>4, <2>5, <2>6, <2>9 DEF ScoringInv
  <1> QED
    BY <1>1, <1>2

\* Every step of the scoring jobs keeps the invariant.
LEMMA ScoringNext == ASSUME S!ScoringConstants PROVE ScoringInv /\ [S!Next]_(S!vars) => ScoringInv'
  <1> SUFFICES ASSUME ScoringInv, [S!Next]_(S!vars) PROVE ScoringInv'
    OBVIOUS
  <1>1. ASSUME S!ChildProgress \/ S!ChildAnswer \/ S!ChildDies PROVE ScoringInv'
    BY <1>1, ChildKeeps
  <1>2. ASSUME S!LockForVerdict \/ S!SaveCoherenceVerdict PROVE ScoringInv'
    BY <1>2, VerdictWrites
  <1>3. ASSUME NEW g \in Gens, S!DeleteGeneration(g) PROVE ScoringInv'
    BY <1>3, OutsideKeeps
  <1>4. ASSUME NEW j \in Scorings, S!Pick(j) \/ S!LoadScoringInput(j) \/ S!TakePipe(j) PROVE ScoringInv'
    BY <1>4, BeforePipe
  <1>5. ASSUME NEW j \in Scorings, S!SendRequest(j) PROVE ScoringInv'
    BY <1>5, SendKeeps
  <1>6. ASSUME NEW j \in Scorings, S!PollProgress(j) PROVE ScoringInv'
    BY <1>6, ProgressKeeps
  <1>7. ASSUME NEW j \in Scorings, S!PollScores(j) \/ S!PollError(j) \/ S!PollBroken(j) \/ S!PollTimeout(j)
        PROVE  ScoringInv'
    BY <1>7, AnswerKeeps
  <1>8. ASSUME NEW j \in Scorings, S!LockForScores(j) \/ S!PersistScores(j) \/ S!FinishScoring(j)
        PROVE  ScoringInv'
    BY <1>8, JobWrites
  <1>9. ASSUME NEW j \in Scorings, S!EndFromOutside(j) PROVE ScoringInv'
    BY <1>9, OutsideKeeps
  <1>10. CASE UNCHANGED S!vars
    BY <1>10 DEF S!vars, ScoringInv, ScoringType, PipeInv, PipeHeld, PipeIdle, PipeOfOne,
                 ScoresTrue, MergesHoldRow
  <1> QED
    BY <1>1, <1>2, <1>3, <1>4, <1>5, <1>6, <1>7, <1>8, <1>9, <1>10 DEF S!Next

\* What the invariant says of the rows and of the child.
LEMMA ScoringSound == ASSUME S!ScoringConstants, ScoringInv
                      PROVE  S!ScoresAreOfTheirTake /\ S!TaintedChildServesNobody
  <1>1. S!ScoresAreOfTheirTake
    <2> SUFFICES ASSUME NEW g \in Gens
                 PROVE  /\ transcript[g] \in {None, g}
                        /\ \A i \in DOMAIN rows[g] : \A k \in DOMAIN rows[g][i] : rows[g][i][k] = g
      BY DEF S!ScoresAreOfTheirTake
    <2>1. transcript[g] \in {None, g} /\ rows[g] \in RowsOf(g)
      BY DEF ScoringInv, ScoresTrue
    <2>2. CASE rows[g] = <<>>
      BY <2>1, <2>2
    <2>3. CASE rows[g] # <<>>
      <3>1. PICK f \in ScoreRows(g) : rows[g] = <<f>>
        BY <2>1, <2>3 DEF RowsOf
      <3>2. DOMAIN rows[g] = {1} /\ rows[g][1] = f
        BY <3>1
      <3>3. \A k \in DOMAIN f : f[k] = g
        BY DEF ScoreRows
      <3> QED
        BY <2>1, <3>2, <3>3
    <2> QED
      BY <2>2, <2>3
  <1>2. S!TaintedChildServesNobody
    <2> SUFFICES ASSUME child.asked # <<>> PROVE ~child.abandoned
      BY DEF S!TaintedChildServesNobody
    <2> QED
      BY Asked1 DEF Working
  <1> QED
    BY <1>1, <1>2

\* What a step may do to the scores of a take that stays.
KeepsScores ==
    \A g \in Gens : (g \in present') =>
        /\ Len(rows'[g]) <= 1
        /\ rows[g] # <<>> => rows'[g] # <<>> /\ DOMAIN rows[g][1] \subseteq DOMAIN rows'[g][1]

\* No step drops a score of a take that stays.
LEMMA ScoringStep == ASSUME S!ScoringConstants, ScoringInv, [S!Next]_(S!vars) PROVE KeepsScores
  <1>1. \A g \in Gens : rows[g] \in RowsOf(g) /\ Len(rows[g]) <= 1
    <2> SUFFICES ASSUME NEW g \in Gens PROVE rows[g] \in RowsOf(g) /\ Len(rows[g]) <= 1
      OBVIOUS
    <2>1. rows[g] \in RowsOf(g)
      BY DEF ScoringInv, ScoresTrue
    <2>2. CASE rows[g] = <<>>
      BY <2>1, <2>2
    <2>3. CASE rows[g] # <<>>
      <3>1. PICK f \in ScoreRows(g) : rows[g] = <<f>>
        BY <2>1, <2>3 DEF RowsOf
      <3> QED
        BY <2>1, <3>1
    <2> QED
      BY <2>2, <2>3
  <1>2. rows \in [Gens -> AnyRows]
    BY DEF ScoringInv, ScoringType
  <1>3. ASSUME rows' = rows PROVE KeepsScores
    BY <1>1, <1>3 DEF KeepsScores
  <1>4. ASSUME NEW g \in Gens, NEW keys \in SUBSET Keys,
               rows' = [rows EXCEPT ![g] = S!Saved(g, rows[g], keys, [k \in keys |-> g])]
        PROVE  KeepsScores
    <2> DEFINE new == S!Saved(g, rows[g], keys, [k \in keys |-> g])
    <2>1. /\ new # <<>> /\ Len(new) = 1
          /\ rows[g] # <<>> => DOMAIN rows[g][1] \subseteq DOMAIN new[1]
      BY <1>1, SavedIs
    <2>2. rows' = [rows EXCEPT ![g] = new]
      BY <1>4
    <2> HIDE DEF new
    <2>3. rows'[g] = new /\ \A h \in Gens : h # g => rows'[h] = rows[h]
      BY <1>2, <2>2
    <2> SUFFICES ASSUME NEW h \in Gens, h \in present'
                 PROVE  /\ Len(rows'[h]) <= 1
                        /\ rows[h] # <<>> => /\ rows'[h] # <<>>
                                             /\ DOMAIN rows[h][1] \subseteq DOMAIN rows'[h][1]
      BY DEF KeepsScores
    <2>4. CASE h = g
      <3>1. Len(new) <= 1
        BY <2>1
      <3> QED
        BY <2>1, <2>3, <2>4, <3>1, Zenon
    <2>5. CASE h # g
      <3>1. rows'[h] = rows[h]
        BY <2>3, <2>5
      <3> QED
        BY <1>1, <3>1
    <2> QED
      BY <2>4, <2>5
  <1>5. ASSUME NEW j \in Scorings, S!PersistScores(j) PROVE KeepsScores
    <2> DEFINE g == scoring[j].gen
    <2>1. /\ scoring[j].pc = "merge" /\ g \in Gens /\ scoring[j].got \in SUBSET Keys
      BY <1>5 DEF S!PersistScores, ScoringRow, Keys, ScoringInv, ScoringType
    <2>2. scoring[j].seen = rows[g] /\ scoring[j].of = g
      BY <2>1 DEF ScoringInv, MergesHoldRow, ScoresTrue
    <2>3. \/ rows' = rows
          \/ rows' = [rows EXCEPT ![g] = S!Saved(g, rows[g], scoring[j].got, [k \in scoring[j].got |-> g])]
      BY <1>5, <2>2 DEF S!PersistScores
    <2> QED
      BY <1>3, <1>4, <2>1, <2>3
  <1>6. ASSUME S!SaveCoherenceVerdict PROVE KeepsScores
    <2> DEFINE g == verdict.gen
    <2>1. verdict.pc = "merge" /\ g \in Gens /\ {S!Verdict} \in SUBSET Keys
      BY <1>6 DEF S!SaveCoherenceVerdict, Keys, ScoringInv, ScoringType
    <2>2. verdict.seen = rows[g]
      BY <2>1 DEF ScoringInv, MergesHoldRow
    <2>3. \/ rows' = rows
          \/ rows' = [rows EXCEPT ![g] = S!Saved(g, rows[g], {S!Verdict}, [k \in {S!Verdict} |-> g])]
      BY <1>6, <2>2 DEF S!SaveCoherenceVerdict
    <2> QED
      BY <1>3, <1>4, <2>1, <2>3
  <1>7. ASSUME NEW g \in Gens, S!DeleteGeneration(g) PROVE KeepsScores
    <2>1. g \notin present' /\ \A h \in Gens : h # g => rows'[h] = rows[h]
      BY <1>2, <1>7 DEF S!DeleteGeneration
    <2> QED
      BY <1>1, <2>1 DEF KeepsScores
  <1>8. ASSUME \/ S!ChildProgress \/ S!ChildAnswer \/ S!ChildDies \/ S!LockForVerdict
               \/ \E j \in Scorings : \/ S!Pick(j) \/ S!LoadScoringInput(j) \/ S!TakePipe(j)
                                      \/ S!SendRequest(j) \/ S!PollProgress(j) \/ S!PollScores(j)
                                      \/ S!PollError(j) \/ S!PollBroken(j) \/ S!PollTimeout(j)
                                      \/ S!LockForScores(j) \/ S!FinishScoring(j) \/ S!EndFromOutside(j)
        PROVE  rows' = rows
    BY <1>8 DEF S!ChildProgress, S!ChildAnswer, S!ChildDies, S!LockForVerdict, S!Pick,
                S!LoadScoringInput, S!TakePipe, S!SendRequest, S!PollProgress, S!PollScores, S!PollError,
                S!PollBroken, S!PollTimeout, S!LockForScores, S!FinishScoring, S!EndFromOutside,
                S!rowVars
  <1>9. CASE UNCHANGED S!vars
    BY <1>3, <1>9 DEF S!vars
  <1> QED
    BY <1>3, <1>5, <1>6, <1>7, <1>8, <1>9 DEF S!Next

-----------------------------------------------------------------------------
(***************************************************************************)
(* The parts side by side.                                                 *)
(***************************************************************************)

\* No user and not all together hold more jobs than allowed, nor more voices and
\* waiting trainings, and no sample's row lacks its file
\* (create_job_with_rate_limit, lock_lora_capacity, api_add_sample).
THEOREM LimitsAreKept == AllSpec => []LimitsHold
  <1>1. L!LimitsHold /\ V!CapacityHolds /\ V!SamplesAreWhole => LimitsHold
    BY DEF LimitsHold
  <1>2. AllInit => L!Init /\ V!Init
    BY DEF AllInit
  <1>3. [AllNext]_allVars => [L!Next]_(L!vars)
    BY DEF AllNext, allVars, L!vars, limitVars
  <1>4. [AllNext]_allVars => [V!Next]_(V!vars)
    BY DEF AllNext, allVars, V!vars, voiceVars
  <1>5. L!LimitConstants /\ V!SampleConstants
    BY PartConstants
  <1>6. L!Spec => []L!LimitsHold
    BY <1>5, JobsWithinLimits
  <1>7. V!Spec => []V!CapacityHolds
    BY <1>5, CapacityIsKept
  <1>8. V!Spec => []V!SamplesAreWhole
    BY <1>5, SamplesKeepTheirFiles
  <1> QED
    BY <1>1, <1>2, <1>3, <1>4, <1>6, <1>7, <1>8, PTL DEF AllSpec, L!Spec, V!Spec

\* A score and a transcript are of the take they are stored under, an abandoned scorer's
\* child serves no request, and no writer of a take's scores drops what another stored
\* (_score_with_retry, _ensure_started, save_scores).
THEOREM ScoresStaySound == AllSpec => ScoresAreSound
  <1>1. AllInit => ScoringInv
    BY PartConstants, ScoringInit DEF AllInit
  <1>2. [AllNext]_allVars => [S!Next]_(S!vars)
    BY DEF AllNext, allVars, S!vars, scoringVars
  <1>3. ScoringInv /\ [AllNext]_allVars => ScoringInv'
    BY <1>2, PartConstants, ScoringNext
  <1>4. ScoringInv => ScoresAreOfTheirTake /\ S!TaintedChildServesNobody
    BY PartConstants, ScoringSound DEF ScoresAreOfTheirTake
  <1>5. ScoringInv /\ [AllNext]_allVars => [KeepsScores]_(S!vars)
    BY <1>2, PartConstants, ScoringStep
  <1>6. KeepsScores <=> \A g \in Gens : (g \in present') =>
                          /\ Len(rows'[g]) <= 1
                          /\ rows[g] # <<>> => /\ rows'[g] # <<>>
                                               /\ DOMAIN rows[g][1] \subseteq DOMAIN rows'[g][1]
    BY DEF KeepsScores
  <1>7. [][KeepsScores]_(S!vars) <=> S!NoScoreLost
    BY <1>6, PTL DEF S!NoScoreLost, KeepsScores
  <1> QED
    BY <1>1, <1>3, <1>4, <1>5, <1>7, PTL DEF AllSpec, ScoresAreSound
=============================================================================
