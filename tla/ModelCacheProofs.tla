------------------------- MODULE ModelCacheProofs -------------------------
(***************************************************************************)
(* Proofs about ModelCache: it implements ModelSlots, its plans stay true  *)
(* and its uses are counted, for any modes, sizes, budget and users.  And  *)
(* about the jobs that load and download models (ModelJobs), which         *)
(* MCModels puts beside it: who downloads owns the key, and a completed    *)
(* download is on disk, for any jobs.                                      *)
(***************************************************************************)
EXTENDS MCModels, FiniteSetTheorems, SequenceTheorems, WellFoundedInduction, TLAPS

-----------------------------------------------------------------------------
\* A non-empty set of naturals has a least element.
LEMMA SmallestNat ==
    ASSUME NEW T \in SUBSET Nat, T # {}
    PROVE  \E n \in T : \A k \in T : n <= k
  <1>1. \A x, y \in Nat : x < y => <<x, y>> \in OpToRel(<, Nat)
    BY DEF OpToRel
  <1>2. PICK R : IsWellFoundedOn(R, Nat) /\ \A x, y \in Nat : x < y => <<x, y>> \in R
    <2>1. \E R : IsWellFoundedOn(R, Nat) /\ \A x, y \in Nat : x < y => <<x, y>> \in R
      BY NatLessThanWellFounded, <1>1, Zenon
    <2> QED
      BY <2>1, Zenon
  <1>3. T \subseteq Nat /\ IsWellFoundedOn(R, Nat)
    BY <1>2, Zenon
  <1>4. PICK x \in T : \A y \in T : ~(<<y, x>> \in R)
    <2>1. \E x \in T : \A y \in T : ~(<<y, x>> \in R)
      BY <1>3, WFMin, Zenon
    <2> QED
      BY <2>1, Zenon
  <1>5. \A y \in T : ~(y < x)
    BY <1>2, <1>3, <1>4, Zenon
  <1> QED
    BY <1>3, <1>5

\* Min finds it.
LEMMA MinOfNats ==
    ASSUME NEW T \in SUBSET Nat, T # {}
    PROVE  Min(T) \in T /\ \A k \in T : Min(T) <= k
  <1>1. \E n \in T : \A k \in T : n <= k
    BY SmallestNat
  <1> QED
    BY <1>1 DEF Min

-----------------------------------------------------------------------------
(***************************************************************************)
(* The declared sizes of some modes together.  Sum is a fold, so it has    *)
(* the value that counting the units of the modes has: the count meets the *)
(* equation of the fold, and nothing else does.                            *)
(***************************************************************************)

\* One unit for each GB that a mode declares.
Units(S) == UNION {{m} \X (1 .. Sizes[m]) : m \in S}

\* They can be counted.
LEMMA UnitsAreFinite ==
    ASSUME NEW S \in SUBSET Modes
    PROVE  IsFiniteSet(Units(S)) /\ Cardinality(Units(S)) \in Nat
  <1> DEFINE Parts == {{m} \X (1 .. Sizes[m]) : m \in S}
             f == [m \in S |-> {m} \X (1 .. Sizes[m])]
  <1>1. IsFiniteSet(S)
    BY CacheConstants, FS_Subset
  <1>2. f \in Surjection(S, Parts)
    BY DEF Surjection
  <1>3. IsFiniteSet(Parts)
    <2> HIDE DEF f, Parts
    <2> QED
      BY <1>1, <1>2, FS_Surjection
  <1>4. \A m \in S : IsFiniteSet({m} \X (1 .. Sizes[m]))
    <2> TAKE m \in S
    <2>1. IsFiniteSet({m}) /\ IsFiniteSet(1 .. Sizes[m])
      <3>1. Sizes[m] \in Int
        BY CacheConstants
      <3>2. IsFiniteSet(1 .. Sizes[m])
        BY <3>1, FS_Interval
      <3>3. IsFiniteSet({m})
        BY FS_Singleton
      <3> QED
        BY <3>2, <3>3
    <2> QED
      BY <2>1, FS_Product
  <1>5. IsFiniteSet(UNION Parts)
    <2>1. \A T \in Parts : IsFiniteSet(T)
      BY <1>4
    <2> HIDE DEF Parts
    <2> QED
      BY <1>3, <2>1, FS_UNION
  <1> QED
    BY <1>5, FS_CardinalityType DEF Units

\* A mode counts for its declared size.
LEMMA UnitsOfMode ==
    ASSUME NEW S \in SUBSET Modes, NEW x \in S
    PROVE  Cardinality(Units(S)) = Sizes[x] + Cardinality(Units(S \ {x}))
  <1> DEFINE A == {x} \X (1 .. Sizes[x])
  <1>0. Sizes[x] \in Nat
    BY CacheConstants
  <1>1. IsFiniteSet(A) /\ Cardinality(A) = Sizes[x]
    <2>1. IsFiniteSet({x}) /\ Cardinality({x}) = 1
      BY FS_Singleton
    <2>2. IsFiniteSet(1 .. Sizes[x]) /\ Cardinality(1 .. Sizes[x]) = Sizes[x]
      BY <1>0, FS_Interval
    <2> QED
      BY <1>0, <2>1, <2>2, FS_Product
  <1>2. Units(S) = A \cup Units(S \ {x}) /\ A \cap Units(S \ {x}) = {}
    BY DEF Units
  <1>3. IsFiniteSet(Units(S \ {x})) /\ Cardinality(Units(S \ {x})) \in Nat
    BY UnitsAreFinite
  <1>4. Cardinality(A \cap Units(S \ {x})) = 0
    BY <1>2, FS_EmptySet
  <1> HIDE DEF A
  <1>5. Cardinality(A \cup Units(S \ {x})) = Cardinality(A) + Cardinality(Units(S \ {x}))
                                             - Cardinality(A \cap Units(S \ {x}))
    BY <1>1, <1>3, FS_Union
  <1> QED
    BY <1>0, <1>1, <1>2, <1>3, <1>4, <1>5

\* What one round of the fold does.
Round(f, s) == IF s = {} THEN 0 ELSE Sizes[CHOOSE x \in s : TRUE] + f[s \ {CHOOSE x \in s : TRUE}]

\* The fold's value is the count.
LEMMA FoldIsCount ==
    ASSUME NEW S \in SUBSET Modes,
           NEW f, f = CHOOSE g : g = [s \in SUBSET S |-> Round(g, s)]
    PROVE  f[S] = Cardinality(Units(S))
  <1> DEFINE h == [s \in SUBSET S |-> Cardinality(Units(s))]
  <1>1. h = [s \in SUBSET S |-> Round(h, s)]
    <2>1. \A s \in SUBSET S : h[s] = Round(h, s)
      <3> TAKE s \in SUBSET S
      <3>1. CASE s = {}
        BY <3>1, FS_EmptySet DEF Round, Units
      <3>2. CASE s # {}
        <4>1. (CHOOSE x \in s : TRUE) \in s
          BY <3>2
        <4> QED
          BY <3>2, <4>1, UnitsOfMode DEF Round
      <3> QED
        BY <3>1, <3>2
    <2> QED
      BY <2>1, Zenon
  <1>2. f = [s \in SUBSET S |-> Round(f, s)]
    <2> HIDE DEF h
    <2> QED
      BY <1>1
  <1>3. ASSUME NEW s \in SUBSET S, f[s] # Cardinality(Units(s)) PROVE FALSE
    <2> DEFINE Wrong == {Cardinality(t) : t \in {u \in SUBSET S : f[u] # Cardinality(Units(u))}}
    <2>1. \A t \in SUBSET S : IsFiniteSet(t) /\ Cardinality(t) \in Nat
      BY CacheConstants, FS_Subset, FS_CardinalityType
    <2>2. Wrong \in SUBSET Nat /\ Wrong # {}
      BY <1>3, <2>1
    <2>3. PICK n \in Wrong : \A k \in Wrong : n <= k
      <3> HIDE DEF Wrong
      <3> QED
        BY <2>2, SmallestNat
    <2>4. PICK t \in SUBSET S : n = Cardinality(t) /\ f[t] # Cardinality(Units(t))
      BY <2>3
    <2>5. t # {}
      <3>1. f[{}] = 0
        BY <1>2 DEF Round
      <3>2. Cardinality(Units({})) = 0
        BY FS_EmptySet DEF Units
      <3> QED
        BY <2>4, <3>1, <3>2
    <2>6. PICK x \in t : f[t] = Sizes[x] + f[t \ {x}]
      <3>1. (CHOOSE y \in t : TRUE) \in t
        BY <2>5
      <3> QED
        BY <1>2, <2>5, <3>1 DEF Round
    <2>7. Cardinality(t \ {x}) = Cardinality(t) - 1
      BY <2>1, FS_RemoveElement
    <2>8. f[t \ {x}] = Cardinality(Units(t \ {x}))
      <3>1. Cardinality(t \ {x}) \notin Wrong
        <4>1. Cardinality(t) \in Nat /\ ~(n <= Cardinality(t) - 1)
          BY <2>1, <2>4
        <4> HIDE DEF Wrong
        <4> QED
          BY <2>3, <2>7, <4>1
      <3> QED
        BY <3>1
    <2> QED
      BY <2>4, <2>6, <2>8, UnitsOfMode
  <1> QED
    BY <1>3

\* The fold as a choice of the function it computes.
LEMMA SumIsCount ==
    ASSUME NEW S \in SUBSET Modes
    PROVE  Sum(S) = Cardinality(Units(S)) /\ Slots!Total(S) = Sum(S)
  <1>1. PICK f : /\ Sum(S) = f[S]
                 /\ f = CHOOSE g : g = [s \in SUBSET S |-> Round(g, s)]
    BY DEF Sum, MapThenSumSet, MapThenFoldSet, Round
  <1>2. PICK h : /\ Slots!Total(S) = h[S]
                 /\ h = CHOOSE g : g = [s \in SUBSET S |-> Round(g, s)]
    BY DEF Slots!Total, Slots!MapThenSumSet, Slots!MapThenFoldSet, Round
  <1> QED
    BY <1>1, <1>2, FoldIsCount

\* What the proofs below use of Sum.
LEMMA SumFacts ==
    ASSUME NEW S \in SUBSET Modes
    PROVE  /\ Sum(S) \in Nat /\ Slots!Total(S) = Sum(S)
           /\ \A m \in S : Sum(S) = Sizes[m] + Sum(S \ {m})
           /\ \A m \in Modes \ S : Sum(S \cup {m}) = Sizes[m] + Sum(S)
  <1>1. Sum(S) \in Nat
    BY SumIsCount, UnitsAreFinite
  <1>2. \A m \in S : Sum(S) = Sizes[m] + Sum(S \ {m})
    BY SumIsCount, UnitsOfMode
  <1>3. ASSUME NEW m \in Modes \ S PROVE Sum(S \cup {m}) = Sizes[m] + Sum(S)
    <2>1. (S \cup {m}) \ {m} = S /\ S \cup {m} \in SUBSET Modes
      BY <1>3
    <2> QED
      BY <2>1, SumIsCount, UnitsOfMode
  <1> QED
    BY <1>1, <1>2, <1>3, SumIsCount
-----------------------------------------------------------------------------
(***************************************************************************)
(* The list of loaded modes.                                               *)
(***************************************************************************)

\* RemoveFirst takes one place out of a list without repetitions.
LEMMA RemoveFirstIs ==
    ASSUME NEW s \in Seq(Modes), IsInjective(s), NEW m \in Range(s)
    PROVE  \E p \in 1 .. Len(s) :
             /\ s[p] = m
             /\ RemoveFirst(s, m) = [i \in 1 .. Len(s) - 1 |-> IF i < p THEN s[i] ELSE s[i + 1]]
  <1>1. PICK p \in 1 .. Len(s) : s[p] = m
    BY DEF Range
  <1>2. {i \in 1 .. Len(s) : s[i] = m} = {p}
    BY <1>1 DEF IsInjective
  <1>3. Min({p}) = p
    BY <1>1 DEF Min
  <1>4. RemoveFirst(s, m) = SubSeq(s, 1, p - 1) \o SubSeq(s, p + 1, Len(s))
    BY <1>1, <1>2, <1>3 DEF RemoveFirst, RemoveAt, SelectInSeq
  <1>5. SubSeq(s, 1, p - 1) \o SubSeq(s, p + 1, Len(s))
        = [i \in 1 .. Len(s) - 1 |-> IF i < p THEN s[i] ELSE s[i + 1]]
    <2> DEFINE a == SubSeq(s, 1, p - 1)
               b == SubSeq(s, p + 1, Len(s))
               r == [i \in 1 .. Len(s) - 1 |-> IF i < p THEN s[i] ELSE s[i + 1]]
    <2>1. a \in Seq(Modes) /\ Len(a) = p - 1 /\ \A i \in 1 .. p - 1 : a[i] = s[i]
      BY <1>1
    <2>2. b \in Seq(Modes) /\ Len(b) = Len(s) - p /\ \A i \in 1 .. Len(s) - p : b[i] = s[p + i]
      BY <1>1
    <2> HIDE DEF a, b
    <2>3. /\ a \o b \in Seq(Modes) /\ Len(a \o b) = Len(s) - 1
          /\ \A i \in 1 .. Len(s) - 1 : (a \o b)[i] = IF i <= p - 1 THEN a[i] ELSE b[i - (p - 1)]
      <3>1. /\ a \o b \in Seq(Modes) /\ Len(a \o b) = Len(a) + Len(b)
            /\ \A i \in 1 .. Len(a) + Len(b) : (a \o b)[i] = IF i <= Len(a) THEN a[i] ELSE b[i - Len(a)]
        BY <2>1, <2>2, ConcatProperties
      <3>2. Len(a) + Len(b) = Len(s) - 1
        BY <1>1, <2>1, <2>2
      <3> QED
        BY <2>1, <3>1, <3>2, Zenon
    <2>4. \A i \in 1 .. Len(s) - 1 : (a \o b)[i] = r[i]
      BY <1>1, <2>1, <2>2, <2>3
    <2>5. r \in Seq(Modes) /\ Len(r) = Len(s) - 1
      BY <1>1
    <2> HIDE DEF r
    <2>6. a \o b = r
      BY <2>3, <2>4, <2>5, SeqEqual
    <2> QED
      BY <2>6 DEF a, b, r
  <1> QED
    BY <1>1, <1>4, <1>5

\* The rest keeps its order and has no repetition either.
LEMMA Removed ==
    ASSUME NEW s \in Seq(Modes), IsInjective(s), NEW m \in Range(s)
    PROVE  /\ RemoveFirst(s, m) \in Seq(Modes)
           /\ IsInjective(RemoveFirst(s, m))
           /\ Range(RemoveFirst(s, m)) = Range(s) \ {m}
  <1>1. PICK p \in 1 .. Len(s) :
          /\ s[p] = m
          /\ RemoveFirst(s, m) = [i \in 1 .. Len(s) - 1 |-> IF i < p THEN s[i] ELSE s[i + 1]]
    BY RemoveFirstIs
  <1> DEFINE r == [i \in 1 .. Len(s) - 1 |-> IF i < p THEN s[i] ELSE s[i + 1]]
  <1>2. r \in Seq(Modes) /\ Len(r) = Len(s) - 1
    BY <1>1
  <1>3. IsInjective(r)
    BY <1>1 DEF IsInjective
  <1>4. Range(r) \subseteq Range(s) \ {m}
    BY <1>1 DEF IsInjective, Range
  <1>5. ASSUME NEW x \in Range(s) \ {m} PROVE x \in Range(r)
    <2>1. PICK i \in 1 .. Len(s) : s[i] = x /\ i # p
      BY <1>1, <1>5 DEF Range
    <2>2. CASE i < p
      <3>1. i \in 1 .. Len(s) - 1 /\ r[i] = x
        BY <1>1, <2>1, <2>2
      <3> QED
        BY <3>1 DEF Range
    <2>3. CASE i > p
      <3>1. i - 1 \in 1 .. Len(s) - 1 /\ r[i - 1] = x
        BY <1>1, <2>1, <2>3
      <3> QED
        BY <3>1 DEF Range
    <2> QED
      BY <2>1, <2>2, <2>3
  <1> QED
    BY <1>1, <1>2, <1>3, <1>4, <1>5

\* A mode put at the end (a load that succeeded).
LEMMA Appended ==
    ASSUME NEW s \in Seq(Modes), IsInjective(s), NEW m \in Modes, m \notin Range(s)
    PROVE  /\ Append(s, m) \in Seq(Modes)
           /\ IsInjective(Append(s, m))
           /\ Range(Append(s, m)) = Range(s) \cup {m}
  <1>1. /\ Len(Append(s, m)) = Len(s) + 1 /\ Append(s, m) \in Seq(Modes)
        /\ \A i \in 1 .. Len(s) : Append(s, m)[i] = s[i]
        /\ Append(s, m)[Len(s) + 1] = m
    OBVIOUS
  <1>2. \A i \in 1 .. Len(s) : s[i] # m
    BY DEF Range
  <1>3. DOMAIN Append(s, m) = 1 .. Len(s) + 1 /\ DOMAIN s = 1 .. Len(s)
    BY <1>1
  <1>4. IsInjective(Append(s, m))
    BY <1>1, <1>2, <1>3 DEF IsInjective
  <1>5. Range(Append(s, m)) = Range(s) \cup {m}
    BY <1>1, <1>3 DEF Range
  <1> QED
    BY <1>1, <1>4, <1>5

\* A mode moved to the end (move_to_end of the OrderedDict).
LEMMA Moved ==
    ASSUME NEW s \in Seq(Modes), IsInjective(s), NEW m \in Range(s)
    PROVE  /\ MoveToEnd(s, m) \in Seq(Modes)
           /\ IsInjective(MoveToEnd(s, m))
           /\ Range(MoveToEnd(s, m)) = Range(s)
  <1>1. m \in Modes
    BY DEF Range
  <1>2. /\ RemoveFirst(s, m) \in Seq(Modes) /\ IsInjective(RemoveFirst(s, m))
        /\ Range(RemoveFirst(s, m)) = Range(s) \ {m}
    BY Removed
  <1>3. /\ Append(RemoveFirst(s, m), m) \in Seq(Modes) /\ IsInjective(Append(RemoveFirst(s, m), m))
        /\ Range(Append(RemoveFirst(s, m), m)) = (Range(s) \ {m}) \cup {m}
    BY <1>1, <1>2, Appended
  <1> QED
    BY <1>3 DEF MoveToEnd
-----------------------------------------------------------------------------
(***************************************************************************)
(* The inductive invariant.                                                *)
(***************************************************************************)

\* A mode is listed at most once.
ListOK == loaded \in Seq(Modes) /\ IsInjective(loaded)

\* The load that holds the lock.
OpType ==
    op \in [kind : {"idle", "evicting", "loading"}, mode : Modes \cup {None},
            plan : SUBSET Modes, running : Nat]

\* The processes, the admin's pins and the Redis key.
WorldType ==
    /\ pinned \subseteq Modes
    /\ child \in [Modes -> BOOLEAN]
    /\ foreign \in 0 .. MaxForeign /\ faults \in 0 .. MaxFaults
    /\ proc \in {"down", "starting", "up"} /\ exiting \in BOOLEAN
    /\ lmFailure \in Modes \cup {None}

\* The uses are counted, and a mode in use is loaded.
Counted ==
    /\ inUse \in [Modes -> Nat]
    /\ use \in [Users -> Modes \cup {None}]
    /\ UsesAreCounted
    /\ \A m \in Modes : inUse[m] > 0 => m \in Loaded

\* What the load that holds the lock knows: its mode is not loaded; while it
\* evicts, its own account is never below the declared sizes of what is loaded,
\* the plan makes room enough, and the plan still is what may be evicted among
\* the least recently used; while its child starts there is room for it.
OpOK ==
    /\ op.kind = "idle" => op = Idle
    /\ op.kind # "idle" => op.mode \in Modes \ Loaded
    /\ op.kind = "evicting" =>
         /\ Sum(Loaded) <= op.running
         /\ op.running + Sizes[op.mode] <= Budget + Sum(op.plan)
         /\ \E n \in 0 .. Len(loaded) : op.plan = Victims(n)
    /\ op.kind = "loading" => Sum(Loaded) + Sizes[op.mode] <= Budget
    /\ Sum(Loaded) <= Budget

CacheInv == ListOK /\ OpType /\ WorldType /\ Counted /\ OpOK

\* The loaded modes are modes.
LEMMA LoadedAreModes == ASSUME ListOK PROVE Loaded \in SUBSET Modes /\ Sum(Loaded) \in Nat
  <1>1. Loaded \in SUBSET Modes
    BY DEF ListOK, Loaded, Range
  <1> QED
    BY <1>1, SumFacts

\* The next victim is the least recently used mode that may be evicted.
LEMMA NextVictimFacts ==
    ASSUME ListOK, op.plan # {}, NEW n \in 0 .. Len(loaded), op.plan = Victims(n)
    PROVE  \E k \in 1 .. n :
             /\ NextVictim = loaded[k] /\ loaded[k] \in op.plan
             /\ Evictable(loaded[k])
             /\ \A i \in 1 .. k - 1 : ~Evictable(loaded[i])
  <1> DEFINE P == {i \in 1 .. Len(loaded) : loaded[i] \in op.plan}
  <1>0. Len(loaded) \in Nat
    BY DEF ListOK
  <1>1. P \in SUBSET Nat /\ P # {}
    BY <1>0 DEF Victims
  <1>2. Min(P) \in P /\ \A i \in P : Min(P) <= i
    <2> HIDE DEF P
    <2> QED
      BY <1>1, MinOfNats
  <1> DEFINE k == Min(P)
  <1>3. k \in 1 .. Len(loaded) /\ loaded[k] \in op.plan /\ NextVictim = loaded[k]
    BY <1>2 DEF NextVictim
  <1> HIDE DEF k
  <1>4. PICK j \in 1 .. n : Evictable(loaded[j]) /\ loaded[j] = loaded[k]
    BY <1>3 DEF Victims
  <1>5. j = k
    BY <1>0, <1>3, <1>4 DEF ListOK, IsInjective
  <1>6. ASSUME NEW i \in 1 .. k - 1 PROVE ~Evictable(loaded[i])
    <2>1. i \in 1 .. n /\ i \in 1 .. Len(loaded) /\ i < k
      BY <1>0, <1>3, <1>5
    <2>2. loaded[i] \notin op.plan
      <3>1. i \notin P
        BY <1>2, <2>1 DEF k
      <3> QED
        BY <2>1, <3>1
    <2> QED
      BY <2>1, <2>2 DEF Victims
  <1> QED
    BY <1>3, <1>4, <1>5, <1>6

\* What the invariant says of the operation is kept by a step that touches none
\* of what it speaks about.
LEMMA OpLeft == ASSUME OpOK, UNCHANGED <<loaded, inUse, pinned, op>> PROVE OpOK'
  BY DEF OpOK, Loaded, Victims, Evictable

\* ... and the uses by a step that keeps what is loaded.
LEMMA UsesLeft ==
    ASSUME Counted, UNCHANGED <<inUse, use>>, \A m \in Modes : inUse[m] > 0 => m \in Loaded'
    PROVE  Counted'
  BY DEF Counted, UsesAreCounted

\* The cache starts empty, with its lock free.
LEMMA CacheInit == Init => CacheInv
  <1> SUFFICES ASSUME Init PROVE CacheInv
    OBVIOUS
  <1>1. ListOK /\ Loaded = {}
    BY DEF Init, ListOK, IsInjective, Loaded, Range
  <1>2. OpType
    BY DEF Init, OpType, Idle
  <1>3. WorldType
    <2>1. exiting \in BOOLEAN /\ child \in [Modes -> BOOLEAN]
      BY Zenon DEF Init
    <2>2. pinned \subseteq Modes /\ foreign \in 0 .. MaxForeign /\ faults \in 0 .. MaxFaults /\ proc = "up"
          /\ lmFailure = None
      BY CacheConstants DEF Init
    <2> QED
      BY <2>1, <2>2 DEF WorldType
  <1>4. Counted
    <2>1. \A m \in Modes : {u \in Users : use[u] = m} = {}
      BY CacheConstants DEF Init
    <2>2. UsesAreCounted
      BY <2>1, FS_EmptySet DEF Init, UsesAreCounted
    <2> QED
      BY <2>2 DEF Init, Counted
  <1>5. OpOK
    <2>1. Sum({}) = 0
      <3>1. Units({}) = {}
        BY DEF Units
      <3> QED
        BY <3>1, SumIsCount, FS_EmptySet
    <2> QED
      BY <1>1, <2>1, CacheConstants DEF Init, OpOK, Idle
  <1> QED
    BY <1>1, <1>2, <1>3, <1>4, <1>5 DEF CacheInv
-----------------------------------------------------------------------------
\* A task begins to use a loaded mode.
LEMMA UseBegins ==
    ASSUME Counted, NEW u \in Users, NEW m \in Modes, use[u] = None, m \in Loaded, Loaded' = Loaded,
           inUse' = [inUse EXCEPT ![m] = @ + 1], use' = [use EXCEPT ![u] = m]
    PROVE  Counted'
  <1>1. inUse' \in [Modes -> Nat] /\ use' \in [Users -> Modes \cup {None}]
    BY DEF Counted
  <1>2. ASSUME NEW k \in Modes PROVE inUse'[k] = Cardinality({v \in Users : use'[v] = k})
    <2> DEFINE S == {v \in Users : use[v] = k}
    <2>1. IsFiniteSet(S) /\ inUse[k] = Cardinality(S)
      BY CacheConstants, FS_Subset DEF Counted, UsesAreCounted
    <2>2. CASE k = m
      <3>1. {v \in Users : use'[v] = k} = S \cup {u} /\ u \notin S
        BY <2>2, CacheConstants DEF Counted
      <3>2. Cardinality(S \cup {u}) = Cardinality(S) + 1
        <4> HIDE DEF S
        <4> QED
          BY <2>1, <3>1, FS_AddElement
      <3> QED
        BY <2>1, <2>2, <3>1, <3>2 DEF Counted
    <2>3. CASE k # m
      <3>1. {v \in Users : use'[v] = k} = S
        BY <2>3, CacheConstants DEF Counted
      <3> QED
        BY <2>1, <2>3, <3>1 DEF Counted
    <2> QED
      BY <2>2, <2>3
  <1>3. \A k \in Modes : inUse'[k] > 0 => k \in Loaded'
    BY DEF Counted
  <1> QED
    BY <1>1, <1>2, <1>3 DEF Counted, UsesAreCounted

\* A task ends its use; the mode may go with the last one.
LEMMA UseEnds ==
    ASSUME Counted, NEW u \in Users, NEW m \in Modes, use[u] = m,
           inUse' = [inUse EXCEPT ![m] = IF @ = 0 THEN 0 ELSE @ - 1],
           use' = [use EXCEPT ![u] = None],
           Loaded' = Loaded \/ (inUse[m] = 1 /\ Loaded' = Loaded \ {m})
    PROVE  Counted' /\ inUse[m] > 0 /\ inUse'[m] = inUse[m] - 1
  <1>0. inUse[m] > 0
    <2>1. IsFiniteSet({v \in Users : use[v] = m}) /\ {v \in Users : use[v] = m} # {}
      BY CacheConstants, FS_Subset
    <2>2. Cardinality({v \in Users : use[v] = m}) # 0
      BY <2>1, FS_EmptySet
    <2> QED
      BY <2>2 DEF Counted, UsesAreCounted
  <1>1. inUse' \in [Modes -> Nat] /\ use' \in [Users -> Modes \cup {None}] /\ inUse'[m] = inUse[m] - 1
    BY <1>0 DEF Counted
  <1>2. ASSUME NEW k \in Modes PROVE inUse'[k] = Cardinality({v \in Users : use'[v] = k})
    <2> DEFINE S == {v \in Users : use[v] = k}
    <2>1. IsFiniteSet(S) /\ inUse[k] = Cardinality(S)
      BY CacheConstants, FS_Subset DEF Counted, UsesAreCounted
    <2>2. CASE k = m
      <3>1. {v \in Users : use'[v] = k} = S \ {u} /\ u \in S
        BY <2>2, CacheConstants DEF Counted
      <3>2. Cardinality(S \ {u}) = Cardinality(S) - 1
        <4> HIDE DEF S
        <4> QED
          BY <2>1, <3>1, FS_RemoveElement
      <3> QED
        BY <1>1, <2>1, <2>2, <3>1, <3>2
    <2>3. CASE k # m
      <3>1. {v \in Users : use'[v] = k} = S
        BY <2>3, CacheConstants DEF Counted
      <3> QED
        BY <2>1, <2>3, <3>1 DEF Counted
    <2> QED
      BY <2>2, <2>3
  <1>3. \A k \in Modes : inUse'[k] > 0 => k \in Loaded'
    BY <1>1 DEF Counted
  <1> QED
    BY <1>0, <1>1, <1>2, <1>3 DEF Counted, UsesAreCounted

\* After the process has ended nothing is loaded and nobody uses anything.
LEMMA Forgotten ==
    ASSUME Forget
    PROVE  ListOK' /\ OpType' /\ Counted' /\ OpOK' /\ Loaded' = {}
  <1>1. ListOK' /\ Loaded' = {}
    BY DEF Forget, ListOK, IsInjective, Loaded, Range
  <1>2. OpType'
    BY DEF Forget, OpType, Idle
  <1>3. Counted'
    <2>1. \A m \in Modes : {u \in Users : use'[u] = m} = {}
      BY CacheConstants DEF Forget
    <2>2. UsesAreCounted'
      BY <2>1, FS_EmptySet DEF Forget, UsesAreCounted
    <2> QED
      BY <2>2 DEF Forget, Counted
  <1>4. OpOK'
    <2>1. Sum({}) = 0
      <3>1. Units({}) = {}
        BY DEF Units
      <3> QED
        BY <3>1, SumIsCount, FS_EmptySet
    <2> QED
      BY <1>1, <2>1, CacheConstants DEF Forget, OpOK, Idle
  <1> QED
    BY <1>1, <1>2, <1>3, <1>4

\* An operation under a free lock that leaves it free is right when the
\* declared sizes of what is loaded do not grow.
LEMMA StaysIdle ==
    ASSUME OpType, OpOK, ListOK, op = Idle, op' = Idle, Loaded' \in SUBSET Modes,
           Sum(Loaded') <= Sum(Loaded)
    PROVE  OpType' /\ OpOK'
  <1>1. OpType'
    BY DEF OpType
  <1>2. Sum(Loaded') <= Budget
    BY LoadedAreModes, SumFacts, CacheConstants DEF OpOK
  <1> QED
    BY <1>1, <1>2 DEF OpOK, Idle

\* Every step keeps the types of the world around the cache.
LEMMA WorldNext == ASSUME WorldType, OpType, Next PROVE WorldType'
  <1> USE DEF Next, world, memory, LoadAgain, Evict, Pin, Unpin, ChildDies, StrayDies, Load, EvictFails,
          AcquireForUse, EvictNext, EvictNextFails, ChildFails, ChildHasNoLm, Start, ReleaseAndStop, Release,
          StartChild, ChildReady, Restart, EvictAll, Die, ForeignUse, Forget
  <1>1. child' \in [Modes -> BOOLEAN]
    <2>1. \/ child' = child
          \/ \E m : \E b \in BOOLEAN : child' = [child EXCEPT ![m] = b]
          \/ child' = [m \in Modes |-> FALSE]
      BY Zenon DEF StopChild
    <2>2. child \in [Modes -> BOOLEAN]
      BY DEF WorldType
    <2> QED
      BY <2>1, <2>2, Zenon
  <1>2. exiting' \in BOOLEAN
    BY Zenon DEF WorldType, LeaveIfLmFailed
  <1>3. pinned' \subseteq Modes
    BY DEF WorldType
  <1>4. foreign' \in 0 .. MaxForeign
    BY DEF WorldType
  <1>5. faults' \in 0 .. MaxFaults
    <2>1. faults' = faults \/ (faults < MaxFaults /\ faults' = faults + 1)
      BY Zenon
    <2> HIDE DEF Next
    <2> QED
      BY <2>1, CacheConstants DEF WorldType
  <1>6. proc' \in {"down", "starting", "up"}
    BY DEF WorldType, RetryDone
  <1>7. lmFailure' \in Modes \cup {None}
    <2>1. lmFailure' = lmFailure \/ lmFailure' = None \/ lmFailure' = op.mode
      BY Zenon DEF RetryDone, LeaveIfLmFailed
    <2> QED
      BY <2>1 DEF WorldType, OpType
  <1> HIDE DEF Next
  <1> QED
    BY <1>1, <1>2, <1>3, <1>4, <1>5, <1>6, <1>7 DEF WorldType

\* The account a load starts from, or takes after a stop, is never below the
\* declared sizes.
LEMMA PlanningFacts ==
    ASSUME WorldType, NEW S \in SUBSET Modes, NEW alive, NEW measured
    PROVE  PlanningUsed(S, alive, measured) \in Nat /\ Sum(S) <= PlanningUsed(S, alive, measured)
  <1>1. Sum(S) \in Nat /\ Sum({m \in Modes : alive[m]}) \in Nat
    BY SumFacts
  <1>2. foreign \in Nat
    BY CacheConstants DEF WorldType
  <1>3. GpuUse(alive) \in Nat
    BY <1>1, <1>2 DEF GpuUse
  <1> QED
    BY <1>1, <1>3 DEF PlanningUsed, DeclaredUsed, Larger

\* A plan is what may be evicted among the least recently used.
LEMMA PlanFacts ==
    ASSUME ListOK, NEW used, NEW m
    PROVE  /\ EvictionPlan(used, m) \in SUBSET Modes
           /\ \E n \in 0 .. Len(loaded) : EvictionPlan(used, m) = Victims(n)
  <1> DEFINE T == {n \in 0 .. Len(loaded) : Suffices(used, m, n)} \cup {Len(loaded)}
  <1>1. Len(loaded) \in Nat
    BY DEF ListOK
  <1>2. T \in SUBSET Nat /\ T # {} /\ T \subseteq 0 .. Len(loaded)
    BY <1>1
  <1>3. Min(T) \in 0 .. Len(loaded)
    <2> HIDE DEF T
    <2> QED
      BY <1>2, MinOfNats
  <1>4. EvictionPlan(used, m) = Victims(Min(T))
    BY DEF EvictionPlan
  <1>5. \A n \in 0 .. Len(loaded) : Victims(n) \in SUBSET Modes
    BY DEF Victims, ListOK
  <1> HIDE DEF T
  <1> QED
    BY <1>3, <1>4, <1>5

\* A load that takes the lock.
LEMMA BeginLoadKeeps ==
    ASSUME CacheInv, NEW m \in Modes, NEW measured \in BOOLEAN, BeginLoad(m, measured),
           UNCHANGED <<loaded, inUse, pinned, use>>
    PROVE  ListOK' /\ OpType' /\ Counted' /\ OpOK'
  <1> DEFINE used == PlanningUsed(Loaded, child, measured)
             plan == EvictionPlan(used, m)
  <1>1. ListOK' /\ Loaded' = Loaded /\ Loaded \in SUBSET Modes /\ Sum(Loaded) \in Nat
    BY LoadedAreModes DEF CacheInv, ListOK, Loaded
  <1>2. Counted'
    BY <1>1, UsesLeft DEF CacheInv, Counted
  <1>3. used \in Nat /\ Sum(Loaded) <= used
    BY <1>1, PlanningFacts DEF CacheInv
  <1>4. plan \in SUBSET Modes /\ \E n \in 0 .. Len(loaded) : plan = Victims(n)
    <2> HIDE DEF used
    <2> QED
      BY PlanFacts DEF CacheInv
  <1>5. /\ op' = [kind |-> "evicting", mode |-> m, plan |-> plan, running |-> used]
        /\ m \notin Loaded /\ used + Sizes[m] <= Budget + Sum(plan)
    BY DEF BeginLoad
  <1> HIDE DEF used, plan
  <1>6. OpType'
    BY <1>3, <1>4, <1>5 DEF OpType
  <1>7. \E n \in 0 .. Len(loaded') : plan = Victims(n)'
    BY <1>4 DEF Victims, Evictable
  <1>8. OpOK'
    BY <1>1, <1>3, <1>5, <1>7 DEF OpOK, CacheInv
  <1> QED
    BY <1>1, <1>2, <1>6, <1>8

\* One round of _evict_to_fit.
LEMMA EvictNextKeeps ==
    ASSUME CacheInv, NEW measured \in BOOLEAN, EvictNext(measured)
    PROVE  /\ ListOK' /\ OpType' /\ Counted' /\ OpOK'
           /\ NextVictim \in Loaded /\ inUse[NextVictim] = 0 /\ Loaded' = Loaded \ {NextVictim}
  <1>1. PICK n \in 0 .. Len(loaded) : op.plan = Victims(n)
    BY DEF EvictNext, CacheInv, OpOK
  <1>2. PICK k \in 1 .. n : /\ NextVictim = loaded[k] /\ loaded[k] \in op.plan /\ Evictable(loaded[k])
                            /\ \A i \in 1 .. k - 1 : ~Evictable(loaded[i])
    BY <1>1, NextVictimFacts DEF EvictNext, MoreToEvict, CacheInv
  <1> DEFINE v == loaded[k]
  <1>3. Len(loaded) \in Nat /\ loaded \in Seq(Modes) /\ IsInjective(loaded)
    BY DEF CacheInv, ListOK
  <1>4. v \in Loaded /\ v \in Modes /\ inUse[v] = 0 /\ k \in 1 .. Len(loaded)
    BY <1>2, <1>3 DEF Loaded, Range, Evictable
  <1>5. ListOK' /\ Loaded' = Loaded \ {v}
    BY <1>2, <1>3, <1>4, Removed DEF EvictNext, ListOK, Loaded
  <1>6. Counted'
    BY <1>4, <1>5, UsesLeft DEF EvictNext, CacheInv, Counted
  <1>7. Loaded \in SUBSET Modes /\ Loaded' \in SUBSET Modes /\ op.plan \in SUBSET Modes
    BY <1>5, LoadedAreModes DEF CacheInv, OpType
  <1>8. /\ Sum(Loaded) = Sizes[v] + Sum(Loaded') /\ Sum(op.plan) = Sizes[v] + Sum(op.plan \ {v})
        /\ Sum(Loaded) \in Nat /\ Sum(Loaded') \in Nat /\ Sum(op.plan) \in Nat /\ Sum(op.plan \ {v}) \in Nat
        /\ Sizes[v] \in Nat
    BY <1>2, <1>4, <1>5, <1>7, SumFacts, CacheConstants
  <1> DEFINE now == PlanningUsed(Loaded \ {v}, StopChild(v, TRUE), measured)
  <1>9. now \in Nat /\ Sum(Loaded') <= now
    BY <1>5, <1>7, PlanningFacts DEF CacheInv
  <1>10. op' = [op EXCEPT !.plan = @ \ {v}, !.running = Smaller(now, @ - Sizes[v])]
    BY <1>2 DEF EvictNext
  <1> HIDE DEF now, v
  <1>11. /\ op.running \in Nat /\ Sum(Loaded) <= op.running /\ op.mode \in Modes \ Loaded
         /\ op.running + Sizes[op.mode] <= Budget + Sum(op.plan) /\ Sum(Loaded) <= Budget
         /\ op.kind = "evicting"
    BY DEF CacheInv, OpOK, OpType, EvictNext
  <1> DEFINE r == Smaller(now, op.running - Sizes[v])
  <1>12. r \in Nat /\ Sum(Loaded') <= r /\ r <= op.running - Sizes[v]
    BY <1>8, <1>9, <1>11 DEF Smaller
  <1>13. op' = [op EXCEPT !.plan = op.plan \ {v}, !.running = r]
    BY <1>10
  <1> HIDE DEF r
  <1>14. OpType' /\ op'.kind = "evicting" /\ op'.mode = op.mode /\ op'.plan = op.plan \ {v} /\ op'.running = r
    BY <1>7, <1>11, <1>12, <1>13 DEF CacheInv, OpType
  <1>15. n - 1 \in 0 .. Len(loaded') /\ op.plan \ {v} = Victims(n - 1)'
    <2>1. PICK p \in 1 .. Len(loaded) :
            /\ loaded[p] = v
            /\ loaded' = [i \in 1 .. Len(loaded) - 1 |-> IF i < p THEN loaded[i] ELSE loaded[i + 1]]
      <3>1. loaded' = RemoveFirst(loaded, v) /\ v \in Range(loaded)
        BY <1>2, <1>4 DEF EvictNext, v, Loaded
      <3> QED
        BY <1>3, <3>1, RemoveFirstIs
    <2>2. p = k
      BY <1>3, <1>4, <2>1 DEF IsInjective, v
    <2>3. n \in 1 .. Len(loaded) /\ k \in 1 .. n
      BY <1>3, <1>2
    <2>4. Len(loaded') = Len(loaded) - 1 /\ n - 1 \in 0 .. Len(loaded')
      BY <1>3, <2>1, <2>3
    <2>5. \A x : Evictable(x)' <=> Evictable(x)
      BY DEF Evictable, EvictNext
    <2>6. Victims(n - 1)' \subseteq op.plan \ {v}
      <3> SUFFICES ASSUME NEW i \in 1 .. n - 1, Evictable(loaded'[i])
                   PROVE  loaded'[i] \in op.plan \ {v}
        BY <2>5 DEF Victims
      <3>1. CASE i < k
        <4>1. i \in 1 .. n /\ i \in 1 .. Len(loaded) - 1 /\ loaded'[i] = loaded[i] /\ i # k
          BY <1>3, <2>1, <2>2, <2>3, <3>1
        <4> QED
          BY <1>1, <1>3, <2>3, <4>1 DEF Victims, v, IsInjective
      <3>2. CASE i >= k
        <4>1. i + 1 \in 1 .. n /\ i + 1 \in 1 .. Len(loaded) /\ loaded'[i] = loaded[i + 1] /\ i + 1 # k
          BY <1>3, <2>1, <2>2, <2>3, <3>2
        <4> QED
          BY <1>1, <1>3, <2>3, <4>1 DEF Victims, v, IsInjective
      <3> QED
        BY <2>3, <3>1, <3>2
    <2>7. ASSUME NEW x \in op.plan \ {v} PROVE x \in Victims(n - 1)'
      <3>1. PICK i \in 1 .. n : loaded[i] = x /\ Evictable(x) /\ i # k
        BY <1>1, <2>7 DEF Victims, v
      <3>2. i > k
        BY <1>2, <2>3, <3>1
      <3>3. i - 1 \in 1 .. n - 1 /\ loaded'[i - 1] = x
        BY <1>3, <2>1, <2>2, <2>3, <3>1, <3>2
      <3> QED
        BY <2>5, <3>1, <3>3 DEF Victims
    <2> QED
      BY <2>4, <2>6, <2>7
  <1>16. OpOK'
    <2>1. Budget \in Nat /\ Sizes[op.mode] \in Nat
      BY <1>11, CacheConstants
    <2>2. r + Sizes[op.mode] <= Budget + Sum(op.plan \ {v})
      <3>1. \A a, b, c, d, e, f, g \in Nat :
              a <= b - d /\ b + c <= e + f /\ f = d + g => a + c <= e + g
        OBVIOUS
      <3>2. Sum(op.plan) \in Nat /\ Sum(op.plan \ {v}) \in Nat /\ Sum(op.plan) = Sizes[v] + Sum(op.plan \ {v})
            /\ Sizes[v] \in Nat
        BY <1>8, Zenon
      <3>3. r \in Nat /\ r <= op.running - Sizes[v] /\ op.running \in Nat
            /\ op.running + Sizes[op.mode] <= Budget + Sum(op.plan)
        BY <1>11, <1>12, Zenon
      <3> QED
        BY <2>1, <3>1, <3>2, <3>3, Zenon
    <2>3. Sum(Loaded') <= Budget
      BY <1>8, <1>11, <2>1
    <2> QED
      BY <1>5, <1>11, <1>12, <1>14, <1>15, <2>2, <2>3 DEF OpOK
  <1> QED
    BY <1>2, <1>4, <1>5, <1>6, <1>14, <1>16 DEF v

\* What a mode that leaves the list does to the sum.
LEMMA FewerLoaded ==
    ASSUME ListOK, NEW m \in Loaded, Loaded' = Loaded \ {m}
    PROVE  Loaded' \in SUBSET Modes /\ Sum(Loaded') <= Sum(Loaded)
  <1>1. Loaded \in SUBSET Modes /\ Loaded \ {m} \in SUBSET Modes /\ m \in Modes
    BY LoadedAreModes
  <1>2. Sum(Loaded) = Sizes[m] + Sum(Loaded \ {m}) /\ Sum(Loaded \ {m}) \in Nat /\ Sizes[m] \in Nat
    BY <1>1, SumFacts, CacheConstants
  <1>3. Sum(Loaded \ {m}) <= Sum(Loaded)
    BY <1>2
  <1> QED
    BY <1>1, <1>3

\* The steps of the operations that keep the lock free.
LEMMA FreeNext ==
    ASSUME CacheInv, op = Idle,
           \/ \E m \in Modes : \/ LoadAgain(m) \/ Evict(m) \/ Pin(m) \/ Unpin(m)
                               \/ \E b \in BOOLEAN : EvictFails(m, b)
                               \/ \E u \in Users : AcquireForUse(u, m)
           \/ \E u \in Users : Release(u) \/ \E b \in BOOLEAN : ReleaseAndStop(u, b)
    PROVE  ListOK' /\ OpType' /\ Counted' /\ OpOK'
  <1> USE DEF CacheInv
  <1>0. Loaded \in SUBSET Modes /\ Sum(Loaded) \in Nat /\ ListOK /\ OpType /\ OpOK /\ Counted
    BY LoadedAreModes
  <1>1. ASSUME UNCHANGED <<op, inUse, use>>, ListOK', Loaded' = Loaded PROVE ListOK' /\ OpType' /\ Counted' /\ OpOK'
    <2>1. Counted'
      BY <1>0, <1>1, UsesLeft DEF Counted
    <2>2. OpType' /\ OpOK'
      BY <1>0, <1>1, StaysIdle
    <2> QED
      BY <1>1, <2>1, <2>2
  <1>2. ASSUME NEW m \in Modes, LoadAgain(m) PROVE ListOK' /\ OpType' /\ Counted' /\ OpOK'
    <2>1. ListOK' /\ Loaded' = Loaded
      BY <1>0, <1>2, Moved DEF ListOK, LoadAgain, Loaded
    <2> QED
      BY <1>1, <1>2, <2>1 DEF LoadAgain
  <1>3. ASSUME NEW m \in Modes, Evict(m) PROVE ListOK' /\ OpType' /\ Counted' /\ OpOK'
    <2>1. ListOK' /\ Loaded' = Loaded \ {m} /\ m \in Loaded
      BY <1>0, <1>3, Removed DEF ListOK, Evict, Loaded
    <2>2. Loaded' \in SUBSET Modes /\ Sum(Loaded') <= Sum(Loaded)
      BY <1>0, <2>1, FewerLoaded
    <2>3. OpType' /\ OpOK'
      BY <1>0, <1>3, <2>2, StaysIdle DEF Evict
    <2>4. Counted'
      BY <1>0, <1>3, <2>1, UsesLeft DEF Counted, Evict
    <2> QED
      BY <2>1, <2>3, <2>4
  <1>4. ASSUME NEW m \in Modes, NEW b \in BOOLEAN, Pin(m) \/ Unpin(m) \/ EvictFails(m, b)
        PROVE  ListOK' /\ OpType' /\ Counted' /\ OpOK'
    <2>1. UNCHANGED <<loaded, op, inUse, use>>
      BY <1>4, Zenon DEF Pin, Unpin, EvictFails, memory
    <2>2. ListOK' /\ Loaded' = Loaded
      BY <1>0, <2>1 DEF ListOK, Loaded
    <2> QED
      BY <1>1, <2>1, <2>2
  <1>5. ASSUME NEW m \in Modes, NEW u \in Users, AcquireForUse(u, m)
        PROVE  ListOK' /\ OpType' /\ Counted' /\ OpOK'
    <2>1. ListOK' /\ Loaded' = Loaded
      BY <1>0, <1>5, Moved DEF ListOK, AcquireForUse, Loaded
    <2>2. Counted'
      BY <1>0, <1>5, <2>1, UseBegins DEF AcquireForUse
    <2>3. OpType' /\ OpOK'
      BY <1>0, <1>5, <2>1, StaysIdle DEF AcquireForUse
    <2> QED
      BY <2>1, <2>2, <2>3
  <1>6. ASSUME NEW u \in Users, Release(u) PROVE ListOK' /\ OpType' /\ Counted' /\ OpOK'
    <2>1. ListOK' /\ Loaded' = Loaded
      BY <1>0, <1>6 DEF ListOK, Release, Loaded
    <2>2. use[u] \in Modes
      BY <1>0, <1>6 DEF Counted, Release
    <2>3. Counted'
      BY <1>0, <1>6, <2>1, <2>2, UseEnds DEF Release
    <2>4. OpType' /\ OpOK'
      BY <1>0, <1>6, <2>1, StaysIdle DEF Release
    <2> QED
      BY <2>1, <2>3, <2>4
  <1>7. ASSUME NEW u \in Users, NEW b \in BOOLEAN, ReleaseAndStop(u, b)
        PROVE  ListOK' /\ OpType' /\ Counted' /\ OpOK'
    <2> DEFINE m == use[u]
    <2>1. m \in Modes
      BY <1>0, <1>7 DEF Counted, ReleaseAndStop
    <2>2. CASE inUse[m] = 1
      <3>1. m \in Loaded
        BY <1>0, <2>1, <2>2 DEF Counted
      <3>2. ListOK' /\ Loaded' = Loaded \ {m}
        BY <1>0, <1>7, <2>2, <3>1, Removed DEF ListOK, ReleaseAndStop, Loaded
      <3>3. Loaded' \in SUBSET Modes /\ Sum(Loaded') <= Sum(Loaded)
        BY <1>0, <3>1, <3>2, FewerLoaded
      <3>4. OpType' /\ OpOK'
        BY <1>0, <1>7, <3>3, StaysIdle DEF ReleaseAndStop
      <3>5. Counted'
        BY <1>0, <1>7, <2>1, <2>2, <3>2, UseEnds DEF ReleaseAndStop
      <3> QED
        BY <3>2, <3>4, <3>5
    <2>3. CASE inUse[m] # 1
      <3>1. ListOK' /\ Loaded' = Loaded
        BY <1>0, <1>7, <2>3 DEF ListOK, ReleaseAndStop, Loaded
      <3>2. OpType' /\ OpOK'
        BY <1>0, <1>7, <3>1, StaysIdle DEF ReleaseAndStop
      <3>3. Counted'
        BY <1>0, <1>7, <2>1, <3>1, UseEnds DEF ReleaseAndStop
      <3> QED
        BY <3>1, <3>2, <3>3
    <2> QED
      BY <2>2, <2>3
  <1> QED
    BY <1>2, <1>3, <1>4, <1>5, <1>6, <1>7, Zenon

\* The steps of a load after its evictions.
LEMMA LoadNext ==
    ASSUME CacheInv,
           \/ StartChild \/ ChildReady
           \/ \E b \in BOOLEAN : EvictNextFails(b) \/ ChildFails(b) \/ ChildHasNoLm(b)
    PROVE  ListOK' /\ OpType' /\ Counted' /\ OpOK'
  <1> USE DEF CacheInv
  <1>0. Loaded \in SUBSET Modes /\ Sum(Loaded) \in Nat /\ ListOK /\ OpType /\ OpOK /\ Counted
    BY LoadedAreModes
  <1>1. CASE StartChild
    <2>1. ListOK' /\ Loaded' = Loaded
      BY <1>0, <1>1 DEF ListOK, StartChild, Loaded
    <2>2. Counted'
      BY <1>0, <1>1, <2>1, UsesLeft DEF Counted, StartChild
    <2>3. OpType' /\ op'.kind = "loading" /\ op'.mode = op.mode
      BY <1>0, <1>1 DEF OpType, StartChild
    <2>4. /\ op.mode \in Modes \ Loaded /\ op.kind = "evicting" /\ op.running \in Nat /\ Sum(Loaded) <= op.running
          /\ op.running + Sizes[op.mode] <= Budget + Sum(op.plan) /\ Sum(Loaded) <= Budget
      BY <1>0, <1>1 DEF OpOK, OpType, StartChild
    <2>5. Sizes[op.mode] \in Nat /\ Budget \in Nat
      BY <2>4, CacheConstants
    <2>6. op.running + Sizes[op.mode] <= Budget
      <3>1. CASE op.plan = {}
        <4>1. Sum({}) = 0
          <5>1. Units({}) = {}
            BY DEF Units
          <5> QED
            BY <5>1, SumIsCount, FS_EmptySet
        <4> QED
          BY <2>4, <2>5, <3>1, <4>1
      <3>2. CASE op.plan # {}
        BY <1>1, <3>2 DEF StartChild, MoreToEvict, Fits
      <3> QED
        BY <3>1, <3>2
    <2>7. Sum(Loaded) + Sizes[op.mode] <= Budget
      <3>1. \A a, b, c, d \in Nat : a <= b /\ b + c <= d => a + c <= d
        OBVIOUS
      <3> QED
        BY <1>0, <2>4, <2>5, <2>6, <3>1, Zenon
    <2>8. OpOK'
      BY <2>1, <2>3, <2>4, <2>7 DEF OpOK
    <2> QED
      BY <2>1, <2>2, <2>3, <2>8
  <1>2. CASE ChildReady
    <2>1. op.mode \in Modes /\ op.mode \notin Loaded /\ Sum(Loaded) + Sizes[op.mode] <= Budget
      BY <1>0, <1>2 DEF OpOK, ChildReady
    <2>2. ListOK' /\ Loaded' = Loaded \cup {op.mode}
      BY <1>0, <1>2, <2>1, Appended DEF ListOK, ChildReady, Loaded
    <2>3. Counted'
      BY <1>0, <1>2, <2>2, UsesLeft DEF Counted, ChildReady
    <2>4. Sum(Loaded') = Sizes[op.mode] + Sum(Loaded) /\ Sizes[op.mode] \in Nat
      BY <1>0, <2>1, <2>2, SumFacts, CacheConstants
    <2>5. Sum(Loaded') <= Budget
      BY <1>0, <2>1, <2>4, CacheConstants
    <2>6. OpType'
      BY <1>2 DEF ChildReady, OpType, Idle
    <2> QED
      BY <1>2, <2>2, <2>3, <2>5, <2>6 DEF OpOK, ChildReady, Idle
  <1>3. ASSUME NEW b \in BOOLEAN, EvictNextFails(b) \/ ChildFails(b) \/ ChildHasNoLm(b)
        PROVE  ListOK' /\ OpType' /\ Counted' /\ OpOK'
    <2>1. UNCHANGED <<loaded, inUse, use>> /\ op' = Idle
      BY <1>3, Zenon DEF EvictNextFails, ChildFails, ChildHasNoLm
    <2>2. ListOK' /\ Loaded' = Loaded
      BY <1>0, <2>1 DEF ListOK, Loaded
    <2>3. Counted'
      BY <1>0, <2>1, <2>2, UsesLeft DEF Counted
    <2>4. OpType'
      BY <2>1 DEF OpType, Idle
    <2> QED
      BY <1>0, <2>1, <2>2, <2>3, <2>4 DEF OpOK, Idle
  <1> QED
    BY <1>1, <1>2, <1>3, Zenon

\* Every step keeps the invariant.
LEMMA CacheNext == CacheInv /\ [Next]_vars => CacheInv'
  <1> SUFFICES ASSUME CacheInv, [Next]_vars PROVE CacheInv'
    OBVIOUS
  <1>1. ASSUME UNCHANGED <<loaded, inUse, pinned, op, use>>
        PROVE  ListOK' /\ OpType' /\ Counted' /\ OpOK'
    <2>1. ListOK' /\ OpType' /\ Loaded' = Loaded
      BY <1>1 DEF CacheInv, ListOK, OpType, Loaded
    <2>2. Counted'
      BY <1>1, <2>1, UsesLeft DEF CacheInv, Counted
    <2>3. OpOK'
      BY <1>1, OpLeft DEF CacheInv
    <2> QED
      BY <2>1, <2>2, <2>3
  <1>2. CASE Next
    <2>0. WorldType'
      BY <1>2, WorldNext DEF CacheInv
    <2>1. ASSUME \/ \E m \in Modes : \/ LoadAgain(m) \/ Evict(m) \/ Pin(m) \/ Unpin(m)
                                     \/ \E b \in BOOLEAN : EvictFails(m, b)
                                     \/ \E u \in Users : AcquireForUse(u, m)
                 \/ \E u \in Users : Release(u) \/ \E b \in BOOLEAN : ReleaseAndStop(u, b)
          PROVE  ListOK' /\ OpType' /\ Counted' /\ OpOK'
      <3>1. op = Idle
        BY <2>1, Zenon DEF LockFree, LoadAgain, Evict, Pin, Unpin, EvictFails, AcquireForUse, Release, ReleaseAndStop
      <3> QED
        BY <2>1, <3>1, FreeNext
    <2>2. ASSUME NEW m \in Modes, NEW b \in BOOLEAN, Load(m, b)
          PROVE  ListOK' /\ OpType' /\ Counted' /\ OpOK'
      BY <2>2, BeginLoadKeeps DEF Load
    <2>3. ASSUME NEW b \in BOOLEAN, EvictNext(b)
          PROVE  ListOK' /\ OpType' /\ Counted' /\ OpOK'
      BY <2>3, EvictNextKeeps
    <2>4. ASSUME \/ StartChild \/ ChildReady
                 \/ \E b \in BOOLEAN : EvictNextFails(b) \/ ChildFails(b) \/ ChildHasNoLm(b)
          PROVE  ListOK' /\ OpType' /\ Counted' /\ OpOK'
      BY <2>4, LoadNext
    <2>5. ASSUME NEW b \in BOOLEAN, Start(b)
          PROVE  ListOK' /\ OpType' /\ Counted' /\ OpOK'
      <3>1. CASE UNCHANGED op
        BY <1>1, <2>5, <3>1 DEF Start
      <3>2. CASE BeginLoad(lmFailure, b) /\ lmFailure # None
        <4>1. lmFailure \in Modes
          BY <3>2 DEF CacheInv, WorldType
        <4> QED
          BY <2>5, <3>2, <4>1, BeginLoadKeeps DEF Start
      <3> QED
        BY <2>5, <3>1, <3>2, Zenon DEF Start
    <2>6. ASSUME EvictAll \/ Die PROVE ListOK' /\ OpType' /\ Counted' /\ OpOK'
      BY <2>6, Forgotten DEF EvictAll, Die
    <2>7. ASSUME \/ Restart \/ ForeignUse \/ \E m \in Modes : ChildDies(m) \/ StrayDies(m)
          PROVE  ListOK' /\ OpType' /\ Counted' /\ OpOK'
      <3>1. UNCHANGED memory
        BY <2>7, Zenon DEF Restart, ForeignUse, ChildDies, StrayDies
      <3> QED
        BY <1>1, <3>1 DEF memory
    <2>8. ListOK' /\ OpType' /\ Counted' /\ OpOK'
      BY <1>2, <2>1, <2>2, <2>3, <2>4, <2>5, <2>6, <2>7, Zenon DEF Next
    <2> QED
      BY <2>0, <2>8 DEF CacheInv
  <1>3. CASE UNCHANGED vars
    <2>1. ListOK' /\ OpType' /\ Counted' /\ OpOK'
      BY <1>1, <1>3 DEF vars
    <2>2. WorldType'
      BY <1>3 DEF vars, WorldType, CacheInv
    <2> QED
      BY <2>1, <2>2 DEF CacheInv
  <1> QED
    BY <1>2, <1>3
-----------------------------------------------------------------------------
\* In every reachable state of the cache (model_cache.py) a mode is loaded at
\* most once and every variable has its type.
THEOREM TypeCorrect == Spec => []TypeOK
  <1>1. CacheInv => TypeOK
    <2> SUFFICES ASSUME CacheInv PROVE TypeOK
      OBVIOUS
    <2>1. \A m \in Modes : inUse[m] \in 0 .. Cardinality(Users)
      <3> TAKE m \in Modes
      <3>1. {u \in Users : use[u] = m} \subseteq Users /\ IsFiniteSet(Users)
        BY CacheConstants
      <3>2. Cardinality({u \in Users : use[u] = m}) <= Cardinality(Users) /\ Cardinality(Users) \in Nat
        BY <3>1, FS_Subset, FS_CardinalityType
      <3>3. inUse[m] \in Nat /\ inUse[m] = Cardinality({u \in Users : use[u] = m})
        BY DEF CacheInv, Counted, UsesAreCounted
      <3> QED
        BY <3>2, <3>3
    <2>2. inUse \in [Modes -> 0 .. Cardinality(Users)] /\ use \in [Users -> Modes \cup {None}]
      BY <2>1 DEF CacheInv, Counted
    <2> QED
      BY <2>2, Zenon DEF TypeOK, CacheInv, ListOK, OpType, WorldType
  <1> QED
    BY <1>1, CacheInit, CacheNext, PTL DEF Spec

\* Each task is counted once on the mode it uses, through release,
\* release_and_stop and shutdown.
THEOREM UsesCounted == Spec => []UsesAreCounted
  <1>1. CacheInv => UsesAreCounted
    BY DEF CacheInv, Counted
  <1> QED
    BY <1>1, CacheInit, CacheNext, PTL DEF Spec

\* A mode that a task uses is loaded: neither a load nor an eviction takes it
\* away, and only the last release_and_stop does.
THEOREM UsedIsLoaded == Spec => [](\A m \in Modes : inUse[m] > 0 => m \in Loaded)
  <1>1. CacheInv => \A m \in Modes : inUse[m] > 0 => m \in Loaded
    BY DEF CacheInv, Counted
  <1> QED
    BY <1>1, CacheInit, CacheNext, PTL DEF Spec

\* A worker that left because its language model failed offers itself again
\* only after it retried that load (lm_failure.py, lifespan).
THEOREM RetriedFirst == Spec => []RetriedBeforeOffered
  <1>1. Init => RetriedBeforeOffered
    BY DEF Init, RetriedBeforeOffered
  <1>2. RetriedBeforeOffered /\ [Next]_vars => RetriedBeforeOffered'
    BY Zenon DEF RetriedBeforeOffered, Next, vars, world, memory, LoadAgain, Evict, Pin, Unpin, ChildDies,
       StrayDies, Load, EvictFails, AcquireForUse, EvictNext, EvictNextFails, ChildFails, ChildHasNoLm, Start,
       ReleaseAndStop, Release, StartChild, ChildReady, Restart, EvictAll, Die, ForeignUse, Forget, RetryDone,
       LeaveIfLmFailed
  <1> QED
    BY <1>1, <1>2, PTL DEF Spec

\* What _build_eviction_plan decided still holds when each victim's turn comes:
\* it is neither pinned nor in use, and no mode before it could be taken.
THEOREM PlanStaysRight == Spec => VictimIsStillRight
  <1> DEFINE Right(m) ==
        (op.kind = "evicting" /\ op'.kind = "evicting" /\ m \in Loaded /\ m \notin Range(loaded'))
        => /\ Evictable(m)
           /\ \A i, j \in 1 .. Len(loaded) : loaded[j] = m /\ i < j => ~Evictable(loaded[i])
  <1>1. ASSUME CacheInv, [Next]_vars, NEW m \in Modes PROVE Right(m)
    <2> SUFFICES ASSUME op.kind = "evicting", op'.kind = "evicting", m \in Loaded, m \notin Range(loaded')
                 PROVE  /\ Evictable(m)
                        /\ \A i, j \in 1 .. Len(loaded) : loaded[j] = m /\ i < j => ~Evictable(loaded[i])
      OBVIOUS
    <2>1. op # Idle /\ op' # Idle /\ loaded' # loaded
      BY DEF Idle, Loaded
    <2>2. PICK b \in BOOLEAN : EvictNext(b)
      BY <1>1, <2>1 DEF Next, vars, world, memory, LockFree, LoadAgain, Evict, Pin, Unpin, ChildDies,
         StrayDies, Load, EvictFails, AcquireForUse, EvictNextFails, ChildFails, ChildHasNoLm, Start,
         ReleaseAndStop, Release, StartChild, ChildReady, Restart, EvictAll, Die, ForeignUse, Forget
    <2>3. m = NextVictim
      <3>1. Loaded' = Loaded \ {NextVictim}
        BY <1>1, <2>2, EvictNextKeeps
      <3> QED
        BY <3>1 DEF Loaded
    <2>4. PICK n \in 0 .. Len(loaded) : op.plan = Victims(n)
      BY <1>1 DEF CacheInv, OpOK
    <2>5. PICK k \in 1 .. n : /\ NextVictim = loaded[k] /\ Evictable(loaded[k])
                              /\ \A i \in 1 .. k - 1 : ~Evictable(loaded[i])
      BY <1>1, <2>2, <2>4, NextVictimFacts DEF EvictNext, MoreToEvict, CacheInv
    <2>6. Len(loaded) \in Nat /\ k \in 1 .. Len(loaded)
      BY <1>1, <2>5 DEF CacheInv, ListOK
    <2>7. ASSUME NEW i \in 1 .. Len(loaded), NEW j \in 1 .. Len(loaded), loaded[j] = m, i < j
          PROVE  ~Evictable(loaded[i])
      <3>1. j = k
        BY <1>1, <2>3, <2>5, <2>6, <2>7 DEF CacheInv, ListOK, IsInjective
      <3> QED
        BY <2>5, <2>6, <2>7, <3>1
    <2> QED
      BY <2>3, <2>5, <2>7
  <1>2. CacheInv /\ [Next]_vars => [\A m \in Modes : Right(m)]_vars
    BY <1>1
  <1> QED
    BY <1>2, CacheInit, CacheNext, PTL DEF Spec, VictimIsStillRight
-----------------------------------------------------------------------------
(***************************************************************************)
(* The cache implements ModelSlots.  A mode enters when its child is       *)
(* started, not when the load ends; a load that fails is a mode that       *)
(* leaves; an eviction inside a load is a mode that leaves.                *)
(***************************************************************************)

\* What occupies the GPU while no child is being started, and while one is.
LEMMA OccupyingIs ==
    /\ op.kind # "loading" => Occupying = Loaded
    /\ op.kind = "loading" => Occupying = Loaded \cup {op.mode}
    /\ op'.kind # "loading" => Occupying' = Loaded'
    /\ op'.kind = "loading" => Occupying' = Loaded' \cup {op'.mode}
  BY DEF Occupying

\* A step that changes neither what occupies the GPU nor who uses it.
LEMMA SlotsStutter ==
    ASSUME UNCHANGED <<Occupying, inUse>>
    PROVE  [Slots!Next]_(Slots!slots)
  BY DEF Slots!slots

\* A mode that nobody uses goes.
LEMMA SlotsLeave ==
    ASSUME NEW m \in Modes, m \in Occupying, inUse[m] = 0, Occupying' = Occupying \ {m}, UNCHANGED inUse
    PROVE  [Slots!Next]_(Slots!slots)
  BY DEF Slots!Next, Slots!Leave

\* The steps of a load.
LEMMA LoadSlots ==
    ASSUME CacheInv, CacheInv',
           \/ StartChild \/ ChildReady
           \/ \E b \in BOOLEAN : EvictNext(b) \/ EvictNextFails(b) \/ ChildFails(b) \/ ChildHasNoLm(b)
    PROVE  [Slots!Next]_(Slots!slots)
  <1>1. CASE StartChild
    <2>1. op.kind = "evicting" /\ op'.kind = "loading" /\ op'.mode = op.mode /\ Loaded' = Loaded /\ inUse' = inUse
      BY <1>1 DEF StartChild, CacheInv, OpType, Loaded
    <2>2. op.mode \in Modes /\ op.mode \notin Loaded /\ Sum(Loaded) + Sizes[op.mode] <= Budget
      BY <2>1 DEF CacheInv, OpOK
    <2>3. Occupying = Loaded /\ Occupying' = Loaded \cup {op.mode} /\ Loaded \in SUBSET Modes /\ Sum(Loaded) \in Nat
      BY <2>1, OccupyingIs, LoadedAreModes DEF CacheInv
    <2>4. Slots!Total(Loaded \cup {op.mode}) = Sizes[op.mode] + Sum(Loaded) /\ Sizes[op.mode] \in Nat
      <3>1. Loaded \cup {op.mode} \in SUBSET Modes
        BY <2>2, <2>3
      <3> QED
        BY <2>2, <2>3, <3>1, SumFacts, CacheConstants
    <2>5. Slots!Total(Loaded \cup {op.mode}) <= Budget
      BY <2>2, <2>3, <2>4, CacheConstants
    <2>6. Slots!Enter(op.mode)
      BY <2>1, <2>2, <2>3, <2>5 DEF Slots!Enter
    <2> QED
      BY <2>2, <2>6 DEF Slots!Next
  <1>2. CASE ChildReady
    <2>1. op.kind = "loading" /\ op'.kind = "idle" /\ Loaded' = Loaded \cup {op.mode} /\ inUse' = inUse
      <3>1. op.kind = "loading" /\ op.mode \in Modes /\ op.mode \notin Loaded
        BY <1>2 DEF CacheInv, OpOK, ChildReady
      <3>2. Loaded' = Loaded \cup {op.mode}
        BY <1>2, <3>1, Appended DEF CacheInv, ListOK, Loaded, ChildReady
      <3> QED
        BY <1>2, <3>1, <3>2 DEF ChildReady, Idle
    <2> QED
      BY <2>1, OccupyingIs, SlotsStutter
  <1>3. ASSUME NEW b \in BOOLEAN, EvictNext(b) PROVE [Slots!Next]_(Slots!slots)
    <2>1. NextVictim \in Loaded /\ inUse[NextVictim] = 0 /\ Loaded' = Loaded \ {NextVictim}
      BY <1>3, EvictNextKeeps
    <2>2. op.kind = "evicting" /\ op'.kind = "evicting" /\ inUse' = inUse
      BY <1>3 DEF EvictNext, CacheInv, OpType
    <2>3. NextVictim \in Modes
      BY <2>1, LoadedAreModes DEF CacheInv
    <2> QED
      BY <2>1, <2>2, <2>3, OccupyingIs, SlotsLeave
  <1>4. ASSUME NEW b \in BOOLEAN, EvictNextFails(b) PROVE [Slots!Next]_(Slots!slots)
    <2>1. op.kind = "evicting" /\ op'.kind = "idle" /\ Loaded' = Loaded /\ inUse' = inUse
      BY <1>4 DEF EvictNextFails, Idle, Loaded
    <2> QED
      BY <2>1, OccupyingIs, SlotsStutter
  <1>5. ASSUME NEW b \in BOOLEAN, ChildFails(b) \/ ChildHasNoLm(b) PROVE [Slots!Next]_(Slots!slots)
    <2>1. op.kind = "loading" /\ op' = Idle /\ loaded' = loaded /\ inUse' = inUse
      BY <1>5, Zenon DEF ChildFails, ChildHasNoLm
    <2>2. op'.kind = "idle" /\ Loaded' = Loaded
      BY <2>1 DEF Idle, Loaded
    <2>3. op.mode \in Modes /\ op.mode \notin Loaded
      BY <2>1 DEF CacheInv, OpOK
    <2>4. inUse[op.mode] = 0
      BY <2>3 DEF CacheInv, Counted
    <2>5. Occupying = Loaded \cup {op.mode} /\ Occupying' = Loaded
      BY <2>1, <2>2, OccupyingIs
    <2>6. Occupying' = Occupying \ {op.mode}
      BY <2>3, <2>5
    <2> QED
      BY <2>1, <2>3, <2>4, <2>5, <2>6, SlotsLeave
  <1> QED
    BY <1>1, <1>2, <1>3, <1>4, <1>5, Zenon

\* The operations under a free lock.
LEMMA FreeSlots ==
    ASSUME CacheInv, op = Idle,
           \/ \E m \in Modes : \/ LoadAgain(m) \/ Evict(m) \/ Pin(m) \/ Unpin(m)
                               \/ \E b \in BOOLEAN : EvictFails(m, b)
                               \/ \E u \in Users : AcquireForUse(u, m)
           \/ \E u \in Users : Release(u) \/ \E b \in BOOLEAN : ReleaseAndStop(u, b)
    PROVE  [Slots!Next]_(Slots!slots)
  <1>0. op' = Idle
    BY Zenon DEF LoadAgain, Evict, Pin, Unpin, EvictFails, AcquireForUse, Release, ReleaseAndStop, memory
  <1>1. Occupying = Loaded /\ Occupying' = Loaded'
    BY <1>0, OccupyingIs DEF Idle
  <1>2. ListOK /\ Counted
    BY DEF CacheInv
  <1>3. ASSUME NEW m \in Modes, LoadAgain(m) PROVE [Slots!Next]_(Slots!slots)
    <2>1. Loaded' = Loaded
      BY <1>2, <1>3, Moved DEF ListOK, LoadAgain, Loaded
    <2> QED
      BY <1>1, <1>3, <2>1, SlotsStutter DEF LoadAgain
  <1>4. ASSUME NEW m \in Modes, Evict(m) PROVE [Slots!Next]_(Slots!slots)
    <2>1. Loaded' = Loaded \ {m} /\ m \in Loaded
      BY <1>2, <1>4, Removed DEF ListOK, Evict, Loaded
    <2> QED
      BY <1>1, <1>4, <2>1, SlotsLeave DEF Evict
  <1>5. ASSUME NEW m \in Modes, NEW b \in BOOLEAN, Pin(m) \/ Unpin(m) \/ EvictFails(m, b)
        PROVE  [Slots!Next]_(Slots!slots)
    <2>1. UNCHANGED <<loaded, inUse>>
      BY <1>5, Zenon DEF Pin, Unpin, EvictFails, memory
    <2>2. Loaded' = Loaded
      BY <2>1 DEF Loaded
    <2> QED
      BY <1>1, <2>1, <2>2, SlotsStutter
  <1>6. ASSUME NEW m \in Modes, NEW u \in Users, AcquireForUse(u, m) PROVE [Slots!Next]_(Slots!slots)
    <2>1. Loaded' = Loaded /\ m \in Loaded
      BY <1>2, <1>6, Moved DEF ListOK, AcquireForUse, Loaded
    <2>2. Slots!Use(m)
      BY <1>1, <1>6, <2>1 DEF Slots!Use, AcquireForUse
    <2> QED
      BY <2>2 DEF Slots!Next
  <1>7. ASSUME NEW u \in Users, Release(u) \/ \E b \in BOOLEAN : ReleaseAndStop(u, b)
        PROVE  [Slots!Next]_(Slots!slots)
    <2> DEFINE m == use[u]
    <2>1. m \in Modes /\ inUse' = [inUse EXCEPT ![m] = IF @ = 0 THEN 0 ELSE @ - 1] /\ use' = [use EXCEPT ![u] = None]
      BY <1>2, <1>7 DEF Counted, Release, ReleaseAndStop
    <2>2. Loaded' = Loaded \/ (inUse[m] = 1 /\ Loaded' = Loaded \ {m})
      <3>1. CASE loaded' = loaded
        BY <3>1 DEF Loaded
      <3>2. CASE inUse[m] = 1 /\ loaded' = RemoveFirst(loaded, m)
        <4>1. m \in Loaded
          BY <1>2, <2>1, <3>2 DEF Counted
        <4> QED
          BY <1>2, <3>2, <4>1, Removed DEF ListOK, Loaded
      <3> QED
        BY <1>7, <3>1, <3>2, Zenon DEF Release, ReleaseAndStop
    <2>3. inUse[m] > 0
      BY <1>2, <2>1, <2>2, UseEnds
    <2>4. inUse' = [inUse EXCEPT ![m] = @ - 1]
      <3>1. inUse[m] # 0
        BY <2>3
      <3> QED
        BY <2>1, <3>1, Zenon
    <2>5. Slots!EndUse(m)
      <3> HIDE DEF m
      <3> QED
        BY <1>1, <2>2, <2>3, <2>4 DEF Slots!EndUse
    <2> QED
      BY <2>1, <2>5 DEF Slots!Next
  <1> QED
    BY <1>3, <1>4, <1>5, <1>6, <1>7, Zenon

\* The model cache (model_cache.py) implements ModelSlots: the declared sizes of
\* what occupies the GPU never exceed the budget, counting a child from its
\* start, and no model is taken from under a running task.
THEOREM CacheImplementsSlots == Spec => ImplementsModelSlots
  <1>1. Init => Slots!Init
    <2> SUFFICES ASSUME Init PROVE Slots!Init
      OBVIOUS
    <2>1. Loaded = {} /\ op.kind = "idle"
      BY DEF Init, Loaded, Range, Idle
    <2> QED
      BY <2>1, OccupyingIs DEF Init, Slots!Init, Slots!NoUsers
  <1>2. CacheInv /\ CacheInv' /\ [Next]_vars => [Slots!Next]_(Slots!slots)
    <2> SUFFICES ASSUME CacheInv, CacheInv', [Next]_vars PROVE [Slots!Next]_(Slots!slots)
      OBVIOUS
    <2>1. ASSUME UNCHANGED <<loaded, inUse, op>> PROVE [Slots!Next]_(Slots!slots)
      <3>1. UNCHANGED <<Occupying, inUse>>
        BY <2>1 DEF Occupying, Loaded
      <3> QED
        BY <3>1, SlotsStutter
    <2>2. ASSUME \/ \E m \in Modes : \/ LoadAgain(m) \/ Evict(m) \/ Pin(m) \/ Unpin(m)
                                     \/ \E b \in BOOLEAN : EvictFails(m, b)
                                     \/ \E u \in Users : AcquireForUse(u, m)
                 \/ \E u \in Users : Release(u) \/ \E b \in BOOLEAN : ReleaseAndStop(u, b)
          PROVE  [Slots!Next]_(Slots!slots)
      <3>1. op = Idle
        BY <2>2, Zenon DEF LockFree, LoadAgain, Evict, Pin, Unpin, EvictFails, AcquireForUse, Release, ReleaseAndStop
      <3> QED
        BY <2>2, <3>1, FreeSlots
    <2>3. ASSUME \/ StartChild \/ ChildReady
                 \/ \E b \in BOOLEAN : EvictNext(b) \/ EvictNextFails(b) \/ ChildFails(b) \/ ChildHasNoLm(b)
          PROVE  [Slots!Next]_(Slots!slots)
      BY <2>3, LoadSlots
    <2>4. ASSUME NEW m, NEW b \in BOOLEAN, BeginLoad(m, b), UNCHANGED <<loaded, inUse>>
          PROVE  [Slots!Next]_(Slots!slots)
      <3>1. op.kind # "loading" /\ op'.kind # "loading" /\ Loaded' = Loaded
        BY <2>4 DEF BeginLoad, LockFree, Idle, Loaded
      <3> QED
        BY <2>4, <3>1, OccupyingIs, SlotsStutter
    <2>5. ASSUME NEW m \in Modes, NEW b \in BOOLEAN, Load(m, b) PROVE [Slots!Next]_(Slots!slots)
      BY <2>4, <2>5 DEF Load
    <2>6. ASSUME NEW b \in BOOLEAN, Start(b) PROVE [Slots!Next]_(Slots!slots)
      BY <2>1, <2>4, <2>6, Zenon DEF Start
    <2>7. ASSUME EvictAll \/ Die PROVE [Slots!Next]_(Slots!slots)
      <3>1. Forget
        BY <2>7 DEF EvictAll, Die
      <3>2. Loaded' = {} /\ op'.kind = "idle" /\ inUse' = [m \in Modes |-> 0]
        BY <3>1, Forgotten DEF Forget, Idle
      <3>3. Slots!Reset
        BY <3>2, OccupyingIs DEF Slots!Reset, Slots!NoUsers
      <3> QED
        BY <3>3 DEF Slots!Next
    <2>8. ASSUME \/ Restart \/ ForeignUse \/ UNCHANGED vars \/ \E m \in Modes : ChildDies(m) \/ StrayDies(m)
          PROVE  [Slots!Next]_(Slots!slots)
      BY <2>1, <2>8 DEF Restart, ForeignUse, ChildDies, StrayDies, memory, vars
    <2> QED
      BY <2>2, <2>3, <2>5, <2>6, <2>7, <2>8, Zenon DEF Next
  <1> QED
    BY <1>1, <1>2, CacheInit, CacheNext, PTL DEF Spec, ImplementsModelSlots, Slots!Spec

\* What that comes to: the declared sizes of the modes that occupy the GPU, the
\* one whose child is just starting included, never exceed vram_budget_gb.
THEOREM BudgetHolds == Spec => [](Sum(Occupying) <= Budget)
  <1>1. CacheInv => Sum(Occupying) <= Budget
    <2> SUFFICES ASSUME CacheInv PROVE Sum(Occupying) <= Budget
      OBVIOUS
    <2>1. CASE op.kind # "loading"
      BY <2>1, OccupyingIs DEF CacheInv, OpOK
    <2>2. CASE op.kind = "loading"
      <3>1. op.mode \in Modes \ Loaded /\ Sum(Loaded) + Sizes[op.mode] <= Budget
        BY <2>2 DEF CacheInv, OpOK
      <3>2. Loaded \in SUBSET Modes /\ Sum(Loaded) \in Nat
        BY LoadedAreModes DEF CacheInv
      <3>3. Sum(Loaded \cup {op.mode}) = Sizes[op.mode] + Sum(Loaded) /\ Sizes[op.mode] \in Nat
        BY <3>1, <3>2, SumFacts, CacheConstants
      <3>4. Occupying = Loaded \cup {op.mode}
        BY <2>2, OccupyingIs
      <3>5. Sizes[op.mode] + Sum(Loaded) <= Budget
        BY <3>1, <3>2, <3>3
      <3> QED
        BY <3>3, <3>4, <3>5
    <2> QED
      BY <2>1, <2>2
  <1> QED
    BY <1>1, CacheInit, CacheNext, PTL DEF Spec

-----------------------------------------------------------------------------
(* The jobs that load and download models.                                 *)

\* A download takes the steps of a download, a load those of a load.
KindsApart ==
    /\ row \in [J!Jobs -> {"none", "queued", "running"} \cup J!Terminal]
    /\ run \in [J!Jobs -> {"none", "enqueue", "queued", "claim", "post", "done"} \cup J!Holding]
    /\ task \in [J!Jobs -> {"none", "running", "done", "error"}]
    /\ \A j \in J!Jobs : /\ run[j] \in {"claim"} \cup J!Holding => j \in Downloads
                         /\ run[j] = "post" => j \notin Downloads

\* A task that delivered its model left it on disk.
DeliveredIsOnDisk == \A j \in J!Jobs : task[j] = "done" => onDisk

\* The inductive invariant of the model jobs.
JobInv == KindsApart /\ J!HolderOwnsKey /\ DeliveredIsOnDisk /\ J!CompletedIsOnDisk

\* Before a job is requested nobody holds the key.
LEMMA JobInit == J!Init => JobInv
  BY DEF J!Init, JobInv, KindsApart, DeliveredIsOnDisk, J!HolderOwnsKey, J!CompletedIsOnDisk,
         J!Holding, J!Terminal, J!Jobs

\* Every step of a job keeps rows, runs and tasks apart by their kind.
LEMMA KindsKeep == JobInv /\ [J!Next]_(J!vars) => KindsApart'
  <1> SUFFICES ASSUME JobInv, [J!Next]_(J!vars) PROVE KindsApart'
    OBVIOUS
  <1> USE DEF JobInv, KindsApart, J!Terminal, J!Holding, J!Write, J!Goto, J!Jobs
  <1>1. ASSUME NEW j \in J!Jobs, J!RequestDownload(j) \/ J!RequestLoad(j) PROVE KindsApart'
    BY <1>1 DEF J!RequestDownload, J!RequestLoad
  <1>2. ASSUME NEW j \in J!Jobs, J!Enqueue(j) \/ J!Begin(j) \/ J!PostLoad(j) PROVE KindsApart'
    BY <1>2 DEF J!Enqueue, J!Begin, J!PostLoad
  <1>3. ASSUME NEW j \in J!Jobs, J!Claim(j) PROVE KindsApart'
    BY <1>3 DEF J!Claim, J!TakeSlot
  <1>4. ASSUME NEW j \in J!Jobs, J!Submit(j) PROVE KindsApart'
    BY <1>4 DEF J!Submit
  <1>5. ASSUME NEW j \in J!Jobs, J!StreamDone(j) \/ J!StreamBreaks(j) \/ J!StreamFails(j) PROVE KindsApart'
    BY <1>5 DEF J!StreamDone, J!StreamBreaks, J!StreamFails
  <1>6. ASSUME NEW j \in J!Jobs, J!Retry(j) \/ J!Clear(j) \/ J!Cancel(j) PROVE KindsApart'
    BY <1>6 DEF J!Retry, J!Clear, J!Cancel
  <1>7. ASSUME NEW j \in J!Jobs, J!TaskEnds(j) \/ J!Reap(j) PROVE KindsApart'
    BY <1>7 DEF J!TaskEnds, J!Reap, J!Reapable
  <1>8. CASE J!OlderTaskEnds \/ J!Crash \/ J!KeyExpires \/ UNCHANGED J!vars
    BY <1>8 DEF J!OlderTaskEnds, J!Crash, J!KeyExpires, J!vars, J!Live
  <1> QED
    BY <1>1, <1>2, <1>3, <1>4, <1>5, <1>6, <1>7, <1>8, Zenon DEF J!Next, J!Step

\* The delete of the key never hits one that another job took meanwhile.
LEMMA KeyKeeps == ASSUME J!DownloadConstants PROVE JobInv /\ [J!Next]_(J!vars) => J!HolderOwnsKey'
  <1> SUFFICES ASSUME JobInv, [J!Next]_(J!vars) PROVE J!HolderOwnsKey'
    OBVIOUS
  <1> USE DEF JobInv, KindsApart, J!HolderOwnsKey, J!Holding, J!Goto, J!Jobs
  <1>1. ASSUME NEW j \in J!Jobs, J!RequestDownload(j) \/ J!RequestLoad(j) PROVE J!HolderOwnsKey'
    BY <1>1 DEF J!RequestDownload, J!RequestLoad
  <1>2. ASSUME NEW j \in J!Jobs, J!Enqueue(j) \/ J!Begin(j) \/ J!PostLoad(j) PROVE J!HolderOwnsKey'
    BY <1>2 DEF J!Enqueue, J!Begin, J!PostLoad
  <1>3. ASSUME NEW j \in J!Jobs, J!Claim(j) PROVE J!HolderOwnsKey'
    <2>1. CASE key = None
      <3>1. \A d \in Downloads : run[d] \notin J!Holding
        BY <2>1 DEF J!DownloadConstants
      <3> QED
        BY <1>3, <2>1, <3>1 DEF J!Claim, J!TakeSlot
    <2>2. CASE key # None
      BY <1>3, <2>2 DEF J!Claim, J!TakeSlot
    <2> QED
      BY <2>1, <2>2
  <1>4. ASSUME NEW j \in J!Jobs, J!Submit(j) PROVE J!HolderOwnsKey'
    BY <1>4 DEF J!Submit
  <1>5. ASSUME NEW j \in J!Jobs, J!StreamDone(j) \/ J!StreamBreaks(j) \/ J!StreamFails(j) PROVE J!HolderOwnsKey'
    BY <1>5 DEF J!StreamDone, J!StreamBreaks, J!StreamFails
  <1>6. ASSUME NEW j \in J!Jobs, J!Retry(j) PROVE J!HolderOwnsKey'
    BY <1>6 DEF J!Retry
  <1>7. ASSUME NEW j \in J!Jobs, J!Clear(j) \/ J!Cancel(j) PROVE J!HolderOwnsKey'
    <2>1. CASE run[j] \in J!Holding
      <3>1. key = j /\ run' = [run EXCEPT ![j] = "done"]
        BY <1>7, <2>1 DEF J!Clear, J!Cancel
      <3> QED
        BY <3>1
    <2>2. CASE run[j] \notin J!Holding
      <3>1. key' = key /\ run' = [run EXCEPT ![j] = "done"]
        BY <1>7, <2>2 DEF J!Clear, J!Cancel
      <3> QED
        BY <3>1
    <2> QED
      BY <2>1, <2>2
  <1>8. ASSUME NEW j \in J!Jobs, J!TaskEnds(j) \/ J!Reap(j) PROVE J!HolderOwnsKey'
    BY <1>8 DEF J!TaskEnds, J!Reap
  <1>9. CASE J!OlderTaskEnds \/ J!Crash \/ J!KeyExpires \/ UNCHANGED J!vars
    BY <1>9 DEF J!OlderTaskEnds, J!Crash, J!KeyExpires, J!vars, J!Live
  <1> QED
    BY <1>1, <1>2, <1>3, <1>4, <1>5, <1>6, <1>7, <1>8, <1>9, Zenon DEF J!Next, J!Step

\* Only a download that delivered is completed, and what is on disk stays there.
LEMMA DiskKeeps == JobInv /\ [J!Next]_(J!vars) => DeliveredIsOnDisk' /\ J!CompletedIsOnDisk'
  <1> SUFFICES ASSUME JobInv, [J!Next]_(J!vars) PROVE DeliveredIsOnDisk' /\ J!CompletedIsOnDisk'
    OBVIOUS
  <1> USE DEF JobInv, KindsApart, DeliveredIsOnDisk, J!CompletedIsOnDisk, J!Terminal, J!Holding, J!Write, J!Goto, J!Jobs
  <1>1. ASSUME NEW j \in J!Jobs, J!RequestDownload(j) \/ J!RequestLoad(j)
        PROVE  DeliveredIsOnDisk' /\ J!CompletedIsOnDisk'
    BY <1>1 DEF J!RequestDownload, J!RequestLoad
  <1>2. ASSUME NEW j \in J!Jobs, J!Enqueue(j) \/ J!Begin(j) \/ J!PostLoad(j)
        PROVE  DeliveredIsOnDisk' /\ J!CompletedIsOnDisk'
    BY <1>2 DEF J!Enqueue, J!Begin, J!PostLoad
  <1>3. ASSUME NEW j \in J!Jobs, J!Claim(j) PROVE DeliveredIsOnDisk' /\ J!CompletedIsOnDisk'
    BY <1>3 DEF J!Claim, J!TakeSlot
  <1>4. ASSUME NEW j \in J!Jobs, J!Submit(j) PROVE DeliveredIsOnDisk' /\ J!CompletedIsOnDisk'
    BY <1>4 DEF J!Submit
  <1>5. ASSUME NEW j \in J!Jobs, J!StreamDone(j) \/ J!StreamBreaks(j) \/ J!StreamFails(j)
        PROVE  DeliveredIsOnDisk' /\ J!CompletedIsOnDisk'
    BY <1>5 DEF J!StreamDone, J!StreamBreaks, J!StreamFails, J!Delivered
  <1>6. ASSUME NEW j \in J!Jobs, J!Retry(j) \/ J!Clear(j) \/ J!Cancel(j)
        PROVE  DeliveredIsOnDisk' /\ J!CompletedIsOnDisk'
    BY <1>6 DEF J!Retry, J!Clear, J!Cancel
  <1>7. ASSUME NEW j \in J!Jobs, J!TaskEnds(j) PROVE DeliveredIsOnDisk' /\ J!CompletedIsOnDisk'
    <2>1. PICK outcome \in {"done", "error"} :
             task' = [task EXCEPT ![j] = outcome] /\ onDisk' = (onDisk \/ outcome = "done") /\ row' = row
      BY <1>7 DEF J!TaskEnds
    <2>2. CASE outcome = "done"
      <3>1. onDisk'
        BY <2>1, <2>2
      <3> QED
        BY <3>1
    <2>3. CASE outcome = "error"
      <3>1. (onDisk' <=> onDisk) /\ \A i \in J!Jobs : task'[i] = "done" => task[i] = "done"
        BY <2>1, <2>3
      <3> QED
        BY <2>1, <3>1
    <2> QED
      BY <2>2, <2>3
  <1>8. ASSUME NEW j \in J!Jobs, J!Reap(j) PROVE DeliveredIsOnDisk' /\ J!CompletedIsOnDisk'
    BY <1>8 DEF J!Reap, J!Reapable
  <1>9. CASE J!OlderTaskEnds
    <2>1. UNCHANGED <<row, task>> /\ (onDisk' = onDisk \/ onDisk' = TRUE)
      BY <1>9 DEF J!OlderTaskEnds
    <2>2. onDisk => onDisk'
      BY <2>1, Zenon
    <2> QED
      BY <2>1, <2>2
  <1>10. CASE J!Crash \/ J!KeyExpires \/ UNCHANGED J!vars
    BY <1>10 DEF J!Crash, J!KeyExpires, J!vars
  <1> QED
    BY <1>1, <1>2, <1>3, <1>4, <1>5, <1>6, <1>7, <1>8, <1>9, <1>10, Zenon DEF J!Next, J!Step

\* The victims of an eviction plan are still the right ones, a worker that failed its
\* models retries before it offers itself, whoever downloads owns the key of the mode,
\* which is deleted without a look at its value (clear_download_in_progress), and a
\* download that reports success left its weights on disk, through crashes, redelivered
\* runs, expiry and cancellation.
THEOREM PlansKeepTrue == AllSpec => PlansStayTrue
  <1>1. AllInit => Init /\ JobInv
    BY JobInit DEF AllInit
  <1>2. [AllNext]_allVars => [Next]_vars /\ [J!Next]_(J!vars)
    BY DEF AllNext, Cache, Job, allVars, jobVars, vars, J!vars
  <1>3. AllSpec => Spec
    BY <1>1, <1>2, PTL DEF AllSpec, Spec
  <1>4. JobInv /\ [AllNext]_allVars => JobInv'
    BY <1>2, PartConstants, KindsKeep, KeyKeeps, DiskKeeps DEF JobInv
  <1>5. AllSpec => []JobInv
    BY <1>1, <1>4, PTL DEF AllSpec
  <1>6. JobInv => J!HolderOwnsKey /\ J!CompletedIsOnDisk
    BY DEF JobInv
  <1> QED
    BY <1>3, <1>5, <1>6, PlanStaysRight, RetriedFirst, PTL DEF PlansStayTrue
=============================================================================
