---------------------------- MODULE LibraryProofs ----------------------------
(***************************************************************************)
(* Proofs about the parts of the library that MCLibrary puts side by side: *)
(* the versions and takes of a song (SongTakes), the curation and sharing  *)
(* of takes (Curation), albums and their trash (AlbumTrash), the order of  *)
(* a playlist (PlaylistOrder), the pages of a search (LibrarySearch) and   *)
(* the co-writer's turns (Conversation), for any requests and jobs and any *)
(* bounds.  A behaviour of MCLibrary is one of each part: a part that is   *)
(* not at work does not change.                                            *)
(***************************************************************************)
EXTENDS MCLibrary, Sequences, FiniteSetTheorems, WellFoundedInduction, TLAPS
-----------------------------------------------------------------------------
\* A non-empty set of naturals has a least element.
LEMMA SmallestNat ==
    ASSUME NEW S \in SUBSET Nat, S # {}
    PROVE  \E n \in S : \A k \in S : n <= k
  <1>1. \A x, y \in Nat : x < y => <<x, y>> \in OpToRel(<, Nat)
    BY DEF OpToRel
  <1>2. PICK R : IsWellFoundedOn(R, Nat) /\ \A x, y \in Nat : x < y => <<x, y>> \in R
    <2>1. \E R : IsWellFoundedOn(R, Nat) /\ \A x, y \in Nat : x < y => <<x, y>> \in R
      BY NatLessThanWellFounded, <1>1, Zenon
    <2> QED
      BY <2>1, Zenon
  <1>3. S \subseteq Nat /\ IsWellFoundedOn(R, Nat)
    BY <1>2, Zenon
  <1>4. PICK x \in S : \A y \in S : ~(<<y, x>> \in R)
    <2>1. \E x \in S : \A y \in S : ~(<<y, x>> \in R)
      BY <1>3, WFMin, Zenon
    <2> QED
      BY <2>1, Zenon
  <1>5. \A y \in S : ~(y < x)
    BY <1>2, <1>3, <1>4, Zenon
  <1> QED
    BY <1>3, <1>5

\* One that has an upper bound has a greatest: the least upper bound is in it.
LEMMA LargestNat ==
    ASSUME NEW S \in SUBSET Nat, S # {}, NEW b \in Nat, \A k \in S : k <= b
    PROVE  \E n \in S : \A k \in S : k <= n
  <1> DEFINE Above == {n \in Nat : \A k \in S : k <= n}
  <1>1. Above \in SUBSET Nat /\ Above # {}
    OBVIOUS
  <1>2. PICK n \in Above : \A m \in Above : n <= m
    <2> HIDE DEF Above
    <2> QED
      BY <1>1, SmallestNat
  <1>3. ASSUME n \notin S PROVE FALSE
    <2>1. PICK k \in S : TRUE
      OBVIOUS
    <2>2. \A i \in S : i <= n - 1
      BY <1>3
    <2>3. n - 1 \in Above
      BY <2>1, <2>2
    <2> QED
      BY <1>2, <2>3
  <1> QED
    BY <1>2, <1>3

\* Max finds it, in each part.
LEMMA MaxOfNats ==
    ASSUME NEW S \in SUBSET Nat, S # {}, NEW b \in Nat, \A k \in S : k <= b
    PROVE  /\ T!Max(S) \in S /\ \A k \in S : k <= T!Max(S)
           /\ C!Max(S) \in S /\ \A k \in S : k <= C!Max(S)
           /\ P!Max(S) \in S /\ \A k \in S : k <= P!Max(S)
  <1>1. \E n \in S : \A k \in S : n >= k
    BY LargestNat
  <1> QED
    BY <1>1 DEF T!Max, C!Max, P!Max

-----------------------------------------------------------------------------
(***************************************************************************)
(* SongTakes.                                                              *)
(***************************************************************************)

\* What a save knows.
SaveRow ==
    [pc : {"idle", "locked", "checked"}, words : Words \cup {Keep}, params : Params \cup {Keep},
     force : BOOLEAN, busy : BOOLEAN, prev : T!VersionIds \cup {None},
     seen : T!Version \cup {None}]

\* What a deletion knows, and a job's row.
DropRow ==
    [pc : {"idle", "locked", "checked"}, version : T!VersionIds \cup {None}, takes : BOOLEAN]
JobRow ==
    [st : {"none", "asked", "queued", "running", "ended"}, version : T!VersionIds \cup {None},
     words : Words \cup {None}, src : T!TakeIds \cup {None}]

\* The rows of a song, what its requests hold and what its jobs read.
SongType ==
    /\ version \in [T!VersionIds -> T!Version \cup {None}]
    /\ made \in T!VersionIds
    /\ take \in [T!TakeIds -> T!Take \cup {None}]
    /\ taken \in 0..MaxTakes
    /\ job \in [Jobs -> JobRow]
    /\ save \in [Savers -> SaveRow]
    /\ drop \in DropRow

\* The takes are numbered up to the number of takes made.
TakesNumbered == \A t \in T!Takes : take[t].number <= taken

\* So are the versions.
VersionsCounted == \A v \in T!Live : v <= made

\* A save holds the song row, and what it loaded under it is still true.
SaveHolds ==
    \A s \in Savers : save[s].pc # "idle" =>
        /\ lock = s
        /\ save[s].prev = T!Latest
        /\ T!Latest # None => save[s].seen = version[T!Latest]

\* So does the deletion of a version.
DropHolds == drop.pc # "idle" => lock = "drop" /\ drop.version \in T!VersionIds

\* What they found about the jobs of their version stays true while they hold it:
\* no job becomes active under their lock.
CheckHolds ==
    /\ \A s \in Savers : (save[s].pc = "checked" /\ ~save[s].busy /\ save[s].prev # None) =>
                            ~T!HasActiveJob(save[s].prev)
    /\ drop.pc = "checked" => ~T!HasActiveJob(drop.version)

\* An active job renders a version that is there, and a running one has its words.
JobsStand ==
    \A j \in Jobs : job[j].st \in T!Active =>
        /\ job[j].version \in T!Live
        /\ job[j].st = "running" => job[j].words = version[job[j].version].words

\* The inductive invariant of a song.
SongInv ==
    /\ SongType /\ TakesNumbered /\ VersionsCounted
    /\ SaveHolds /\ DropHolds /\ CheckHolds
    /\ JobsStand /\ T!TakeKeepsItsWords

\* The last of some versions.
LEMMA LatestVersion ==
    ASSUME NEW S \in SUBSET T!VersionIds, S # {}
    PROVE  T!Max(S) \in S /\ \A v \in S : v <= T!Max(S)
  <1>1. S \in SUBSET Nat /\ \A v \in S : v <= MaxVersions
    BY PartConstants DEF T!SongConstants, T!VersionIds
  <1>2. MaxVersions \in Nat
    BY PartConstants DEF T!SongConstants
  <1> QED
    BY <1>1, <1>2, MaxOfNats

\* A version that is there has a row, and the latest one is the last of them.
LEMMA LatestIsLast ==
    ASSUME SongType
    PROVE  /\ \A v \in T!Live : v \in T!VersionIds /\ version[v] \in T!Version
           /\ IF T!Live = {} THEN T!Latest = None
              ELSE T!Latest \in T!Live /\ \A v \in T!Live : v <= T!Latest
           /\ T!Latest # None <=> T!Live # {}
  <1>1. \A v \in T!Live : v \in T!VersionIds /\ version[v] \in T!Version
    BY DEF SongType, T!Live
  <1>2. T!Live # {} => T!Max(T!Live) \in T!Live /\ \A v \in T!Live : v <= T!Max(T!Live)
    BY <1>1, LatestVersion
  <1>3. None \notin T!VersionIds
    BY PartConstants DEF T!SongConstants
  <1> QED
    BY <1>1, <1>2, <1>3 DEF T!Latest

\* A take that is there has a row.
LEMMA TakeRows ==
    ASSUME SongType PROVE \A t \in T!Takes : t \in T!TakeIds /\ take[t] \in T!Take
  BY DEF SongType, T!Takes

\* A song starts with its first version and without takes, jobs and requests.
LEMMA SongInit == T!Init => SongInv
  <1> SUFFICES ASSUME T!Init PROVE SongInv
    OBVIOUS
  <1>1. 1 \in T!VersionIds /\ 0 \in 0..MaxTakes
    BY PartConstants DEF T!SongConstants, T!VersionIds
  <1>2. SongType
    <2>1. version \in [T!VersionIds -> T!Version \cup {None}]
      BY DEF T!Init, T!Version
    <2>2. take \in [T!TakeIds -> T!Take \cup {None}]
      BY DEF T!Init
    <2>3. save \in [Savers -> SaveRow]
      BY DEF T!Init, T!NoSave, SaveRow
    <2> QED
      BY <1>1, <2>1, <2>2, <2>3 DEF T!Init, SongType, DropRow, JobRow, T!NoDrop, T!NoJob
  <1>3. T!Takes = {}
    BY DEF T!Init, T!Takes
  <1>4. SaveHolds /\ DropHolds /\ CheckHolds /\ JobsStand
    BY DEF T!Init, SaveHolds, DropHolds, CheckHolds, JobsStand, T!NoSave, T!NoDrop, T!NoJob, T!Active
  <1>5. VersionsCounted
    BY DEF T!Init, T!Live, VersionsCounted
  <1> QED
    BY <1>2, <1>3, <1>4, <1>5 DEF SongInv, TakesNumbered, T!TakeKeepsItsWords

\* A step that leaves the versions alone leaves what is said of them alone.
LEMMA RowsStay ==
    /\ version' = version => T!Live' = T!Live /\ T!Latest' = T!Latest
    /\ version' = version /\ made' = made /\ VersionsCounted => VersionsCounted'
  BY DEF T!Live, T!Latest, VersionsCounted

\* A step that leaves the takes alone leaves what is said of them alone.
LEMMA TakesStay ==
    ASSUME version' = version, take' = take, taken' = taken
    PROVE  (TakesNumbered => TakesNumbered') /\ (T!TakeKeepsItsWords => T!TakeKeepsItsWords')
  BY RowsStay DEF T!Takes, TakesNumbered, T!TakeKeepsItsWords

\* A save that gets the song row loads what is true of it.
LEMMA LockSongKeeps ==
    ASSUME SongInv, NEW s \in Savers, NEW w \in Words \cup {Keep}, NEW p \in Params \cup {Keep},
           NEW f \in BOOLEAN, T!LockSong(s, T!Loaded(w, p, f))
    PROVE  SongInv'
  <1> DEFINE r == T!Loaded(w, p, f)
  <1>1. UNCHANGED <<version, made, take, taken, job, drop, trashed>> /\ lock = None /\ lock' = s
        /\ save' = [save EXCEPT ![s] = r]
    BY DEF T!LockSong
  <1>2. r \in SaveRow
    BY LatestIsLast DEF SongInv, T!Loaded, SaveRow
  <1>3. SongType'
    <2> HIDE DEF r
    <2> QED
      BY <1>1, <1>2 DEF SongInv, SongType
  <1>4. \A q \in Savers : save[q].pc = "idle"
    BY <1>1, PartConstants DEF SongInv, SaveHolds, T!SongConstants
  <1>5. drop.pc = "idle"
    BY <1>1, PartConstants DEF SongInv, DropHolds, T!SongConstants
  <1>6. T!Latest' = T!Latest
    BY <1>1, RowsStay
  <1>7. r.pc = "locked" /\ r.prev = T!Latest /\ (T!Latest # None => r.seen = version[T!Latest])
    BY DEF T!Loaded
  <1>8. \A q \in Savers : save'[q] = IF q = s THEN r ELSE save[q]
    BY <1>1 DEF SongInv, SongType
  <1> HIDE DEF r
  <1>9. SaveHolds'
    BY <1>1, <1>4, <1>6, <1>7, <1>8 DEF SaveHolds
  <1>10. DropHolds' /\ CheckHolds'
    BY <1>1, <1>4, <1>5, <1>7, <1>8 DEF DropHolds, CheckHolds
  <1>11. JobsStand'
    BY <1>1, RowsStay DEF SongInv, JobsStand
  <1>12. TakesNumbered' /\ T!TakeKeepsItsWords' /\ VersionsCounted'
    BY <1>1, TakesStay, RowsStay DEF SongInv
  <1> QED
    BY <1>3, <1>9, <1>10, <1>11, <1>12 DEF SongInv

\* A save looks for jobs of the version it may rewrite.
LEMMA CheckJobsKeeps ==
    ASSUME SongInv, NEW s \in Savers, T!CheckJobs(s)
    PROVE  SongInv'
  <1>1. UNCHANGED <<version, made, take, taken, job, lock, drop, trashed>> /\ save[s].pc = "locked"
    BY DEF T!CheckJobs
  <1>2. PICK b \in BOOLEAN : b = (save[s].prev # None /\ T!HasActiveJob(save[s].prev))
    BY Zenon
  <1>3. save' = [save EXCEPT ![s].pc = "checked", ![s].busy = b]
    BY <1>2, Zenon DEF T!CheckJobs
  <1>4. SongType'
    <2>1. save[s] \in SaveRow
      BY DEF SongInv, SongType
    <2>2. [save[s] EXCEPT !.pc = "checked", !.busy = b] \in SaveRow
      BY <2>1 DEF SaveRow
    <2>3. save' = [save EXCEPT ![s] = [save[s] EXCEPT !.pc = "checked", !.busy = b]]
      BY <1>3
    <2> QED
      BY <1>1, <2>2, <2>3 DEF SongInv, SongType
  <1>5. \A q \in Savers : q # s => save'[q] = save[q]
    BY <1>3 DEF SongInv, SongType
  <1>6. save'[s].pc = "checked" /\ save'[s].busy = b
        /\ save'[s].prev = save[s].prev /\ save'[s].seen = save[s].seen
    BY <1>3 DEF SongInv, SongType, SaveRow
  <1>7. T!Latest' = T!Latest
    BY <1>1, RowsStay
  <1>8. SaveHolds'
    BY <1>1, <1>5, <1>6, <1>7 DEF SongInv, SaveHolds
  <1>9. DropHolds'
    BY <1>1 DEF SongInv, DropHolds
  <1>10. CheckHolds'
    <2>1. \A v : T!HasActiveJob(v)' <=> T!HasActiveJob(v)
      BY <1>1 DEF T!HasActiveJob
    <2>2. save[s].prev # None /\ ~b => ~T!HasActiveJob(save[s].prev)
      BY <1>2, Zenon
    <2> QED
      BY <1>1, <1>5, <1>6, <2>1, <2>2 DEF SongInv, CheckHolds
  <1>11. JobsStand'
    BY <1>1, RowsStay DEF SongInv, JobsStand
  <1>12. TakesNumbered' /\ T!TakeKeepsItsWords' /\ VersionsCounted'
    BY <1>1, TakesStay, RowsStay DEF SongInv
  <1> QED
    BY <1>4, <1>8, <1>9, <1>10, <1>11, <1>12 DEF SongInv

\* A save that is rolled back leaves the row.
LEMMA RollbackKeeps ==
    ASSUME SongInv, NEW s \in Savers, T!RollbackSave(s)
    PROVE  SongInv'
  <1>1. UNCHANGED <<version, made, take, taken, job, drop, trashed>> /\ lock' = None
        /\ save' = [save EXCEPT ![s] = T!NoSave] /\ lock = s
    BY DEF SongInv, SaveHolds, T!RollbackSave
  <1>2. \A q \in Savers : save'[q].pc = "idle"
    BY <1>1 DEF SongInv, SongType, SaveHolds, T!NoSave
  <1>3. drop.pc = "idle"
    BY <1>1, PartConstants DEF SongInv, SongType, DropHolds, T!SongConstants
  <1>4. SongType'
    BY <1>1 DEF SongInv, SongType, SaveRow, T!NoSave
  <1>5. SaveHolds' /\ DropHolds' /\ CheckHolds'
    BY <1>1, <1>2, <1>3 DEF SaveHolds, DropHolds, CheckHolds
  <1>6. JobsStand'
    BY <1>1, RowsStay DEF SongInv, JobsStand
  <1>7. TakesNumbered' /\ T!TakeKeepsItsWords' /\ VersionsCounted'
    BY <1>1, TakesStay, RowsStay DEF SongInv
  <1> QED
    BY <1>4, <1>5, <1>6, <1>7 DEF SongInv

\* The content of a save is a version's.
LEMMA ContentTyped ==
    ASSUME NEW r \in SaveRow
    PROVE  T!Content(r).words \in Words /\ T!Content(r).params \in Params
  <1>1. (CHOOSE w \in Words : TRUE) \in Words /\ (CHOOSE p \in Params : TRUE) \in Params
    BY PartConstants DEF T!SongConstants
  <1>2. r.seen # None => r.seen.words \in Words /\ r.seen.params \in Params
    BY DEF SaveRow, T!Version
  <1> QED
    BY <1>1, <1>2 DEF SaveRow, T!Content

\* A save that commits leaves the words of a version with takes or active jobs alone.
LEMMA CommitSpares ==
    ASSUME SongInv, NEW s \in Savers, T!CommitSave(s)
    PROVE  /\ version' \in [T!VersionIds -> T!Version \cup {None}]
           /\ made' \in T!VersionIds
           /\ VersionsCounted'
           /\ \A v \in T!Live :
                /\ v \in T!Live'
                /\ T!HasTakes(v) \/ T!HasActiveJob(v) => version'[v].words = version[v].words
  <1> DEFINE r == save[s]
             next == made + 1
             Row(n) == [number |-> n, words |-> T!Content(r).words, params |-> T!Content(r).params]
  <1>1. r \in SaveRow
    BY DEF SongInv, SongType
  <1>2. r.pc = "checked" /\ r.prev = T!Latest /\ (T!Latest # None => r.seen = version[T!Latest])
    BY DEF SongInv, SaveHolds, T!CommitSave
  <1>3. r.prev # None => r.prev \in T!Live /\ r.seen \in T!Version /\ r.seen = version[r.prev]
    BY <1>2, LatestIsLast DEF SongInv
  <1>4. \A n \in Nat : Row(n) \in T!Version
    BY <1>1, ContentTyped DEF T!Version
  <1>5. None \notin T!Version
    BY PartConstants DEF T!SongConstants
  <1>6. version \in [T!VersionIds -> T!Version \cup {None}] /\ made \in T!VersionIds
    BY DEF SongInv, SongType
  <1>7. CASE r.prev # None /\ T!RewritesInPlace(r)
    <2>1. version' = [version EXCEPT ![r.prev] = Row(r.seen.number)] /\ made' = made
      BY <1>7 DEF T!CommitSave
    <2>2. r.seen.number \in Nat
      BY <1>3, <1>7 DEF T!Version
    <2> HIDE DEF Row
    <2>3. Row(r.seen.number) \in T!Version
      BY <1>4, <2>2
    <2>4. version' \in [T!VersionIds -> T!Version \cup {None}]
      BY <1>6, <2>1, <2>3
    <2>5. T!Live' = T!Live
      BY <1>3, <1>5, <1>6, <1>7, <2>1, <2>3 DEF T!Live
    <2>6. ASSUME T!HasTakes(r.prev) \/ T!HasActiveJob(r.prev)
          PROVE  Row(r.seen.number).words = r.seen.words
      <3>1. T!HasActiveJob(r.prev) => r.busy
        BY <1>1, <1>2, <1>7 DEF SongInv, CheckHolds
      <3>2. T!Content(r).words = r.seen.words
        BY <1>7, <2>6, <3>1 DEF T!RewritesInPlace, T!Differs, T!CreativeDiffers
      <3> QED
        BY <3>2 DEF Row
    <2>7. \A v \in T!Live : T!HasTakes(v) \/ T!HasActiveJob(v) => version'[v].words = version[v].words
      BY <1>3, <1>6, <1>7, <2>1, <2>6 DEF T!Live
    <2>8. VersionsCounted'
      BY <2>1, <2>5 DEF SongInv, VersionsCounted
    <2> QED
      BY <1>6, <2>1, <2>4, <2>5, <2>7, <2>8
  <1>8. CASE ~(r.prev # None /\ T!RewritesInPlace(r))
    <2>1. PICK n \in Nat : version' = [version EXCEPT ![next] = Row(n)] /\ made' = next
      <3>1. r.prev # None => r.seen.number + 1 \in Nat
        BY <1>3 DEF T!Version
      <3> QED
        BY <1>8, <3>1 DEF T!CommitSave
    <2>2. next \in T!VersionIds
      BY <1>6, <1>8, PartConstants DEF T!CommitSave, T!SongConstants, T!VersionIds
    <2>3. \A v \in T!Live : v \in T!VersionIds /\ v <= made
      BY DEF SongInv, VersionsCounted, T!Live
    <2>4. \A v \in T!Live : v # next
      BY <2>3, <1>6 DEF T!VersionIds
    <2>5. Row(n) \in T!Version
      BY <1>4
    <2> HIDE DEF Row, next
    <2>6. version' \in [T!VersionIds -> T!Version \cup {None}]
      BY <1>6, <2>1, <2>2, <2>5
    <2>7. T!Live' = T!Live \cup {next}
      BY <1>5, <1>6, <2>1, <2>2, <2>5 DEF T!Live
    <2>8. VersionsCounted'
      <3>1. \A v \in T!Live : v <= next
        BY <2>3, <1>6 DEF T!VersionIds, next
      <3>2. next <= next
        BY <1>6 DEF T!VersionIds, next
      <3> QED
        BY <2>1, <2>7, <3>1, <3>2 DEF VersionsCounted
    <2>9. \A v \in T!Live : version'[v] = version[v]
      BY <1>6, <2>1, <2>3, <2>4
    <2> QED
      BY <2>1, <2>2, <2>6, <2>7, <2>8, <2>9
  <1> QED
    BY <1>7, <1>8

\* A step that spares the words of versions with takes or active jobs keeps what
\* takes and jobs say of them.
LEMMA WordsSpared ==
    ASSUME SongInv, job' = job, take' = take, taken' = taken,
           \A v \in T!Live :
             /\ v \in T!Live'
             /\ T!HasTakes(v) \/ T!HasActiveJob(v) => version'[v].words = version[v].words
    PROVE  JobsStand' /\ TakesNumbered' /\ T!TakeKeepsItsWords'
  <1>1. T!Takes' = T!Takes
    BY DEF T!Takes
  <1>2. JobsStand'
    BY DEF SongInv, JobsStand, T!HasActiveJob
  <1>3. TakesNumbered'
    BY <1>1 DEF SongInv, TakesNumbered
  <1>4. T!TakeKeepsItsWords'
    BY <1>1 DEF SongInv, T!TakeKeepsItsWords, T!HasTakes
  <1> QED
    BY <1>2, <1>3, <1>4

\* A save that commits leaves the row.
LEMMA CommitSaveKeeps ==
    ASSUME SongInv, NEW s \in Savers, T!CommitSave(s)
    PROVE  SongInv'
  <1>1. UNCHANGED <<take, taken, job, drop, trashed>> /\ lock' = None
        /\ save' = [save EXCEPT ![s] = T!NoSave] /\ lock = s
    BY DEF SongInv, SaveHolds, T!CommitSave
  <1>2. \A q \in Savers : save'[q].pc = "idle"
    BY <1>1 DEF SongInv, SongType, SaveHolds, T!NoSave
  <1>3. drop.pc = "idle"
    BY <1>1, PartConstants DEF SongInv, SongType, DropHolds, T!SongConstants
  <1>4. SongType'
    BY <1>1, CommitSpares DEF SongInv, SongType, SaveRow, T!NoSave
  <1>5. SaveHolds' /\ DropHolds' /\ CheckHolds'
    BY <1>1, <1>2, <1>3 DEF SaveHolds, DropHolds, CheckHolds
  <1>6. JobsStand' /\ TakesNumbered' /\ T!TakeKeepsItsWords'
    BY <1>1, CommitSpares, WordsSpared
  <1>7. VersionsCounted'
    BY CommitSpares
  <1> QED
    BY <1>4, <1>5, <1>6, <1>7 DEF SongInv

\* A deletion gets the song row.
LEMMA LockDropKeeps ==
    ASSUME SongInv, NEW v \in T!VersionIds, NEW b \in BOOLEAN, T!LockDrop(v, b)
    PROVE  SongInv'
  <1>1. UNCHANGED <<version, made, take, taken, job, save, trashed>> /\ lock = None /\ lock' = "drop"
        /\ drop' = [pc |-> "locked", version |-> v, takes |-> b]
    BY DEF T!LockDrop
  <1>2. SongType'
    BY <1>1 DEF SongInv, SongType, DropRow
  <1>3. \A s \in Savers : save[s].pc = "idle"
    BY <1>1, PartConstants DEF SongInv, SaveHolds, T!SongConstants
  <1>4. SaveHolds' /\ DropHolds' /\ CheckHolds'
    BY <1>1, <1>3 DEF SaveHolds, DropHolds, CheckHolds
  <1>5. JobsStand'
    BY <1>1, RowsStay DEF SongInv, JobsStand
  <1>6. TakesNumbered' /\ T!TakeKeepsItsWords' /\ VersionsCounted'
    BY <1>1, TakesStay, RowsStay DEF SongInv
  <1> QED
    BY <1>2, <1>4, <1>5, <1>6 DEF SongInv

\* It looks for jobs of the version.
LEMMA CheckDropKeeps == ASSUME SongInv, T!CheckDrop PROVE SongInv'
  <1>1. UNCHANGED <<version, made, take, taken, job, save, trashed>> /\ drop.pc = "locked"
        /\ lock = "drop"
    BY DEF SongInv, DropHolds, T!CheckDrop
  <1>2. \/ drop' = T!NoDrop /\ lock' = None
        \/ /\ drop' = [drop EXCEPT !.pc = "checked"] /\ lock' = lock
           /\ ~T!HasActiveJob(drop.version)
    BY DEF T!CheckDrop
  <1>3. drop'.pc = "idle" \/ (drop'.pc = "checked" /\ drop'.version = drop.version /\ lock' = lock
                              /\ ~T!HasActiveJob(drop.version))
    BY <1>2 DEF SongInv, SongType, DropRow, T!NoDrop
  <1>4. SongType'
    <2>1. T!NoDrop \in DropRow /\ [drop EXCEPT !.pc = "checked"] \in DropRow
      BY DEF SongInv, SongType, T!NoDrop, DropRow
    <2> QED
      BY <1>1, <1>2, <2>1 DEF SongInv, SongType
  <1>5. \A s \in Savers : save[s].pc = "idle"
    BY <1>1, PartConstants DEF SongInv, SaveHolds, T!SongConstants
  <1>6. \A v : T!HasActiveJob(v)' <=> T!HasActiveJob(v)
    BY <1>1 DEF T!HasActiveJob
  <1>7. SaveHolds' /\ DropHolds'
    BY <1>1, <1>3, <1>5 DEF SongInv, SaveHolds, DropHolds
  <1>8. CheckHolds'
    BY <1>1, <1>3, <1>5, <1>6 DEF CheckHolds
  <1>9. JobsStand'
    BY <1>1, RowsStay DEF SongInv, JobsStand
  <1>10. TakesNumbered' /\ T!TakeKeepsItsWords' /\ VersionsCounted'
    BY <1>1, TakesStay, RowsStay DEF SongInv
  <1> QED
    BY <1>4, <1>7, <1>8, <1>9, <1>10 DEF SongInv

\* Deleting takes leaves the others their number, version and words.
LEMMA WithoutTakesSpares ==
    ASSUME SongType, NEW gone \in SUBSET T!TakeIds
    PROVE  /\ T!WithoutTakes(gone) \in [T!TakeIds -> T!Take \cup {None}]
           /\ \A t \in T!TakeIds : T!WithoutTakes(gone)[t] # None =>
                /\ t \in T!Takes \ gone
                /\ T!WithoutTakes(gone)[t].number = take[t].number
                /\ T!WithoutTakes(gone)[t].version = take[t].version
                /\ T!WithoutTakes(gone)[t].words = take[t].words
  <1>1. \A t \in T!TakeIds : take[t] # None => take[t] \in T!Take
    BY DEF SongType
  <1>2. \A r \in T!Take : [r EXCEPT !.src = None] \in T!Take
    BY DEF T!Take
  <1>3. T!WithoutTakes(gone) \in [T!TakeIds -> T!Take \cup {None}]
    BY <1>1, <1>2 DEF T!WithoutTakes
  <1>4. \A r \in T!Take : LET q == [r EXCEPT !.src = None] IN
                            q.number = r.number /\ q.version = r.version /\ q.words = r.words
    BY DEF T!Take
  <1>5. ASSUME NEW t \in T!TakeIds, T!WithoutTakes(gone)[t] # None
        PROVE  /\ t \in T!Takes \ gone
               /\ T!WithoutTakes(gone)[t] = take[t]
                    \/ T!WithoutTakes(gone)[t] = [take[t] EXCEPT !.src = None]
    BY <1>5 DEF T!WithoutTakes, T!Takes
  <1> QED
    BY <1>1, <1>3, <1>4, <1>5 DEF T!Takes

\* Taking the version away from takes leaves them their number and words.
LEMMA ReleaseSpares ==
    ASSUME SongType, NEW v \in T!VersionIds, NEW b \in BOOLEAN
    PROVE  /\ T!ReleaseGenerations(v, b) \in [T!TakeIds -> T!Take \cup {None}]
           /\ \A t \in T!TakeIds : T!ReleaseGenerations(v, b)[t] # None =>
                /\ t \in T!Takes
                /\ T!ReleaseGenerations(v, b)[t].number = take[t].number
                /\ T!ReleaseGenerations(v, b)[t].words = take[t].words
                /\ \/ T!ReleaseGenerations(v, b)[t].version = None
                   \/ /\ T!ReleaseGenerations(v, b)[t].version = take[t].version
                      /\ take[t].version # v
  <1> DEFINE mine == {t \in T!Takes : take[t].version = v}
             left == T!ReleaseGenerations(v, b)
  <1>1. mine \in SUBSET T!TakeIds
    BY DEF T!Takes
  <1>2. CASE b
    <2>1. left = T!WithoutTakes(mine)
      BY <1>2 DEF T!ReleaseGenerations
    <2>2. \A t \in T!Takes \ mine : take[t].version # v
      OBVIOUS
    <2> HIDE DEF mine, left
    <2> QED
      BY <1>1, <2>1, <2>2, WithoutTakesSpares DEF left
  <1>3. CASE ~b
    <2>1. left = [t \in T!TakeIds |-> IF t \in mine THEN [take[t] EXCEPT !.version = None] ELSE take[t]]
      BY <1>3 DEF T!ReleaseGenerations
    <2>2. \A t \in T!TakeIds : take[t] # None => take[t] \in T!Take
      BY DEF SongType
    <2>3. \A r \in T!Take : /\ [r EXCEPT !.version = None] \in T!Take
                            /\ LET q == [r EXCEPT !.version = None] IN
                                 q.number = r.number /\ q.version = None /\ q.words = r.words
      BY DEF T!Take
    <2>4. \A t \in T!TakeIds : t \in mine <=> (take[t] # None /\ take[t].version = v)
      BY DEF T!Takes
    <2>5. take \in [T!TakeIds -> T!Take \cup {None}]
      BY DEF SongType
    <2> HIDE DEF mine, left
    <2>6. left \in [T!TakeIds -> T!Take \cup {None}]
      BY <2>1, <2>2, <2>3, <2>4, <2>5
    <2>7. \A t \in T!TakeIds : left[t] # None =>
                /\ t \in T!Takes
                /\ left[t].number = take[t].number
                /\ left[t].words = take[t].words
                /\ left[t].version = None \/ (left[t].version = take[t].version /\ take[t].version # v)
      BY <2>1, <2>2, <2>3, <2>4 DEF T!Takes
    <2> QED
      BY <2>6, <2>7 DEF left
  <1> QED
    BY <1>2, <1>3

\* Deleting takes spares the words of the others.
LEMMA DeleteTakesKeeps == ASSUME SongInv, NEW ts \in SUBSET T!Takes, T!DeleteTakes(ts) PROVE SongInv'
  <1>1. UNCHANGED <<version, made, taken, job, lock, save, drop, trashed>>
        /\ take' = T!WithoutTakes(ts)
    BY DEF T!DeleteTakes
  <1>2. ts \in SUBSET T!TakeIds
    BY DEF T!Takes
  <1>3. SongType'
    BY <1>1, <1>2, WithoutTakesSpares DEF SongInv, SongType
  <1>4. \A t \in T!Takes' : /\ t \in T!Takes
                            /\ take'[t].number = take[t].number
                            /\ take'[t].version = take[t].version
                            /\ take'[t].words = take[t].words
    BY <1>1, <1>2, WithoutTakesSpares DEF SongInv, T!Takes
  <1>5. TakesNumbered' /\ T!TakeKeepsItsWords'
    BY <1>1, <1>4, RowsStay DEF SongInv, TakesNumbered, T!TakeKeepsItsWords
  <1>6. \A v : T!HasActiveJob(v)' <=> T!HasActiveJob(v)
    BY <1>1 DEF T!HasActiveJob
  <1>7. SaveHolds' /\ DropHolds' /\ CheckHolds' /\ JobsStand' /\ VersionsCounted'
    BY <1>1, <1>6, RowsStay DEF SongInv, SaveHolds, DropHolds, CheckHolds, JobsStand
  <1> QED
    BY <1>3, <1>5, <1>7 DEF SongInv

\* Deleting a version takes it from takes and from jobs that are not active.
LEMMA CommitDropKeeps == ASSUME SongInv, T!CommitDrop PROVE SongInv'
  <1> DEFINE v == drop.version
  <1>1. /\ UNCHANGED <<made, taken, save, trashed>> /\ drop.pc = "checked"
        /\ take' = T!ReleaseGenerations(v, drop.takes)
        /\ version' = [version EXCEPT ![v] = None]
        /\ job' = [j \in Jobs |-> IF job[j].version = v THEN [job[j] EXCEPT !.version = None] ELSE job[j]]
        /\ drop' = T!NoDrop /\ lock' = None
    BY DEF T!CommitDrop
  <1>2. v \in T!VersionIds /\ lock = "drop" /\ drop.takes \in BOOLEAN /\ ~T!HasActiveJob(v)
    BY <1>1 DEF SongInv, SongType, DropRow, DropHolds, CheckHolds
  <1> HIDE DEF v
  <1>3. \A s \in Savers : save[s].pc = "idle"
    BY <1>2, PartConstants DEF SongInv, SaveHolds, T!SongConstants
  <1>4. T!Live' = T!Live \ {v} /\ \A w \in T!Live' : version'[w] = version[w]
    BY <1>1, <1>2 DEF SongInv, SongType, T!Live
  <1>5. \A t \in T!Takes' : /\ t \in T!Takes
                            /\ take'[t].number = take[t].number
                            /\ take'[t].words = take[t].words
                            /\ \/ take'[t].version = None
                               \/ take'[t].version = take[t].version /\ take[t].version # v
    BY <1>1, <1>2, ReleaseSpares DEF SongInv, T!Takes
  <1>6. \A j \in Jobs : /\ job'[j].st = job[j].st /\ job'[j].words = job[j].words
                        /\ job[j].version # v => job'[j] = job[j]
                        /\ job[j].st \in T!Active => job[j].version # v
    BY <1>1, <1>2 DEF SongInv, SongType, JobRow, T!HasActiveJob
  <1>7. SongType'
    <2>1. version' \in [T!VersionIds -> T!Version \cup {None}]
      BY <1>1, <1>2 DEF SongInv, SongType
    <2>2. take' \in [T!TakeIds -> T!Take \cup {None}]
      BY <1>1, <1>2, ReleaseSpares DEF SongInv
    <2>3. job' \in [Jobs -> JobRow]
      BY <1>1 DEF SongInv, SongType, JobRow
    <2> QED
      BY <1>1, <2>1, <2>2, <2>3 DEF SongInv, SongType, DropRow, T!NoDrop
  <1>8. TakesNumbered' /\ T!TakeKeepsItsWords'
    BY <1>1, <1>4, <1>5 DEF SongInv, TakesNumbered, T!TakeKeepsItsWords
  <1>9. SaveHolds' /\ DropHolds' /\ CheckHolds'
    BY <1>1, <1>3 DEF SaveHolds, DropHolds, CheckHolds, T!NoDrop
  <1>10. JobsStand'
    BY <1>4, <1>6 DEF SongInv, JobsStand
  <1>11. VersionsCounted'
    BY <1>1, <1>4 DEF SongInv, VersionsCounted
  <1> QED
    BY <1>7, <1>8, <1>9, <1>10, <1>11 DEF SongInv

\* A job's step under which an active job has a version that is there, a running
\* one has its words, and no job becomes active while the song row is held.
LEMMA JobStepKeeps ==
    ASSUME SongInv, NEW j \in Jobs, NEW r \in JobRow, job' = [job EXCEPT ![j] = r],
           UNCHANGED <<version, made, take, taken, lock, save, drop, trashed>>,
           r.st \in T!Active => r.version \in T!Live,
           r.st = "running" => r.words = version[r.version].words,
           r.st \in T!Active => lock = None \/ (job[j].st \in T!Active /\ r.version = job[j].version)
    PROVE  SongInv'
  <1>1. SongType'
    BY DEF SongInv, SongType
  <1>2. TakesNumbered' /\ T!TakeKeepsItsWords' /\ VersionsCounted'
    BY TakesStay, RowsStay DEF SongInv
  <1>3. \A k \in Jobs : job'[k] = IF k = j THEN r ELSE job[k]
    BY DEF SongInv, SongType
  <1>4. SaveHolds' /\ DropHolds'
    BY RowsStay DEF SongInv, SaveHolds, DropHolds
  <1>5. \A v : lock # None /\ T!HasActiveJob(v)' => T!HasActiveJob(v)
    BY <1>3 DEF T!HasActiveJob
  <1>6. CheckHolds'
    <2>1. \A s \in Savers : save[s].pc = "checked" => lock # None
      BY PartConstants DEF SongInv, SaveHolds, T!SongConstants
    <2>2. drop.pc = "checked" => lock # None
      BY PartConstants DEF SongInv, DropHolds, T!SongConstants
    <2> QED
      BY <1>5, <2>1, <2>2 DEF SongInv, CheckHolds
  <1>7. JobsStand'
    BY <1>3, RowsStay DEF SongInv, JobsStand, T!Active
  <1> QED
    BY <1>1, <1>2, <1>4, <1>6, <1>7 DEF SongInv

\* A job that is asked for, admitted, started or ended.
LEMMA JobKeeps ==
    ASSUME SongInv, NEW j \in Jobs,
           T!AskTake(j) \/ T!AskRepaint(j) \/ T!AskCover(j) \/ T!Admit(j) \/ T!Start(j) \/ T!EndJob(j)
    PROVE  SongInv'
  <1>1. job[j] \in JobRow
    BY DEF SongInv, SongType
  <1>2. \A v \in T!Live : v \in T!VersionIds /\ version[v].words \in Words
    BY LatestIsLast DEF SongInv, T!Version
  <1>3. CASE T!AskTake(j)
    <2>1. PICK v \in T!Live : job' = [job EXCEPT ![j] = [T!NoJob EXCEPT !.st = "asked", !.version = v]]
      BY <1>3 DEF T!AskTake
    <2> DEFINE r == [T!NoJob EXCEPT !.st = "asked", !.version = v]
    <2>2. r \in JobRow /\ r.st \notin T!Active
      BY <1>2 DEF T!NoJob, JobRow, T!Active
    <2> HIDE DEF r
    <2> QED
      BY <1>3, <2>1, <2>2, JobStepKeeps DEF T!AskTake, r, T!Active
  <1>4. CASE T!AskRepaint(j) \/ T!AskCover(j)
    <2>1. PICK t \in T!Takes, v \in T!VersionIds \cup {None} : T!AskFrom(j, t, v)
      BY <1>2, <1>4, TakeRows DEF SongInv, T!AskRepaint, T!AskCover, T!Take
    <2> DEFINE r == [T!NoJob EXCEPT !.st = "asked", !.version = v, !.src = t]
    <2>2. r \in JobRow /\ r.st \notin T!Active
      BY TakeRows DEF SongInv, T!NoJob, JobRow, T!Active
    <2>3. job' = [job EXCEPT ![j] = r]
          /\ UNCHANGED <<version, made, take, taken, lock, save, drop, trashed>>
      BY <2>1 DEF T!AskFrom
    <2> HIDE DEF r
    <2> QED
      BY <2>2, <2>3, JobStepKeeps DEF T!Active
  <1>5. CASE T!Admit(j)
    <2> DEFINE found == T!VersionFound(job[j].version)
               r == IF found THEN [job[j] EXCEPT !.st = "queued"] ELSE [T!NoJob EXCEPT !.st = "ended"]
    <2>1. r \in JobRow
      BY <1>1 DEF T!NoJob, JobRow
    <2>2. r.st \in T!Active => r.version \in T!Live /\ r.st # "running"
      BY <1>1 DEF T!NoJob, JobRow, T!Active, T!VersionFound
    <2>3. job' = [job EXCEPT ![j] = r] /\ lock = None
          /\ UNCHANGED <<version, made, take, taken, lock, save, drop, trashed>>
      BY <1>5 DEF T!Admit
    <2> HIDE DEF r
    <2> QED
      BY <2>1, <2>2, <2>3, JobStepKeeps DEF T!Active
  <1>6. CASE T!Start(j)
    <2> DEFINE run == ~trashed /\ job[j].version \in T!Live
               r == IF run THEN [job[j] EXCEPT !.st = "running", !.words = version[job[j].version].words]
                    ELSE [job[j] EXCEPT !.st = "ended"]
    <2>1. r \in JobRow
      BY <1>1, <1>2 DEF JobRow
    <2>2. /\ r.st \in T!Active => r.version \in T!Live
          /\ r.st = "running" => r.words = version[r.version].words
          /\ r.version = job[j].version
      BY <1>1 DEF JobRow, T!Active
    <2>3. job' = [job EXCEPT ![j] = r] /\ job[j].st \in T!Active
          /\ UNCHANGED <<version, made, take, taken, lock, save, drop, trashed>>
      BY <1>6 DEF T!Start, T!Active
    <2> HIDE DEF r
    <2> QED
      BY <2>1, <2>2, <2>3, JobStepKeeps
  <1>7. CASE T!EndJob(j)
    <2> DEFINE r == [job[j] EXCEPT !.st = "ended"]
    <2>1. r \in JobRow /\ r.st \notin T!Active
      BY <1>1 DEF JobRow, T!Active
    <2>2. job' = [job EXCEPT ![j] = r]
          /\ UNCHANGED <<version, made, take, taken, lock, save, drop, trashed>>
      BY <1>7 DEF T!EndJob
    <2> HIDE DEF r
    <2> QED
      BY <2>1, <2>2, JobStepKeeps DEF T!Active
  <1> QED
    BY <1>3, <1>4, <1>5, <1>6, <1>7

\* A take is saved with the words its job read, under a number of its own.
LEMMA SaveTakeKeeps == ASSUME SongInv, NEW j \in Jobs, T!SaveTake(j) PROVE SongInv'
  <1> DEFINE next == taken + 1
             r == [number |-> T!NextNumber, version |-> job[j].version,
                   words |-> job[j].words, src |-> job[j].src]
  <1>1. UNCHANGED <<version, made, job, lock, save, drop, trashed>> /\ lock = None
        /\ job[j].st = "running" /\ taken' = next /\ take' = [take EXCEPT ![next] = r]
    BY DEF T!SaveTake
  <1>2. next \in T!TakeIds /\ next \in 0..MaxTakes
    BY PartConstants DEF SongInv, SongType, T!SaveTake, T!TakeIds, T!SongConstants
  <1>3. /\ job[j].version \in T!Live /\ job[j].words = version[job[j].version].words
        /\ job[j].words \in Words /\ job[j].version \in T!VersionIds
    BY <1>1, LatestIsLast DEF SongInv, JobsStand, T!Active, T!Version
  <1>4. T!NextNumber \in Nat /\ T!NextNumber <= next
    <2>1. taken \in Nat
      BY PartConstants DEF SongInv, SongType, T!SongConstants
    <2>2. CASE T!Takes = {}
      BY <2>1, <2>2 DEF T!NextNumber
    <2>3. CASE T!Takes # {}
      <3> DEFINE Numbers == {take[t].number : t \in T!Takes}
      <3>1. Numbers \in SUBSET Nat /\ \A n \in Numbers : n <= taken
        BY TakeRows DEF SongInv, TakesNumbered, T!Take
      <3>2. Numbers # {}
        BY <2>3
      <3>3. T!NextNumber = 1 + T!Max(Numbers)
        BY <2>3 DEF T!NextNumber
      <3> HIDE DEF Numbers
      <3>4. T!Max(Numbers) \in Numbers
        BY <2>1, <3>1, <3>2, MaxOfNats
      <3>5. T!Max(Numbers) \in Nat /\ T!Max(Numbers) <= taken
        BY <3>1, <3>4
      <3> HIDE DEF next
      <3> QED
        BY <2>1, <3>3, <3>5 DEF next
    <2> QED
      BY <2>2, <2>3
  <1>5. r \in T!Take
    BY <1>3, <1>4 DEF SongInv, SongType, JobRow, T!Take
  <1>6. r.number = T!NextNumber /\ r.version = job[j].version /\ r.words = job[j].words
    OBVIOUS
  <1> HIDE DEF next, r
  <1>7. SongType'
    BY <1>1, <1>2, <1>5 DEF SongInv, SongType
  <1>8. \A t \in T!TakeIds : take'[t] = IF t = next THEN r ELSE take[t]
    BY <1>1 DEF SongInv, SongType
  <1>9. TakesNumbered'
    <2>1. \A t \in T!Takes : take[t].number \in Nat /\ take[t].number <= taken
      BY TakeRows DEF SongInv, TakesNumbered, T!Take
    <2>2. taken \in Nat
      BY PartConstants DEF SongInv, SongType, T!SongConstants
    <2> QED
      BY <1>1, <1>4, <1>6, <1>8, <2>1, <2>2 DEF TakesNumbered, T!Takes, next
  <1>10. T!TakeKeepsItsWords'
    BY <1>1, <1>3, <1>6, <1>8, RowsStay DEF SongInv, T!TakeKeepsItsWords, T!Takes
  <1>11. \A v : T!HasActiveJob(v)' <=> T!HasActiveJob(v)
    BY <1>1 DEF T!HasActiveJob
  <1>12. SaveHolds' /\ DropHolds' /\ CheckHolds' /\ JobsStand' /\ VersionsCounted'
    BY <1>1, <1>11, RowsStay DEF SongInv, SaveHolds, DropHolds, CheckHolds, JobsStand
  <1> QED
    BY <1>7, <1>9, <1>10, <1>12 DEF SongInv

\* Every step of a song keeps the invariant.
LEMMA SongStep == SongInv /\ [T!Next]_(T!vars) => SongInv'
  <1> SUFFICES ASSUME SongInv, [T!Next]_(T!vars) PROVE SongInv'
    OBVIOUS
  <1>1. ASSUME NEW s \in Savers, T!UpdateSong(s) PROVE SongInv'
    BY <1>1, LockSongKeeps DEF T!UpdateSong
  <1>2. ASSUME NEW s \in Savers, T!RenameSong(s) \/ T!CowriterTool(s) PROVE SongInv'
    BY <1>2, LockSongKeeps DEF T!RenameSong, T!CowriterTool, T!CowriterEdit, T!CowriterRename
  <1>3. ASSUME NEW s \in Savers, T!CheckJobs(s) \/ T!CommitSave(s) \/ T!RollbackSave(s) PROVE SongInv'
    BY <1>3, CheckJobsKeeps, CommitSaveKeeps, RollbackKeeps
  <1>4. ASSUME NEW v \in T!VersionIds, NEW b \in BOOLEAN, T!LockDrop(v, b) PROVE SongInv'
    BY <1>4, LockDropKeeps
  <1>5. CASE T!CheckDrop \/ T!CommitDrop
    BY <1>5, CheckDropKeeps, CommitDropKeeps
  <1>6. ASSUME NEW j \in Jobs,
               T!AskTake(j) \/ T!AskRepaint(j) \/ T!AskCover(j) \/ T!Admit(j) \/ T!Start(j) \/ T!EndJob(j)
        PROVE  SongInv'
    BY <1>6, JobKeeps
  <1>7. ASSUME NEW j \in Jobs, T!SaveTake(j) PROVE SongInv'
    BY <1>7, SaveTakeKeeps
  <1>8. ASSUME NEW ts \in SUBSET T!Takes, T!DeleteTakes(ts) PROVE SongInv'
    BY <1>8, DeleteTakesKeeps
  <1>9. CASE UNCHANGED <<version, made, take, taken, job, lock, save, drop>>
    <2>1. \A v : T!HasActiveJob(v)' <=> T!HasActiveJob(v)
      BY <1>9 DEF T!HasActiveJob
    <2> QED
      BY <1>9, <2>1, RowsStay, TakesStay DEF SongInv, SongType, SaveHolds, DropHolds, CheckHolds, JobsStand
  <1>10. CASE T!TrashSong \/ T!RestoreSong
    BY <1>9, <1>10 DEF T!TrashSong, T!RestoreSong
  <1>11. CASE UNCHANGED T!vars
    BY <1>9, <1>11 DEF T!vars
  <1> QED
    BY <1>1, <1>2, <1>3, <1>4, <1>5, <1>6, <1>7, <1>8, <1>10, <1>11 DEF T!Next

\* When a save commits, the latest version keeps the words (settings) that its
\* request does not name.
LEMMA SaveKeepsOthers ==
    ASSUME SongInv, [T!Next]_(T!vars), NEW s \in Savers, save[s].pc = "checked", save'[s].pc = "idle",
           version' # version, T!Latest # None
    PROVE  /\ save[s].words = Keep => version'[T!Latest'].words = version[T!Latest].words
           /\ save[s].params = Keep => version'[T!Latest'].params = version[T!Latest].params
  <1> DEFINE r == save[s]
             next == made + 1
  <1>1. \A q \in Savers : q # s => save[q].pc = "idle"
    BY DEF SongInv, SaveHolds
  <1>2. drop.pc = "idle"
    BY PartConstants DEF SongInv, SaveHolds, DropHolds, T!SongConstants
  <1>3. T!CommitSave(s)
    <2>1. ASSUME NEW q \in Savers, T!CommitSave(q) PROVE q = s
      BY <1>1, <2>1 DEF T!CommitSave
    <2>2. ~T!CommitDrop
      BY <1>2 DEF T!CommitDrop
    <2> QED
      BY <2>1, <2>2 DEF T!Next, T!vars, T!UpdateSong, T!RenameSong, T!CowriterTool, T!CowriterEdit,
         T!CowriterRename, T!LockSong, T!CheckJobs, T!RollbackSave, T!LockDrop, T!CheckDrop,
         T!AskTake, T!AskRepaint, T!AskCover, T!AskFrom, T!Admit, T!Start, T!SaveTake, T!EndJob,
         T!DeleteTakes, T!TrashSong, T!RestoreSong
  <1>4. /\ r.prev = T!Latest /\ r.seen = version[T!Latest] /\ r.prev \in T!Live
        /\ r.seen \in T!Version /\ T!Latest \in T!VersionIds
    BY LatestIsLast DEF SongInv, SaveHolds
  <1>5. None \notin T!Version
    BY PartConstants DEF T!SongConstants
  <1>6. /\ r.words = Keep => T!Content(r).words = r.seen.words
        /\ r.params = Keep => T!Content(r).params = r.seen.params
    BY <1>4, <1>5 DEF T!Content
  <1>7. SongInv'
    BY SongStep
  <1>8. version \in [T!VersionIds -> T!Version \cup {None}] /\ made \in T!VersionIds
    BY DEF SongInv, SongType
  <1>9. CASE r.prev # None /\ T!RewritesInPlace(r)
    <2>1. version' = [version EXCEPT ![r.prev] = [number |-> r.seen.number, words |-> T!Content(r).words,
                                                 params |-> T!Content(r).params]]
      BY <1>3, <1>9 DEF T!CommitSave
    <2>2. r.seen.number \in Nat /\ T!Content(r).words \in Words /\ T!Content(r).params \in Params
      BY <1>4, ContentTyped DEF SongInv, SongType, T!Version
    <2>3. [number |-> r.seen.number, words |-> T!Content(r).words, params |-> T!Content(r).params] # None
      BY <1>5, <2>2 DEF T!Version
    <2>4. T!Live' = T!Live
      BY <1>4, <1>8, <2>1, <2>3 DEF T!Live
    <2>5. T!Latest' = T!Latest
      BY <2>4 DEF T!Latest
    <2>6. version'[T!Latest].words = T!Content(r).words /\ version'[T!Latest].params = T!Content(r).params
      BY <1>4, <1>8, <2>1
    <2> QED
      BY <1>4, <1>6, <2>5, <2>6
  <1>10. CASE ~(r.prev # None /\ T!RewritesInPlace(r))
    <2> DEFINE row == [number |-> r.seen.number + 1, words |-> T!Content(r).words,
                       params |-> T!Content(r).params]
    <2>1. version' = [version EXCEPT ![next] = row]
      BY <1>3, <1>4, <1>5, <1>10 DEF T!CommitSave
    <2>2. made' = next /\ next \in T!VersionIds
      BY <1>3, <1>8, <1>10, PartConstants DEF T!CommitSave, T!SongConstants, T!VersionIds
    <2>3. next \in T!Live'
      <3>1. r.seen.number + 1 \in Nat /\ T!Content(r).words \in Words /\ T!Content(r).params \in Params
        BY <1>4, ContentTyped DEF SongInv, SongType, T!Version
      <3>2. row # None
        BY <1>5, <3>1 DEF T!Version
      <3> HIDE DEF row
      <3> QED
        BY <1>8, <2>1, <2>2, <3>2 DEF T!Live
    <2>4. T!Latest' = next
      <3>1. T!Live' \in SUBSET T!VersionIds /\ \A v \in T!Live' : v <= next
        BY <1>7, <2>2 DEF SongInv, VersionsCounted, T!Live
      <3>2. T!Max(T!Live') \in T!Live' /\ next <= T!Max(T!Live')
        BY <2>3, <3>1, LatestVersion
      <3>3. T!Latest' = T!Max(T!Live')
        BY <2>3 DEF T!Latest
      <3> HIDE DEF next
      <3> QED
        BY <2>2, <3>1, <3>2, <3>3 DEF T!VersionIds
    <2>5. version'[next].words = T!Content(r).words /\ version'[next].params = T!Content(r).params
      BY <1>8, <2>1, <2>2
    <2> QED
      BY <1>4, <1>6, <2>4, <2>5
  <1> QED
    BY <1>9, <1>10

-----------------------------------------------------------------------------
(***************************************************************************)
(* Curation.                                                               *)
(***************************************************************************)

\* The marks of the takes; a take that is listed or shared is kept and not
\* archived, or was released by its musician.
MarksInv ==
    /\ mark \in [C!TakeIds -> C!Marks \cup {None}]
    /\ \A t \in C!Takes : (mark[t].shared \/ t \in listed) =>
                            t \in released \/ (mark[t].kept /\ mark[t].at = None)

\* The run compares with the end of the final window today: the day does not
\* change while it is at work.
SweepInv ==
    /\ day \in Nat
    /\ sweep \in [on : BOOLEAN, archive : SUBSET C!TakeIds, delete : SUBSET C!TakeIds, cutoff : Int]
    /\ sweep.delete # {} => sweep.on /\ sweep.cutoff = day - FinalDays

\* A fresh song has neither.
LEMMA CurationInit == C!Init => MarksInv /\ SweepInv
  <1> SUFFICES ASSUME C!Init PROVE MarksInv /\ SweepInv
    OBVIOUS
  <1>1. mark \in [C!TakeIds -> C!Marks \cup {None}]
    BY DEF C!Init, C!Marks
  <1>2. \A t \in C!TakeIds : mark[t].shared = FALSE
    BY DEF C!Init
  <1>3. MarksInv
    BY <1>1, <1>2 DEF C!Init, C!Takes, MarksInv
  <1>4. SweepInv
    BY DEF C!Init, C!NoSweep, SweepInv
  <1> QED
    BY <1>3, <1>4

\* A take that is there has its marks, and no marks are None.
LEMMA MarkRows ==
    ASSUME MarksInv
    PROVE  /\ \A t \in C!Takes : t \in C!TakeIds /\ mark[t] \in C!Marks
           /\ None \notin C!Marks
  BY PartConstants DEF MarksInv, C!Takes, C!TakeConstants

\* The marks of one take change, and those of a listed or shared take are right.
LEMMA MarkOne ==
    ASSUME MarksInv, NEW t \in C!Takes, NEW r \in C!Marks, mark' = [mark EXCEPT ![t] = r],
           listed' \subseteq listed \cup {t}, released \subseteq released' \cup {t},
           (r.shared \/ t \in listed') => t \in released' \/ (r.kept /\ r.at = None)
    PROVE  MarksInv'
  <1>1. t \in C!TakeIds
    BY MarkRows
  <1>2. mark' \in [C!TakeIds -> C!Marks \cup {None}]
    BY <1>1 DEF MarksInv
  <1>3. \A u \in C!TakeIds : mark'[u] = IF u = t THEN r ELSE mark[u]
    BY <1>1 DEF MarksInv
  <1> QED
    BY <1>2, <1>3 DEF MarksInv, C!Takes

\* The marks of a record of marks.
LEMMA MarkFields ==
    ASSUME NEW r \in C!Marks
    PROVE  /\ LET q == [r EXCEPT !.picked = FALSE] IN
                q \in C!Marks /\ q.shared = r.shared /\ q.kept = r.kept /\ q.at = r.at
           /\ LET q == [r EXCEPT !.picked = TRUE] IN
                q \in C!Marks /\ q.shared = r.shared /\ q.kept = r.kept /\ q.at = r.at
           /\ LET q == [r EXCEPT !.kept = TRUE] IN
                q \in C!Marks /\ q.shared = r.shared /\ q.kept = TRUE /\ q.at = r.at
           /\ LET q == [r EXCEPT !.kept = FALSE] IN
                q \in C!Marks /\ q.shared = r.shared /\ q.kept = FALSE /\ q.at = r.at
           /\ LET q == [r EXCEPT !.at = None] IN
                q \in C!Marks /\ q.shared = r.shared /\ q.kept = r.kept /\ q.at = None
           /\ \A d \in Nat : LET q == [r EXCEPT !.at = d] IN
                q \in C!Marks /\ q.shared = r.shared /\ q.kept = r.kept /\ q.at = d
           /\ LET q == [r EXCEPT !.shared = TRUE, !.kept = TRUE] IN
                q \in C!Marks /\ q.shared = TRUE /\ q.kept = TRUE /\ q.at = r.at
           /\ LET q == [r EXCEPT !.shared = FALSE] IN
                q \in C!Marks /\ q.shared = FALSE /\ q.kept = r.kept /\ q.at = r.at
  BY DEF C!Marks

\* A take that is deleted leaves the playlist.
LEMMA WithoutKeeps ==
    ASSUME MarksInv, NEW t \in C!Takes, C!Without(t), released' = released PROVE MarksInv'
  <1>1. mark' = [mark EXCEPT ![t] = None] /\ listed' = listed \ {t}
    BY DEF C!Without
  <1> QED
    BY <1>1 DEF MarksInv, C!Takes

\* A take that joins the playlist is kept.
LEMMA AppendKeeps ==
    ASSUME MarksInv, NEW t, C!Unarchived(t), C!Append(t) PROVE MarksInv'
  <1>1. t \in C!Takes /\ mark[t] \in C!Marks /\ mark[t].at = None
    BY MarkRows DEF C!Unarchived, C!Archived
  <1> DEFINE r == [mark[t] EXCEPT !.kept = TRUE]
  <1>2. r \in C!Marks /\ r.kept = TRUE /\ r.at = None
    BY <1>1, MarkFields
  <1>3. mark' = [mark EXCEPT ![t] = r] /\ listed' = listed \cup {t} /\ released' = released \ {t}
    BY DEF C!Append
  <1> HIDE DEF r
  <1> QED
    BY <1>1, <1>2, <1>3, MarkOne

\* What a musician does to the marks of a take.
LEMMA MarkKeeps == ASSUME MarksInv, NEW t \in C!TakeIds, C!Mark(t) PROVE MarksInv'
  <1>1. t \in C!Takes => mark[t] \in C!Marks
    BY MarkRows
  <1>2. CASE C!PickTake(t)
    <2>2. \A u \in C!TakeIds : C!Picked(t)[u] = IF u \in C!Takes THEN [mark[u] EXCEPT !.picked = (u = t)] ELSE None
      BY Zenon DEF C!Picked
    <2>3. \A u \in C!Takes : C!Picked(t)[u] = [mark[u] EXCEPT !.picked = TRUE]
                          \/ C!Picked(t)[u] = [mark[u] EXCEPT !.picked = FALSE]
      <3> TAKE u \in C!Takes
      <3>1. u \in C!TakeIds
        BY DEF C!Takes
      <3>2. C!Picked(t)[u] = [mark[u] EXCEPT !.picked = (u = t)]
        BY <2>2, <3>1, Zenon
      <3>3. (u = t) = TRUE \/ (u = t) = FALSE
        BY Zenon
      <3> QED
        BY <3>2, <3>3, Zenon
    <2>4. \A u \in C!Takes : /\ C!Picked(t)[u] \in C!Marks
                             /\ C!Picked(t)[u].shared = mark[u].shared
                             /\ C!Picked(t)[u].kept = mark[u].kept
                             /\ C!Picked(t)[u].at = mark[u].at
      <3> TAKE u \in C!Takes
      <3> DEFINE yes == [mark[u] EXCEPT !.picked = TRUE]
                 no == [mark[u] EXCEPT !.picked = FALSE]
                 Same(q) == /\ q \in C!Marks
                            /\ q.shared = mark[u].shared
                            /\ q.kept = mark[u].kept
                            /\ q.at = mark[u].at
      <3>1. mark[u] \in C!Marks
        BY MarkRows
      <3>2. Same(yes) /\ Same(no)
        BY <3>1, MarkFields
      <3>3. C!Picked(t)[u] = yes \/ C!Picked(t)[u] = no
        BY <2>3
      <3> HIDE DEF yes, no, Same
      <3>4. Same(C!Picked(t)[u])
        BY <3>2, <3>3, Zenon
      <3> QED
        BY <3>4, Zenon DEF Same
    <2>5. mark' = C!Picked(t) /\ listed' = listed /\ released' = released
      BY <1>2 DEF C!PickTake
    <2>6. \A u \in C!TakeIds : mark'[u] \in C!Marks \cup {None} /\ (mark'[u] # None => u \in C!Takes)
      BY <2>2, <2>4, <2>5
    <2>7. mark' \in [C!TakeIds -> C!Marks \cup {None}]
      <3>1. C!Picked(t) = [u \in C!TakeIds |-> C!Picked(t)[u]]
        BY Zenon DEF C!Picked
      <3> QED
        BY <2>5, <2>6, <3>1
    <2> QED
      BY <2>4, <2>5, <2>6, <2>7 DEF MarksInv, C!Takes
  <1>3. CASE C!UnpickTake(t)
    <2> DEFINE r == [mark[t] EXCEPT !.picked = FALSE]
    <2>1. t \in C!Takes /\ mark[t] \in C!Marks /\ mark' = [mark EXCEPT ![t] = r] /\ listed' = listed
      BY <1>1, <1>3 DEF C!UnpickTake, C!Accessible
    <2>2. r \in C!Marks /\ r.shared = mark[t].shared /\ r.kept = mark[t].kept /\ r.at = mark[t].at
      BY <2>1, MarkFields
    <2> HIDE DEF r
    <2>3. released \subseteq released' \cup {t}
          /\ ((r.shared \/ t \in listed') => t \in released' \/ (r.kept /\ r.at = None))
      BY <1>3, <2>1, <2>2 DEF C!UnpickTake, C!Accessible, MarksInv
    <2> QED
      BY <2>1, <2>2, <2>3, MarkOne
  <1>4. CASE C!KeepTake(t)
    <2> DEFINE r == [mark[t] EXCEPT !.kept = TRUE]
    <2>1. t \in C!Takes /\ mark[t] \in C!Marks /\ mark' = [mark EXCEPT ![t] = r] /\ listed' = listed
      BY <1>1, <1>4 DEF C!KeepTake, C!Accessible
    <2>2. r \in C!Marks /\ r.kept = TRUE /\ r.at = mark[t].at
      BY <2>1, MarkFields
    <2> HIDE DEF r
    <2>3. released \subseteq released' \cup {t}
          /\ ((r.shared \/ t \in listed') => t \in released' \/ (r.kept /\ r.at = None))
      BY <1>4, <2>1, <2>2 DEF C!KeepTake, C!Accessible, C!Unarchived, C!Archived, MarksInv
    <2> QED
      BY <2>1, <2>2, <2>3, MarkOne
  <1>5. CASE C!UnkeepTake(t)
    <2> DEFINE r == [mark[t] EXCEPT !.kept = FALSE]
    <2>1. t \in C!Takes /\ mark[t] \in C!Marks /\ mark' = [mark EXCEPT ![t] = r] /\ listed' = listed
      BY <1>1, <1>5 DEF C!UnkeepTake, C!Accessible
    <2>2. r \in C!Marks /\ r.at = mark[t].at
      BY <2>1, MarkFields
    <2> HIDE DEF r
    <2>3. released \subseteq released' \cup {t}
          /\ ((r.shared \/ t \in listed') => t \in released' \/ (r.kept /\ r.at = None))
      BY <1>5, <2>1, <2>2 DEF C!UnkeepTake, C!Accessible, MarksInv
    <2> QED
      BY <2>1, <2>2, <2>3, MarkOne
  <1>6. CASE C!UnarchiveTake(t)
    <2> DEFINE r == [mark[t] EXCEPT !.at = None]
    <2>1. t \in C!Takes /\ mark[t] \in C!Marks /\ mark' = [mark EXCEPT ![t] = r] /\ listed' = listed
      BY <1>1, <1>6 DEF C!UnarchiveTake, C!Accessible
    <2>2. r \in C!Marks /\ r.shared = mark[t].shared /\ r.kept = mark[t].kept /\ r.at = None
      BY <2>1, MarkFields
    <2> HIDE DEF r
    <2>3. released \subseteq released' \cup {t}
          /\ ((r.shared \/ t \in listed') => t \in released' \/ (r.kept /\ r.at = None))
      BY <1>6, <2>1, <2>2 DEF C!UnarchiveTake, C!Accessible, MarksInv
    <2> QED
      BY <2>1, <2>2, <2>3, MarkOne
  <1>7. CASE C!ShareTake(t)
    <2> DEFINE r == [mark[t] EXCEPT !.shared = TRUE, !.kept = TRUE]
    <2>1. t \in C!Takes /\ mark[t] \in C!Marks /\ mark' = [mark EXCEPT ![t] = r] /\ listed' = listed
      BY <1>1, <1>7 DEF C!ShareTake, C!Accessible
    <2>2. r \in C!Marks /\ r.kept = TRUE /\ r.at = mark[t].at
      BY <2>1, MarkFields
    <2> HIDE DEF r
    <2>3. released \subseteq released' \cup {t}
          /\ ((r.shared \/ t \in listed') => t \in released' \/ (r.kept /\ r.at = None))
      BY <1>7, <2>1, <2>2 DEF C!ShareTake, C!Accessible, C!Unarchived, C!Archived, MarksInv
    <2> QED
      BY <2>1, <2>2, <2>3, MarkOne
  <1>8. CASE C!UnshareTake(t)
    <2> DEFINE r == [mark[t] EXCEPT !.shared = FALSE]
    <2>1. t \in C!Takes /\ mark[t] \in C!Marks /\ mark' = [mark EXCEPT ![t] = r] /\ listed' = listed
      BY <1>1, <1>8 DEF C!UnshareTake, C!Accessible
    <2>2. r \in C!Marks /\ r.shared = FALSE /\ r.kept = mark[t].kept /\ r.at = mark[t].at
      BY <2>1, MarkFields
    <2> HIDE DEF r
    <2>3. released \subseteq released' \cup {t}
          /\ ((r.shared \/ t \in listed') => t \in released' \/ (r.kept /\ r.at = None))
      BY <1>8, <2>1, <2>2 DEF C!UnshareTake, C!Accessible, MarksInv
    <2> QED
      BY <2>1, <2>2, <2>3, MarkOne
  <1>9. CASE C!DeleteTake(t)
    BY <1>9, WithoutKeeps DEF C!DeleteTake, C!Accessible
  <1>10. CASE C!AddTake(t)
    BY <1>10, AppendKeeps DEF C!AddTake
  <1>11. CASE C!RemoveEntry(t)
    BY <1>11 DEF C!RemoveEntry, MarksInv, C!Takes
  <1> QED
    BY <1>2, <1>3, <1>4, <1>5, <1>6, <1>7, <1>8, <1>9, <1>10, <1>11 DEF C!Mark

\* The daily run archives and deletes only takes that are not kept.
LEMMA SweepKeeps ==
    ASSUME MarksInv, SweepInv, C!BeginSweep \/ C!ArchiveNext \/ C!DeleteNext \/ C!EndSweep \/ C!NextDay
    PROVE  MarksInv' /\ SweepInv'
  <1>1. CASE C!BeginSweep
    <2>1. UNCHANGED <<day, mark, listed, released>>
      BY <1>1 DEF C!BeginSweep
    <2>2. PICK a \in SUBSET C!TakeIds, d \in SUBSET C!TakeIds :
            sweep' = [on |-> TRUE, cutoff |-> day - FinalDays, archive |-> a, delete |-> d]
      <3>1. {t \in C!Takes : C!Archivable(t) /\ 0 < day - RetentionDays} \in SUBSET C!TakeIds
            /\ {t \in C!Takes : C!Deletable(t, day - FinalDays)} \in SUBSET C!TakeIds
        BY DEF C!Takes
      <3> QED
        BY <1>1, <3>1 DEF C!BeginSweep
    <2>3. day - FinalDays \in Int
      BY PartConstants DEF SweepInv, C!TakeConstants
    <2> QED
      BY <2>1, <2>2, <2>3 DEF MarksInv, SweepInv, C!Takes
  <1>2. CASE C!ArchiveNext
    <2> DEFINE t == C!Min(sweep.archive)
               r == [mark[t] EXCEPT !.at = day]
    <2>1. /\ UNCHANGED <<day, listed, released>>
          /\ mark' = IF C!Archivable(t) THEN [mark EXCEPT ![t] = r] ELSE mark
          /\ sweep' = [sweep EXCEPT !.archive = @ \ {t}]
      BY <1>2 DEF C!ArchiveNext
    <2> HIDE DEF t
    <2>2. SweepInv'
      BY <2>1 DEF SweepInv
    <2>3. CASE C!Archivable(t)
      <3>1. t \in C!Takes /\ mark[t] \in C!Marks /\ mark[t].kept = FALSE
        BY <2>3, MarkRows DEF C!Archivable, C!Marks
      <3>2. r \in C!Marks /\ r.shared = mark[t].shared
        <4>1. day \in Nat
          BY DEF SweepInv
        <4> QED
          BY <3>1, <4>1 DEF C!Marks
      <3> HIDE DEF r
      <3>3. r.shared \/ t \in listed => t \in released
        BY <3>1, <3>2 DEF MarksInv
      <3> QED
        BY <2>1, <2>2, <2>3, <3>1, <3>2, <3>3, MarkOne
    <2>4. CASE ~C!Archivable(t)
      BY <2>1, <2>2, <2>4 DEF MarksInv, C!Takes
    <2> QED
      BY <2>3, <2>4
  <1>3. CASE C!DeleteNext
    <2> DEFINE t == C!Min(sweep.delete)
    <2>1. /\ UNCHANGED <<day, released>>
          /\ \/ C!Deletable(t, sweep.cutoff) /\ C!Without(t)
             \/ UNCHANGED <<mark, listed>>
          /\ sweep' = [sweep EXCEPT !.delete = @ \ {t}] /\ sweep.delete # {}
      BY <1>3 DEF C!DeleteNext
    <2> HIDE DEF t
    <2>2. SweepInv'
      BY <2>1 DEF SweepInv
    <2>3. CASE C!Deletable(t, sweep.cutoff) /\ C!Without(t)
      BY <2>1, <2>2, <2>3, WithoutKeeps DEF C!Deletable
    <2>4. CASE UNCHANGED <<mark, listed>>
      BY <2>1, <2>2, <2>4 DEF MarksInv, C!Takes
    <2> QED
      BY <2>1, <2>3, <2>4
  <1>4. CASE C!EndSweep
    BY <1>4 DEF C!EndSweep, C!NoSweep, MarksInv, SweepInv, C!Takes
  <1>5. CASE C!NextDay
    BY <1>5 DEF C!NextDay, MarksInv, SweepInv, C!Takes
  <1> QED
    BY <1>1, <1>2, <1>3, <1>4, <1>5

\* Every step of the curation keeps both invariants.
LEMMA CurationStep == MarksInv /\ SweepInv /\ [C!Next]_(C!vars) => MarksInv' /\ SweepInv'
  <1> SUFFICES ASSUME MarksInv, SweepInv, [C!Next]_(C!vars) PROVE MarksInv' /\ SweepInv'
    OBVIOUS
  <1>1. ASSUME NEW t \in C!TakeIds, C!Mark(t) PROVE MarksInv' /\ SweepInv'
    <2>1. day' = day /\ sweep' = sweep
      BY <1>1 DEF C!Mark, C!PickTake, C!UnpickTake, C!KeepTake, C!UnkeepTake, C!UnarchiveTake,
         C!ShareTake, C!UnshareTake, C!DeleteTake, C!AddTake, C!RemoveEntry
    <2> QED
      BY <1>1, <2>1, MarkKeeps DEF SweepInv
  <1>2. ASSUME UNCHANGED <<day, mark, listed, sweep, released>> PROVE MarksInv' /\ SweepInv'
    BY <1>2 DEF MarksInv, SweepInv, C!Takes
  <1>3. ASSUME NEW what, C!AppendChosen(what) PROVE MarksInv' /\ SweepInv'
    <2>1. day' = day /\ sweep' = sweep
          /\ \/ C!Unarchived(chosen.take) /\ C!Append(chosen.take)
             \/ UNCHANGED <<mark, listed, released>>
      BY <1>3 DEF C!AppendChosen
    <2> QED
      BY <1>2, <2>1, AppendKeeps DEF SweepInv
  <1>4. CASE C!KeepChosen
    <2> DEFINE t == chosen.take
               r == [mark[t] EXCEPT !.kept = TRUE]
    <2>1. CASE C!Unarchived(t)
      <3>1. t \in C!Takes /\ mark[t] \in C!Marks /\ mark[t].at = None
        BY <2>1, MarkRows DEF C!Unarchived, C!Archived
      <3>2. /\ mark' = [mark EXCEPT ![t] = r] /\ released' = released \ {t}
            /\ UNCHANGED <<day, listed, sweep>>
        BY <1>4, <2>1 DEF C!KeepChosen
      <3>3. r \in C!Marks /\ r.kept = TRUE /\ r.at = None
        BY <3>1, MarkFields
      <3> HIDE DEF t, r
      <3>4. MarksInv'
        BY <3>1, <3>2, <3>3, MarkOne
      <3> QED
        BY <3>2, <3>4 DEF SweepInv
    <2>2. CASE ~C!Unarchived(t)
      BY <1>2, <1>4, <2>2 DEF C!KeepChosen
    <2> QED
      BY <2>1, <2>2
  <1>5. CASE C!BeginSweep \/ C!ArchiveNext \/ C!DeleteNext \/ C!EndSweep \/ C!NextDay
    BY <1>5, SweepKeeps
  <1> QED
    BY <1>1, <1>2, <1>3, <1>4, <1>5 DEF C!Next, C!vars, C!AddSong, C!AddAlbum, C!ChooseFor,
       C!AppendSong, C!AppendFromAlbum, C!ShareAlbum, C!UnshareAlbum, C!ShareSong, C!UnshareSong,
       C!SharePlaylist, C!UnsharePlaylist, C!TrashOrRestore

\* A take that is listed or shared stays playable unless its musician released it.
LEMMA ListedPlays == MarksInv => C!ListedIsPlayable
  BY DEF MarksInv, C!ListedIsPlayable, C!Archived

\* The newest of some takes.
LEMMA NewestTake ==
    ASSUME NEW S \in SUBSET C!Takes, S # {}
    PROVE  C!Max(S) \in S
  <1>1. S \in SUBSET Nat /\ \A t \in S : t <= N
    BY PartConstants DEF C!Takes, C!TakeIds, C!TakeConstants
  <1>2. N \in Nat
    BY PartConstants DEF C!TakeConstants
  <1> QED
    BY <1>1, <1>2, MaxOfNats

\* What a page offers its endpoint serves, and nothing else.
LEMMA PublicPresented == C!PublicIsPresented
  <1>1. /\ ("album" \in C!CoversOfAlbum) <=> C!AlbumCoverServed
        /\ ("song" \in C!CoversOfSong) <=> C!SongCoverServed
        /\ ("album" \in C!CoversOfSong) <=> C!SongAlbumCoverServed
    BY DEF C!CoversOfAlbum, C!CoversOfSong, C!AlbumCoverServed, C!SongCoverServed,
       C!SongAlbumCoverServed, C!CoverServed
  <1>2. /\ ("playlist" \in C!CoversOfPlaylist) <=> C!PlaylistCoverServed
        /\ ("album" \in C!CoversOfPlaylist) <=> C!PlaylistAlbumCoverServed
    BY DEF C!CoversOfPlaylist, C!PlaylistCoverServed, C!PlaylistAlbumCoverServed, C!CoverServed,
       C!PresentedEntries
  <1>3. ASSUME NEW t \in C!TakeIds
        PROVE  /\ ("album" \in C!CoversOfTake(t)) <=> C!TakeAlbumCoverServed(t)
               /\ (t \in C!OfferedByTake) <=> C!ServedByTake(t)
               /\ (t \in C!OfferedByPlaylist) <=> C!ServedByPlaylist(t)
    BY DEF C!CoversOfTake, C!TakeAlbumCoverServed, C!CoverServed, C!OfferedByTake, C!ServedByTake,
       C!OfferedByPlaylist, C!ServedByPlaylist, C!PresentedEntries, C!Playable
  <1>4. ASSUME NEW t \in C!TakeIds PROVE t \in C!PickedGeneration <=> C!PickPath(t)
    <2> DEFINE able == {u \in C!Takes : C!Playable(u)}
    <2>1. C!PickedGeneration = IF C!Picks # {} THEN {C!Max(C!Picks)}
                               ELSE IF able # {} THEN {C!Max(able)} ELSE {}
      BY DEF C!PickedGeneration
    <2>2. C!PickPath(t) <=> /\ C!Playable(t)
                            /\ \/ mark[t].picked /\ t = C!Max(C!Picks)
                               \/ C!Picks = {} /\ t = C!Max(able)
      BY DEF C!PickPath
    <2>3. \A u : u \in able <=> C!Playable(u)
      BY DEF C!Playable
    <2>4. \A u : u \in C!Picks <=> C!Playable(u) /\ mark[u].picked
      BY DEF C!Picks, C!Playable
    <2>5. able \in SUBSET C!Takes /\ C!Picks \in SUBSET C!Takes
      BY DEF C!Picks
    <2> HIDE DEF able
    <2>6. C!Picks # {} => C!Max(C!Picks) \in C!Picks
      BY <2>5, NewestTake
    <2>7. able # {} => C!Max(able) \in able
      BY <2>5, NewestTake
    <2> QED
      BY <2>1, <2>2, <2>3, <2>4, <2>6, <2>7
  <1>5. ASSUME NEW t \in C!TakeIds
        PROVE  /\ (t \in C!OfferedByAlbum) <=> C!ServedByAlbum(t)
               /\ (t \in C!OfferedBySong) <=> C!ServedBySong(t)
    BY <1>4 DEF C!OfferedByAlbum, C!ServedByAlbum, C!OfferedBySong, C!ServedBySong
  <1>6. ASSUME NEW t \in C!TakeIds, ~live
        PROVE  ~C!ServedByAlbum(t) /\ ~C!ServedBySong(t) /\ ~C!ServedByTake(t) /\ ~C!ServedByPlaylist(t)
    BY <1>6 DEF C!ServedByAlbum, C!ServedBySong, C!ServedByTake, C!ServedByPlaylist
  <1> QED
    BY <1>1, <1>2, <1>3, <1>5, <1>6 DEF C!PublicIsPresented

\* The run deletes only what may go at that moment.
LEMMA RetentionSpares ==
    ASSUME MarksInv, SweepInv, [C!Next]_(C!vars), NEW t \in C!Takes, mark'[t] = None, sweep' # sweep
    PROVE  /\ ~mark[t].picked /\ ~mark[t].kept /\ ~C!IsAnchor(t)
           /\ C!Archived(t) /\ day - mark[t].at > FinalDays
  <1>1. mark' # mark
    BY DEF C!Takes
  <1>2. ~C!ArchiveNext
    <2> SUFFICES ASSUME C!ArchiveNext PROVE FALSE
      OBVIOUS
    <2> DEFINE u == C!Min(sweep.archive)
               r == [mark[u] EXCEPT !.at = day]
    <2>1. mark' = IF C!Archivable(u) THEN [mark EXCEPT ![u] = r] ELSE mark
      BY DEF C!ArchiveNext
    <2> HIDE DEF u
    <2>2. C!Archivable(u)
      BY <1>1, <2>1
    <2>3. u \in C!Takes /\ mark[u] \in C!Marks /\ day \in Nat
      BY <2>2, MarkRows DEF C!Archivable, SweepInv
    <2>4. r \in C!Marks
      BY <2>3 DEF C!Marks
    <2> HIDE DEF r
    <2> QED
      BY <2>1, <2>2, <2>4, MarkRows DEF MarksInv, C!Takes
  <1>3. C!DeleteNext
    BY <1>1, <1>2 DEF C!Next, C!vars, C!Mark, C!PickTake, C!UnpickTake, C!KeepTake, C!UnkeepTake,
       C!UnarchiveTake, C!ShareTake, C!UnshareTake, C!DeleteTake, C!AddTake, C!RemoveEntry, C!AddSong,
       C!AddAlbum, C!ChooseFor, C!AppendSong, C!AppendFromAlbum, C!AppendChosen, C!ShareAlbum,
       C!UnshareAlbum, C!ShareSong, C!KeepChosen, C!UnshareSong, C!SharePlaylist, C!UnsharePlaylist,
       C!TrashOrRestore, C!BeginSweep, C!EndSweep, C!NextDay
  <1> DEFINE u == C!Min(sweep.delete)
  <1>4. /\ sweep.delete # {}
        /\ \/ C!Deletable(u, sweep.cutoff) /\ mark' = [mark EXCEPT ![u] = None]
           \/ mark' = mark
    BY <1>3 DEF C!DeleteNext, C!Without
  <1> HIDE DEF u
  <1>5. t = u /\ C!Deletable(t, sweep.cutoff)
    BY <1>1, <1>4 DEF MarksInv, C!Takes
  <1>6. sweep.cutoff = day - FinalDays
    BY <1>4 DEF SweepInv
  <1>7. mark[t].at \in Nat
    BY <1>5, MarkRows DEF C!Deletable, C!Archived, C!Marks
  <1>8. day \in Nat /\ FinalDays \in Nat
    BY PartConstants DEF SweepInv, C!TakeConstants
  <1>9. day - mark[t].at > FinalDays
    BY <1>5, <1>6, <1>7, <1>8 DEF C!Deletable
  <1> QED
    BY <1>5, <1>9 DEF C!Deletable

-----------------------------------------------------------------------------
(***************************************************************************)
(* PlaylistOrder.                                                          *)
(***************************************************************************)

\* The positions of the entries, no two of them the same.
OrderInv ==
    /\ pos \in [EntryIds -> (0..MaxPos) \cup {None}]
    /\ \A d, e \in P!Entries : d # e => pos[d] # pos[e]

\* An entry that is there has a position.
LEMMA EntryRows ==
    ASSUME OrderInv
    PROVE  \A e \in P!Entries : e \in EntryIds /\ pos[e] \in 0..MaxPos /\ pos[e] \in Nat
  BY PartConstants DEF OrderInv, P!Entries, P!OrderConstants

\* The next position is free, and behind all others.
LEMMA NextIsLast ==
    ASSUME OrderInv
    PROVE  P!NextPosition \in Nat /\ \A e \in P!Entries : pos[e] < P!NextPosition
  <1>1. CASE P!Entries = {}
    BY <1>1 DEF P!NextPosition
  <1>2. CASE P!Entries # {}
    <2> DEFINE places == {pos[e] : e \in P!Entries}
    <2>1. places \in SUBSET Nat /\ \A n \in places : n <= MaxPos
      BY EntryRows, PartConstants DEF P!OrderConstants
    <2>2. places # {} /\ MaxPos \in Nat
      BY <1>2, PartConstants DEF P!OrderConstants
    <2>3. P!NextPosition = 1 + P!Max(places)
      BY <1>2 DEF P!NextPosition
    <2>4. \A e \in P!Entries : pos[e] \in places
      OBVIOUS
    <2> HIDE DEF places
    <2>5. P!Max(places) \in Nat /\ \A n \in places : n <= P!Max(places)
      BY <2>1, <2>2, MaxOfNats
    <2>6. \A e \in P!Entries : pos[e] \in Nat /\ pos[e] <= P!Max(places)
      BY <2>4, <2>5, EntryRows
    <2> QED
      BY <2>3, <2>5, <2>6
  <1> QED
    BY <1>1, <1>2

\* What PlaylistOrderStands says of a step, of the positions alone.
KeepsOrder ==
    /\ \A d, e \in P!Entries' : d # e => pos'[d] # pos'[e]
    /\ \E m \in EntryIds : \A d, e \in (P!Entries \cap P!Entries') \ {m} :
          pos[d] < pos[e] => pos'[d] < pos'[e]

\* An entry that joins stands last.
LEMMA AddOrder == ASSUME OrderInv, NEW e \in EntryIds, P!AddEntry(e) PROVE OrderInv' /\ KeepsOrder
  <1>1. /\ pos[e] = None /\ P!NextPosition \in 0..MaxPos
        /\ pos' = [pos EXCEPT ![e] = P!NextPosition]
    BY NextIsLast, PartConstants DEF P!AddEntry, P!OrderConstants
  <1> DEFINE n == P!NextPosition
  <1>2. n # None
    BY NextIsLast, PartConstants DEF P!OrderConstants
  <1>3. \A d \in P!Entries : pos[d] # n
    BY NextIsLast, EntryRows
  <1> HIDE DEF n
  <1>4. \A d \in EntryIds : pos'[d] = IF d = e THEN n ELSE pos[d]
    BY <1>1 DEF OrderInv, n
  <1>5. P!Entries' = P!Entries \cup {e} /\ e \notin P!Entries
    BY <1>1, <1>2, <1>4 DEF P!Entries
  <1>6. \A c, d \in P!Entries' : c # d => pos'[c] # pos'[d]
    BY <1>3, <1>4, <1>5 DEF OrderInv, P!Entries
  <1>7. pos' \in [EntryIds -> (0..MaxPos) \cup {None}]
    BY <1>1 DEF OrderInv
  <1>8. \A c, d \in (P!Entries \cap P!Entries') \ {e} : pos[c] < pos[d] => pos'[c] < pos'[d]
    BY <1>4 DEF P!Entries
  <1> QED
    BY <1>6, <1>7, <1>8 DEF OrderInv, KeepsOrder

\* Later entries move up when one leaves.
LEMMA RemoveOrder == ASSUME OrderInv, NEW e \in EntryIds, P!RemoveEntry(e) PROVE OrderInv' /\ KeepsOrder
  <1>1. /\ e \in P!Entries
        /\ pos' = [f \in EntryIds |->
                     IF f = e THEN None
                     ELSE IF f \in P!Entries /\ pos[f] > pos[e] THEN pos[f] - 1 ELSE pos[f]]
    BY DEF P!RemoveEntry
  <1>2. \A d \in P!Entries : d \in EntryIds /\ pos[d] \in 0..MaxPos /\ pos[d] \in Nat
    BY EntryRows
  <1>3. None \notin Nat /\ MaxPos \in Nat
    BY PartConstants DEF P!OrderConstants
  <1>4. \A d \in P!Entries : d # e =>
          /\ pos'[d] = (IF pos[d] > pos[e] THEN pos[d] - 1 ELSE pos[d])
          /\ pos'[d] \in 0..MaxPos /\ pos'[d] # None
    BY <1>1, <1>2, <1>3
  <1>5. P!Entries' = P!Entries \ {e}
    BY <1>1, <1>4 DEF P!Entries
  <1>6. pos' \in [EntryIds -> (0..MaxPos) \cup {None}]
    <2>1. \A d \in EntryIds : pos'[d] \in (0..MaxPos) \cup {None}
      BY <1>1, <1>4 DEF P!Entries
    <2> QED
      BY <1>1, <2>1
  <1>7. \A d \in P!Entries : d # e => pos[d] # pos[e]
    BY <1>1 DEF OrderInv
  <1>8. \A c, d \in P!Entries \ {e} : c # d => pos'[c] # pos'[d]
    BY <1>1, <1>2, <1>4, <1>7 DEF OrderInv
  <1>9. \A c, d \in P!Entries \ {e} : pos[c] < pos[d] => pos'[c] < pos'[d]
    BY <1>1, <1>2, <1>4, <1>7
  <1> QED
    BY <1>5, <1>6, <1>8, <1>9 DEF OrderInv, KeepsOrder

\* A take that is deleted leaves a gap.
LEMMA CascadeOrder == ASSUME OrderInv, NEW e \in EntryIds, P!Cascade(e) PROVE OrderInv' /\ KeepsOrder
  <1>1. pos' = [pos EXCEPT ![e] = None]
    BY DEF P!Cascade
  <1>2. \A d \in EntryIds : pos'[d] = IF d = e THEN None ELSE pos[d]
    BY <1>1 DEF OrderInv
  <1>3. P!Entries' = P!Entries \ {e}
    BY <1>2 DEF P!Entries
  <1>4. pos' \in [EntryIds -> (0..MaxPos) \cup {None}]
    BY <1>1 DEF OrderInv
  <1>5. \A c, d \in P!Entries \ {e} : pos'[c] = pos[c] /\ pos'[d] = pos[d]
    BY <1>2 DEF P!Entries
  <1> QED
    BY <1>3, <1>4, <1>5 DEF OrderInv, KeepsOrder

\* The entries between the old and the new place make room.
LEMMA MoveOrder ==
    ASSUME OrderInv, NEW e \in EntryIds, NEW new \in 0..MaxPos, P!MoveEntry(e, new)
    PROVE  OrderInv' /\ KeepsOrder
  <1>1. e \in P!Entries /\ new # pos[e] /\ pos' = P!Shifted(e, new)
    BY DEF P!MoveEntry
  <1>2. \A d \in P!Entries : d \in EntryIds /\ pos[d] \in 0..MaxPos /\ pos[d] \in Nat
    BY EntryRows
  <1>3. None \notin Nat /\ MaxPos \in Nat /\ new \in Nat /\ new <= MaxPos
    BY PartConstants DEF P!OrderConstants
  <1>4. \A d \in EntryIds \ P!Entries : pos'[d] = None
    BY <1>1 DEF P!Shifted
  <1>5. \A d \in P!Entries :
          pos'[d] = IF d = e THEN new
                    ELSE IF new <= pos[d] /\ pos[d] < pos[e] THEN pos[d] + 1
                    ELSE IF pos[e] < pos[d] /\ pos[d] <= new THEN pos[d] - 1
                    ELSE pos[d]
    BY <1>1, <1>2 DEF P!Shifted
  <1>6. \A d \in P!Entries : pos'[d] \in 0..MaxPos /\ pos'[d] # None
    BY <1>1, <1>2, <1>3, <1>5
  <1>7. P!Entries' = P!Entries
    BY <1>4, <1>6 DEF P!Entries
  <1>8. pos' \in [EntryIds -> (0..MaxPos) \cup {None}]
    <2>1. \A d \in EntryIds : pos'[d] \in (0..MaxPos) \cup {None}
      BY <1>4, <1>6
    <2>2. pos' = [f \in EntryIds |-> pos'[f]]
      BY <1>1 DEF P!Shifted
    <2> QED
      BY <2>1, <2>2
  <1>9. \A c, d \in P!Entries : c # d => pos[c] # pos[d]
    BY DEF OrderInv
  <1>10. \A c, d \in P!Entries : c # d => pos'[c] # pos'[d]
    <2> SUFFICES ASSUME NEW c \in P!Entries, NEW d \in P!Entries, c # d PROVE pos'[c] # pos'[d]
      OBVIOUS
    <2>1. pos[c] \in Nat /\ pos[d] \in Nat /\ pos[e] \in Nat /\ pos[c] # pos[d]
          /\ (c # e => pos[c] # pos[e]) /\ (d # e => pos[d] # pos[e])
      BY <1>1, <1>2, <1>9
    <2> QED
      BY <1>3, <1>5, <2>1
  <1>11. \A c, d \in P!Entries \ {e} : pos[c] < pos[d] => pos'[c] < pos'[d]
    <2> SUFFICES ASSUME NEW c \in P!Entries \ {e}, NEW d \in P!Entries \ {e}, pos[c] < pos[d]
                 PROVE  pos'[c] < pos'[d]
      OBVIOUS
    <2>1. pos[c] \in Nat /\ pos[d] \in Nat /\ pos[e] \in Nat /\ pos[c] # pos[e] /\ pos[d] # pos[e]
      BY <1>1, <1>2, <1>9
    <2> QED
      BY <1>3, <1>5, <2>1
  <1> QED
    BY <1>7, <1>8, <1>10, <1>11 DEF OrderInv, KeepsOrder

\* Every step of a playlist keeps the positions apart and the others in order.
LEMMA OrderStep ==
    OrderInv /\ [P!Next]_pos => OrderInv' /\ [KeepsOrder]_pos
  <1> SUFFICES ASSUME OrderInv, [P!Next]_pos PROVE OrderInv' /\ [KeepsOrder]_pos
    OBVIOUS
  <1>1. CASE UNCHANGED pos
    BY <1>1 DEF OrderInv, P!Entries
  <1>2. CASE P!Next
    BY <1>2, AddOrder, RemoveOrder, CascadeOrder, MoveOrder DEF P!Next
  <1> QED
    BY <1>1, <1>2

-----------------------------------------------------------------------------
(***************************************************************************)
(* AlbumTrash.                                                             *)
(***************************************************************************)

\* The instance counts as FiniteSets does.
LEMMA AlbumSets ==
    ASSUME NEW S PROVE (A!IsFiniteSet(S) <=> IsFiniteSet(S)) /\ A!Cardinality(S) = Cardinality(S)
  <1>1. A!IsFiniteSet(S) <=> IsFiniteSet(S)
    BY DEF A!IsFiniteSet, IsFiniteSet
  <1>2. A!Cardinality(S) = Cardinality(S)
    BY DEF A!Cardinality, Cardinality, A!IsFiniteSet, IsFiniteSet
  <1> QED
    BY <1>1, <1>2

\* A request that holds the slug lock.
WorkRow ==
    [for : {"create", "rename", "move"}, song : SongIds, album : AlbumIds, title : Titles,
     slug : A!Slugs]

\* Albums, songs and requests.
AlbumType ==
    /\ now \in Nat
    /\ album \in [AlbumIds -> Nat \cup {None, Gone}]
    /\ song \in [SongIds -> A!Song \cup {Gone}]
    /\ ask = A!NoWork \/ ask \in [for : {"create", "rename", "move"}, song : SongIds,
                                  album : AlbumIds, title : Titles]
    /\ work = A!NoWork \/ work \in WorkRow
    /\ took \in [AlbumIds -> SUBSET SongIds]

\* What went to the trash went there before now.
MomentsPast ==
    /\ \A a \in AlbumIds : album[a] \in Nat => album[a] < now
    /\ \A s \in A!Rows : song[s].at \in Nat => song[s].at < now

\* No song of an album in the trash is live.
TrashedWhole == \A s \in A!Rows : album[song[s].album] \in Nat => song[s].at # None

\* The songs that share the moment of an album in the trash are those it took along.
TookStands ==
    \A a \in AlbumIds : album[a] \in Nat =>
        \A s \in SongIds : s \in took[a] <=> (s \in A!Rows /\ song[s].album = a /\ song[s].at = album[a])

\* The inductive invariant of albums in and out of the trash.
AlbumInv == AlbumType /\ MomentsPast /\ TrashedWhole /\ TookStands /\ A!SlugsStayUnique

\* A song that is there has a row, and no row is Gone.
LEMMA SongRows ==
    ASSUME AlbumType
    PROVE  /\ \A s \in A!Rows : s \in SongIds /\ song[s] \in A!Song
           /\ Gone \notin A!Song
  BY PartConstants DEF AlbumType, A!Rows, A!AlbumConstants

\* Albums are there from the start, and songs are not.
LEMMA AlbumInit == A!Init => AlbumInv
  <1> SUFFICES ASSUME A!Init PROVE AlbumInv
    OBVIOUS
  <1>1. A!Rows = {} /\ \A a \in AlbumIds : album[a] = None /\ None \notin Nat
    BY PartConstants DEF A!Init, A!Rows, A!AlbumConstants
  <1>2. AlbumType
    BY DEF A!Init, AlbumType
  <1>3. A!SlugsStayUnique
    BY <1>1 DEF A!Init, A!NoWork, A!SlugsStayUnique
  <1> QED
    BY <1>1, <1>2, <1>3 DEF AlbumInv, MomentsPast, TrashedWhole, TookStands

\* There is a free counter, so the slug that is chosen is free.
LEMMA SlugIsFree ==
    ASSUME AlbumType, NEW a \in AlbumIds, NEW t \in Titles, NEW s \in SongIds
    PROVE  /\ A!FirstFreeSlug(a, t, {s}) \in A!Slugs
           /\ ~A!IsTaken(a, A!FirstFreeSlug(a, t, {s}), {s})
  <1> DEFINE Others == SongIds \ {s}
             f == [q \in Others |-> song[q].slug[2]]
             Used == {f[q] : q \in Others}
             Free == {n \in 1..MaxCounter : ~A!IsTaken(a, <<t, n>>, {s})}
  <1>1. /\ MaxCounter \in Nat /\ IsFiniteSet(SongIds) /\ Cardinality(SongIds) <= MaxCounter
        /\ Cardinality(SongIds) \in Nat
    BY PartConstants, AlbumSets, FS_CardinalityType DEF A!AlbumConstants
  <1>2. IsFiniteSet(Others) /\ Cardinality(Others) = Cardinality(SongIds) - 1
    BY <1>1, FS_RemoveElement
  <1>3. IsFiniteSet(Used) /\ Cardinality(Used) <= Cardinality(Others) /\ Cardinality(Used) \in Nat
    <2>1. f \in Surjection(Others, Used)
      BY DEF Surjection
    <2> HIDE DEF f, Others, Used
    <2> QED
      BY <1>2, <2>1, FS_Surjection, FS_CardinalityType
  <1>4. IsFiniteSet(1..MaxCounter) /\ Cardinality(1..MaxCounter) = MaxCounter
    BY <1>1, FS_Interval
  <1>5. PICK n \in 1..MaxCounter : n \notin Used
    <2> SUFFICES ASSUME 1..MaxCounter \subseteq Used PROVE FALSE
      OBVIOUS
    <2>1. Cardinality(1..MaxCounter) <= Cardinality(Used)
      <3> HIDE DEF Used
      <3> QED
        BY <1>3, FS_Subset
    <2> QED
      BY <1>1, <1>2, <1>3, <1>4, <2>1
  <1>6. ~A!IsTaken(a, <<t, n>>, {s})
    <2> SUFFICES ASSUME NEW q \in A!SongsOf(a) \ {s}, song[q].slug = <<t, n>> PROVE FALSE
      BY DEF A!IsTaken
    <2>1. q \in Others
      BY DEF A!SongsOf, A!Rows
    <2>2. f[q] = n
      BY <2>1
    <2> QED
      BY <1>5, <2>1, <2>2
  <1>7. Free \in SUBSET Nat /\ Free # {}
    BY <1>6
  <1> HIDE DEF Free
  <1>8. A!Min(Free) \in Free
    <2>1. \E k \in Free : \A m \in Free : k <= m
      BY <1>7, SmallestNat
    <2> QED
      BY <2>1 DEF A!Min
  <1>9. A!FirstFreeSlug(a, t, {s}) = <<t, A!Min(Free)>>
    BY DEF A!FirstFreeSlug, Free
  <1> DEFINE m == A!Min(Free)
  <1>10. m \in 1..MaxCounter /\ ~A!IsTaken(a, <<t, m>>, {s})
    BY <1>8 DEF Free
  <1> HIDE DEF m
  <1>11. <<t, m>> \in A!Slugs
    BY <1>10 DEF A!Slugs
  <1> QED
    BY <1>9, <1>10, <1>11, Zenon DEF m

\* What the row r of a song s may become in a step, as the trash and the slugs allow.
RowFits(s, r) ==
    /\ r.at \in Nat => r.at < now'
    /\ album[r.album] \in Nat => r.at # None
    /\ \A a \in AlbumIds : album[a] \in Nat =>
         ((s \in A!Rows /\ song[s].album = a /\ song[s].at = album[a])
             <=> (r.album = a /\ r.at = album[a]))
    /\ \A q \in A!Rows : q # s /\ song[q].album = r.album => song[q].slug # r.slug
    /\ (work'.for \in {"create", "move"} /\ s # work.song /\ r.album = work.album) => r.slug # work.slug

\* The row of one song changes.
LEMMA RowStep ==
    ASSUME AlbumInv, NEW s \in SongIds, NEW r \in A!Song, song' = [song EXCEPT ![s] = r],
           UNCHANGED <<album, took, ask>>, now' \in Nat, now' >= now,
           work' = A!NoWork \/ work' = work, RowFits(s, r)
    PROVE  AlbumInv'
  <1>1. AlbumType'
    BY DEF AlbumInv, AlbumType
  <1>2. \A q \in SongIds : song'[q] = IF q = s THEN r ELSE song[q]
    BY DEF AlbumInv, AlbumType
  <1>3. A!Rows' = A!Rows \cup {s}
    BY <1>2, SongRows DEF AlbumInv, A!Rows
  <1>4. \A q \in A!Rows : q \in SongIds
    BY DEF A!Rows
  <1>5. MomentsPast'
    BY <1>2, <1>3, <1>4 DEF AlbumInv, AlbumType, MomentsPast, RowFits
  <1>6. TrashedWhole'
    BY <1>2, <1>3, <1>4 DEF AlbumInv, TrashedWhole, RowFits
  <1>7. TookStands'
    BY <1>2, <1>3, <1>4 DEF AlbumInv, TookStands, RowFits
  <1>8. A!SlugsStayUnique'
    <2>1. \A p, q \in A!Rows' : p # q /\ song'[p].album = song'[q].album => song'[p].slug # song'[q].slug
      BY <1>2, <1>3, <1>4 DEF AlbumInv, A!SlugsStayUnique, RowFits
    <2>2. work'.for \in {"create", "move"} =>
            \A q \in A!SongsOf(work.album)' \ {work.song} : song'[q].slug # work.slug
      BY <1>2, <1>3, <1>4 DEF AlbumInv, A!SlugsStayUnique, RowFits, A!SongsOf, A!NoWork
    <2> QED
      BY <2>1, <2>2 DEF A!SlugsStayUnique, A!NoWork, A!SongsOf
  <1> QED
    BY <1>1, <1>5, <1>6, <1>7, <1>8 DEF AlbumInv

\* A request that asks for the slug lock.
Asks ==
    \E s \in SongIds : \/ \E a \in AlbumIds : A!AskMove(s, a)
                       \/ \E t \in Titles : A!AskRename(s, t)
                       \/ \E a \in AlbumIds, t \in Titles : A!AskCreate(s, a, t)

\* A request that asks for the slug lock, or gets it.
LEMMA ReserveKeeps ==
    ASSUME AlbumInv, A!Reserve \/ Asks
    PROVE  AlbumInv'
  <1>1. UNCHANGED <<now, album, song, took>>
    BY DEF Asks, A!Reserve, A!AskMove, A!AskRename, A!AskCreate, A!Ask
  <1>2. MomentsPast' /\ TrashedWhole' /\ TookStands'
    BY <1>1 DEF AlbumInv, MomentsPast, TrashedWhole, TookStands, A!Rows
  <1>3. CASE A!Reserve
    <2> DEFINE slug == A!FirstFreeSlug(ask.album, ask.title, {ask.song})
    <2>1. ask \in [for : {"create", "rename", "move"}, song : SongIds, album : AlbumIds, title : Titles]
      BY <1>3 DEF AlbumInv, AlbumType, A!Reserve
    <2>2. slug \in A!Slugs /\ ~A!IsTaken(ask.album, slug, {ask.song})
      BY <2>1, SlugIsFree DEF AlbumInv
    <2>3. /\ work' = [for |-> ask.for, song |-> ask.song, album |-> ask.album, title |-> ask.title,
                      slug |-> slug]
          /\ ask' = A!NoWork
      BY <1>3 DEF A!Reserve
    <2> HIDE DEF slug
    <2>4. AlbumType'
      BY <1>1, <2>1, <2>2, <2>3 DEF AlbumInv, AlbumType, WorkRow
    <2>5. A!SlugsStayUnique'
      BY <1>1, <2>2, <2>3 DEF AlbumInv, A!SlugsStayUnique, A!IsTaken, A!SongsOf, A!Rows
    <2> QED
      BY <1>2, <2>4, <2>5 DEF AlbumInv
  <1>4. CASE ~A!Reserve
    <2>1. work' = work
      BY <1>4 DEF Asks, A!AskMove, A!AskRename, A!AskCreate, A!Ask
    <2>2. PICK k \in {"create", "rename", "move"}, s \in SongIds, a \in AlbumIds, t \in Titles :
            ask' = [for |-> k, song |-> s, album |-> a, title |-> t]
      BY <1>4, SongRows DEF Asks, AlbumInv, A!Song, A!AskMove, A!AskRename, A!AskCreate, A!Ask, A!OpenSong
    <2>3. AlbumType'
      BY <1>1, <2>1, <2>2 DEF AlbumInv, AlbumType
    <2>4. A!SlugsStayUnique'
      BY <1>1, <2>1 DEF AlbumInv, A!SlugsStayUnique, A!SongsOf, A!Rows
    <2> QED
      BY <1>2, <2>3, <2>4 DEF AlbumInv
  <1> QED
    BY <1>3, <1>4

\* A step that leaves albums and songs alone.
LEMMA AlbumStays ==
    ASSUME AlbumInv, UNCHANGED <<album, song, ask, took>>, now' \in Nat, now' >= now,
           work' = work \/ work' = A!NoWork
    PROVE  AlbumInv'
  <1>1. AlbumType' /\ TrashedWhole' /\ TookStands'
    BY DEF AlbumInv, AlbumType, TrashedWhole, TookStands, A!Rows
  <1>2. MomentsPast'
    BY DEF AlbumInv, AlbumType, MomentsPast, A!Rows
  <1>3. A!SlugsStayUnique'
    BY DEF AlbumInv, A!SlugsStayUnique, A!SongsOf, A!Rows, A!NoWork
  <1> QED
    BY <1>1, <1>2, <1>3 DEF AlbumInv

\* The request that holds the lock writes what it reserved.
LEMMA WriteKeeps ==
    ASSUME AlbumInv, A!CreateSong \/ A!RenameSong \/ A!MoveSong
    PROVE  AlbumInv'
  <1> DEFINE s == work.song
  <1>1. work \in WorkRow
    BY DEF AlbumInv, AlbumType, A!CreateSong, A!RenameSong, A!MoveSong, A!NoWork
  <1>2. /\ s \in SongIds /\ work.album \in AlbumIds /\ work.title \in Titles /\ work.slug \in A!Slugs
        /\ UNCHANGED <<now, album, ask, took>> /\ work' = A!NoWork /\ now \in Nat /\ now >= now
        /\ work'.for \notin {"create", "move"}
    BY <1>1 DEF WorkRow, AlbumInv, AlbumType, A!CreateSong, A!RenameSong, A!MoveSong, A!NoWork
  <1>3. None \notin Nat
    BY PartConstants DEF A!AlbumConstants
  <1>4. CASE song' = song
    BY <1>2, <1>4, AlbumStays
  <1>5. CASE A!CreateSong /\ song' # song
    <2> DEFINE r == [album |-> work.album, title |-> work.title, slug |-> work.slug, at |-> None]
    <2>1. song[s] = Gone /\ album[work.album] = None /\ song' = [song EXCEPT ![s] = r]
          /\ work.for = "create"
      BY <1>5 DEF A!CreateSong, A!OpenAlbum
    <2>2. r \in A!Song /\ r.album = work.album /\ r.slug = work.slug /\ r.at = None
      BY <1>2 DEF A!Song
    <2>3. \A q \in A!Rows : q # s /\ song[q].album = work.album => song[q].slug # work.slug
      BY <2>1 DEF AlbumInv, A!SlugsStayUnique, A!SongsOf
    <2>4. s \notin A!Rows
      BY <2>1 DEF A!Rows
    <2> HIDE DEF r, s
    <2>5. RowFits(s, r)
      BY <1>2, <1>3, <2>1, <2>2, <2>3, <2>4 DEF RowFits
    <2> QED
      BY <1>2, <2>1, <2>2, <2>5, RowStep
  <1>6. CASE A!RenameSong /\ song' # song
    <2> DEFINE r == [song[s] EXCEPT !.title = work.title, !.slug = work.slug]
    <2>1. s \in A!Rows /\ song[s].at = None /\ ~A!IsTaken(song[s].album, work.slug, {s})
      BY <1>6 DEF A!RenameSong, A!OpenSong
    <2>2. song' = [song EXCEPT ![s] = r]
      BY <1>6, <2>1 DEF A!RenameSong, A!OpenSong
    <2>3. r \in A!Song /\ r.album = song[s].album /\ r.slug = work.slug /\ r.at = None
      BY <1>2, <2>1, SongRows DEF AlbumInv, A!Song
    <2>4. \A q \in A!Rows : q # s /\ song[q].album = r.album => song[q].slug # r.slug
      BY <2>1, <2>3 DEF A!IsTaken, A!SongsOf
    <2>5. album[r.album] \notin Nat
      BY <2>1, <2>3 DEF AlbumInv, TrashedWhole
    <2> HIDE DEF r, s
    <2>6. RowFits(s, r)
      BY <1>2, <1>3, <2>1, <2>3, <2>4, <2>5 DEF RowFits
    <2> QED
      BY <1>2, <2>2, <2>3, <2>6, RowStep
  <1>7. CASE A!MoveSong /\ song' # song
    <2> DEFINE r == [song[s] EXCEPT !.album = work.album, !.slug = work.slug]
    <2>1. s \in A!Rows /\ song[s].at = None /\ album[work.album] = None /\ work.for = "move"
      BY <1>7 DEF A!MoveSong, A!OpenSong, A!OpenAlbum
    <2>2. song' = [song EXCEPT ![s] = r]
      BY <1>7 DEF A!MoveSong
    <2>3. r \in A!Song /\ r.album = work.album /\ r.slug = work.slug /\ r.at = None
      BY <1>2, <2>1, SongRows DEF AlbumInv, A!Song
    <2>4. \A q \in A!Rows : q # s /\ song[q].album = work.album => song[q].slug # work.slug
      BY <2>1 DEF AlbumInv, A!SlugsStayUnique, A!SongsOf
    <2> HIDE DEF r, s
    <2>5. RowFits(s, r)
      BY <1>2, <1>3, <2>1, <2>3, <2>4 DEF RowFits
    <2> QED
      BY <1>2, <2>2, <2>3, <2>5, RowStep
  <1> QED
    BY <1>4, <1>5, <1>6, <1>7

\* A song that goes to the trash or comes back on its own.
LEMMA SongTrashKeeps ==
    ASSUME AlbumInv, NEW s \in SongIds, A!TrashSong(s) \/ A!RestoreSong(s)
    PROVE  AlbumInv'
  <1> DEFINE at == IF A!TrashSong(s) THEN now ELSE None
             r == [song[s] EXCEPT !.at = at]
  <1>1. s \in A!Rows /\ song[s] \in A!Song /\ now \in Nat /\ at \in Nat \cup {None}
    BY SongRows DEF AlbumInv, AlbumType, A!TrashSong, A!RestoreSong, A!OpenSong
  <1>2. None \notin Nat
    BY PartConstants DEF A!AlbumConstants
  <1>3. /\ song' = [song EXCEPT ![s] = r] /\ UNCHANGED <<album, ask, work, took>>
        /\ now' = IF A!TrashSong(s) THEN now + 1 ELSE now
    BY DEF A!TrashSong, A!RestoreSong
  <1>4. now' \in Nat /\ now' >= now /\ (at \in Nat => at < now')
    BY <1>1, <1>2, <1>3
  <1>5. album[song[s].album] \notin Nat
    BY <1>1, <1>2 DEF AlbumInv, TrashedWhole, A!TrashSong, A!RestoreSong, A!OpenSong, A!OpenAlbum
  <1> HIDE DEF at
  <1>6. r \in A!Song /\ r.album = song[s].album /\ r.slug = song[s].slug /\ r.at = at
    BY <1>1 DEF A!Song
  <1> HIDE DEF r
  <1>7. \A q \in A!Rows : q # s /\ song[q].album = r.album => song[q].slug # r.slug
    BY <1>1, <1>6 DEF AlbumInv, A!SlugsStayUnique
  <1>8. work'.for \in {"create", "move"} /\ s # work.song /\ r.album = work.album => r.slug # work.slug
    BY <1>1, <1>3, <1>6 DEF AlbumInv, A!SlugsStayUnique, A!SongsOf
  <1>9. \A a \in AlbumIds : album[a] \in Nat => song[s].album # a
    BY <1>5
  <1>10. RowFits(s, r)
    BY <1>4, <1>5, <1>6, <1>7, <1>8, <1>9 DEF RowFits
  <1> QED
    BY <1>3, <1>4, <1>6, <1>10, RowStep

\* Songs that stay keep their album and slug, and none is new.
LEMMA SlugsStay ==
    ASSUME AlbumInv, work' = work,
           \A s \in SongIds : s \in A!Rows' =>
             s \in A!Rows /\ song'[s].album = song[s].album /\ song'[s].slug = song[s].slug
    PROVE  A!SlugsStayUnique'
  <1>1. \A s \in A!Rows' : s \in SongIds
    BY DEF A!Rows
  <1> QED
    BY <1>1 DEF AlbumInv, A!SlugsStayUnique, A!SongsOf

\* The moment of a song's row changes.
LEMMA MomentOfSong ==
    ASSUME NEW r \in A!Song, NEW at \in Nat \cup {None}
    PROVE  LET q == [r EXCEPT !.at = at] IN
             q \in A!Song /\ q.album = r.album /\ q.slug = r.slug /\ q.at = at
  BY DEF A!Song

\* An album goes to the trash with its live songs, at a moment of its own.
LEMMA TrashAlbumKeeps == ASSUME AlbumInv, NEW a \in AlbumIds, A!TrashAlbum(a) PROVE AlbumInv'
  <1> DEFINE with == A!LiveSongs(a)
  <1>1. /\ album[a] = None /\ album' = [album EXCEPT ![a] = now] /\ now' = now + 1
        /\ song' = [s \in SongIds |-> IF s \in with THEN [song[s] EXCEPT !.at = now] ELSE song[s]]
        /\ took' = [took EXCEPT ![a] = with] /\ UNCHANGED <<ask, work>>
    BY DEF A!TrashAlbum, A!Trashed, A!OpenAlbum
  <1>2. \A s : s \in with <=> s \in A!Rows /\ song[s].album = a /\ song[s].at = None
    BY DEF A!LiveSongs, A!SongsOf
  <1>3. with \in SUBSET SongIds
    BY DEF A!LiveSongs, A!SongsOf, A!Rows
  <1> HIDE DEF with
  <1>4. now \in Nat /\ None \notin Nat /\ Gone \notin Nat
    BY PartConstants DEF AlbumInv, AlbumType, A!AlbumConstants
  <1>5. \A s \in A!Rows :
          /\ s \in SongIds /\ song'[s] \in A!Song /\ s \in A!Rows'
          /\ song'[s].album = song[s].album /\ song'[s].slug = song[s].slug
          /\ song'[s].at = IF s \in with THEN now ELSE song[s].at
    <2> SUFFICES ASSUME NEW s \in A!Rows
                 PROVE  /\ s \in SongIds /\ song'[s] \in A!Song /\ s \in A!Rows'
                        /\ song'[s].album = song[s].album /\ song'[s].slug = song[s].slug
                        /\ song'[s].at = IF s \in with THEN now ELSE song[s].at
      OBVIOUS
    <2>1. s \in SongIds /\ song[s] \in A!Song /\ Gone \notin A!Song
      BY SongRows DEF AlbumInv
    <2>2. CASE s \in with
      <3>1. song'[s] = [song[s] EXCEPT !.at = now]
        BY <1>1, <2>1, <2>2
      <3> QED
        BY <1>4, <2>1, <2>2, <3>1, MomentOfSong DEF A!Rows
    <2>3. CASE s \notin with
      BY <1>1, <2>1, <2>3 DEF A!Rows
    <2> QED
      BY <2>2, <2>3
  <1>6. \A s \in SongIds : s \notin A!Rows => song'[s] = Gone /\ s \notin A!Rows'
    BY <1>1, <1>2 DEF A!Rows
  <1>7. A!Rows' = A!Rows
    BY <1>5, <1>6 DEF A!Rows
  <1>8. \A b \in AlbumIds : album'[b] = IF b = a THEN now ELSE album[b]
    BY <1>1 DEF AlbumInv, AlbumType
  <1>9. AlbumType'
    <2>1. song' \in [SongIds -> A!Song \cup {Gone}]
      BY <1>1, <1>5, <1>6
    <2> QED
      BY <1>1, <1>3, <1>4, <2>1 DEF AlbumInv, AlbumType
  <1>10. MomentsPast'
    <2>1. \A b \in AlbumIds : album'[b] \in Nat => album'[b] < now'
      BY <1>1, <1>4, <1>8 DEF AlbumInv, MomentsPast
    <2>2. ASSUME NEW s \in A!Rows, song'[s].at \in Nat PROVE song'[s].at < now'
      <3>1. CASE s \in with
        <4>1. song'[s].at = now
          BY <1>5, <3>1
        <4>2. now < now'
          BY <1>1, <1>4
        <4> QED
          BY <4>1, <4>2
      <3>2. CASE s \notin with
        <4>1. song'[s].at = song[s].at
          BY <1>5, <3>2
        <4>2. song[s].at \in Nat /\ song[s].at < now
          BY <2>2, <4>1 DEF AlbumInv, MomentsPast
        <4> QED
          BY <1>1, <1>4, <4>1, <4>2
      <3> QED
        BY <3>1, <3>2
    <2> QED
      BY <1>7, <2>1, <2>2 DEF MomentsPast
  <1>11. TrashedWhole'
    <2>1. \A s \in A!Rows : song[s].album \in AlbumIds
      BY SongRows DEF AlbumInv, A!Song
    <2>2. ASSUME NEW s \in A!Rows, album'[song[s].album] \in Nat PROVE song'[s].at # None
      BY <1>2, <1>4, <1>5, <1>8, <2>1, <2>2 DEF AlbumInv, TrashedWhole
    <2> QED
      BY <1>5, <1>7, <2>2 DEF TrashedWhole
  <1>12. TookStands'
    <2>1. \A s \in A!Rows : song[s].album = a /\ song'[s].at = now => s \in with
      BY <1>4, <1>5 DEF AlbumInv, MomentsPast
    <2>2. \A s \in SongIds : s \in with <=> (s \in A!Rows /\ song'[s].album = a /\ song'[s].at = now)
      BY <1>2, <1>5, <2>1
    <2>3. took'[a] = with /\ \A b \in AlbumIds : b # a => took'[b] = took[b]
      BY <1>1, <1>3 DEF AlbumInv, AlbumType
    <2>4. \A b \in AlbumIds : b # a => \A s \in A!Rows :
             song[s].album = b => song'[s] = song[s]
      BY <1>1, <1>2, <1>5
    <2> QED
      BY <1>5, <1>7, <1>8, <2>2, <2>3, <2>4 DEF AlbumInv, TookStands
  <1>13. A!SlugsStayUnique'
    BY <1>1, <1>5, <1>7, SlugsStay
  <1> QED
    BY <1>9, <1>10, <1>11, <1>12, <1>13 DEF AlbumInv

\* What an album took with it comes back with it.
LEMMA RestoreAlbumKeeps ==
    ASSUME AlbumInv, NEW a \in AlbumIds, A!RestoreAlbum(a)
    PROVE  /\ AlbumInv'
           /\ album[a] \in Nat
           /\ \A s \in A!Rows : s \in SongIds
                /\ song'[s].at = IF s \in took[a] THEN None ELSE song[s].at
           /\ \A b \in AlbumIds : b # a => album'[b] = album[b]
  <1> DEFINE with == A!RestoredWith(a)
  <1>1. /\ album' = [album EXCEPT ![a] = None] /\ UNCHANGED <<now, ask, work, took>>
        /\ song' = [s \in SongIds |-> IF s \in with THEN [song[s] EXCEPT !.at = None] ELSE song[s]]
    BY DEF A!RestoreAlbum
  <1>2. album[a] \in Nat
    BY DEF AlbumInv, AlbumType, A!RestoreAlbum, A!InTrash
  <1>3. \A s : s \in with <=> s \in A!Rows /\ song[s].album = a /\ song[s].at = album[a]
    BY DEF A!RestoredWith, A!SongsOf
  <1> HIDE DEF with
  <1>4. now \in Nat /\ None \notin Nat /\ Gone \notin Nat
    BY PartConstants DEF AlbumInv, AlbumType, A!AlbumConstants
  <1>5. \A s \in A!Rows :
          /\ s \in SongIds /\ song'[s] \in A!Song /\ s \in A!Rows'
          /\ song'[s].album = song[s].album /\ song'[s].slug = song[s].slug
          /\ song'[s].at = IF s \in with THEN None ELSE song[s].at
    <2> SUFFICES ASSUME NEW s \in A!Rows
                 PROVE  /\ s \in SongIds /\ song'[s] \in A!Song /\ s \in A!Rows'
                        /\ song'[s].album = song[s].album /\ song'[s].slug = song[s].slug
                        /\ song'[s].at = IF s \in with THEN None ELSE song[s].at
      OBVIOUS
    <2>1. s \in SongIds /\ song[s] \in A!Song /\ Gone \notin A!Song
      BY SongRows DEF AlbumInv
    <2>2. CASE s \in with
      <3>1. song'[s] = [song[s] EXCEPT !.at = None]
        BY <1>1, <2>1, <2>2
      <3> QED
        BY <1>4, <2>1, <2>2, <3>1, MomentOfSong DEF A!Rows
    <2>3. CASE s \notin with
      BY <1>1, <2>1, <2>3 DEF A!Rows
    <2> QED
      BY <2>2, <2>3
  <1>6. \A s \in SongIds : s \notin A!Rows => song'[s] = Gone /\ s \notin A!Rows'
    BY <1>1, <1>3 DEF A!Rows
  <1>7. A!Rows' = A!Rows
    BY <1>5, <1>6 DEF A!Rows
  <1>8. \A b \in AlbumIds : album'[b] = IF b = a THEN None ELSE album[b]
    BY <1>1 DEF AlbumInv, AlbumType
  <1>9. AlbumType'
    <2>1. song' \in [SongIds -> A!Song \cup {Gone}]
      BY <1>1, <1>5, <1>6
    <2> QED
      BY <1>1, <1>4, <2>1 DEF AlbumInv, AlbumType
  <1>10. MomentsPast'
    BY <1>1, <1>4, <1>5, <1>7, <1>8 DEF AlbumInv, MomentsPast
  <1>11. TrashedWhole'
    <2>1. \A s \in A!Rows : song[s].album \in AlbumIds
      BY SongRows DEF AlbumInv, A!Song
    <2>2. ASSUME NEW s \in A!Rows, album'[song[s].album] \in Nat PROVE song'[s].at # None
      BY <1>3, <1>4, <1>5, <1>8, <2>1, <2>2 DEF AlbumInv, TrashedWhole
    <2> QED
      BY <1>5, <1>7, <2>2 DEF TrashedWhole
  <1>12. TookStands'
    <2>1. \A b \in AlbumIds : b # a => \A s \in A!Rows : song[s].album = b => song'[s] = song[s]
      BY <1>1, <1>3, <1>5
    <2>2. ASSUME NEW b \in AlbumIds, album'[b] \in Nat, NEW s \in SongIds
          PROVE  s \in took'[b] <=> (s \in A!Rows' /\ song'[s].album = b /\ song'[s].at = album'[b])
      <3>1. b # a /\ album'[b] = album[b] /\ took'[b] = took[b]
        BY <1>1, <1>4, <1>8, <2>2
      <3>2. s \in took[b] <=> (s \in A!Rows /\ song[s].album = b /\ song[s].at = album[b])
        BY <2>2, <3>1 DEF AlbumInv, TookStands
      <3>3. s \in A!Rows => (song'[s].album = song[s].album /\ (song[s].album = b => song'[s] = song[s]))
        BY <1>5, <2>1, <3>1
      <3> QED
        BY <1>7, <3>1, <3>2, <3>3
    <2> QED
      BY <2>2 DEF TookStands
  <1>13. A!SlugsStayUnique'
    BY <1>1, <1>5, <1>7, SlugsStay
  <1>14. \A s \in A!Rows : s \in with <=> s \in took[a]
    BY <1>2, <1>3, <1>5 DEF AlbumInv, TookStands
  <1> QED
    BY <1>2, <1>5, <1>8, <1>9, <1>10, <1>11, <1>12, <1>13, <1>14 DEF AlbumInv

\* What expired goes, and what is in the trash for a shorter time stays as it is.
LEMMA PurgeKeeps == ASSUME AlbumInv, A!Purge PROVE AlbumInv'
  <1> DEFINE lost == A!OrphanSongs \cup A!DeletedWithAlbum
  <1>1. /\ album' = [a \in AlbumIds |-> IF a \in A!ExpiredAlbums THEN Gone ELSE album[a]]
        /\ song' = [s \in SongIds |-> IF s \in lost THEN Gone ELSE song[s]]
        /\ UNCHANGED <<now, ask, work, took>>
    BY DEF A!Purge
  <1>2. Gone \notin Nat
    BY PartConstants DEF A!AlbumConstants
  <1>3. \A s \in SongIds : (s \in A!Rows' <=> s \in A!Rows /\ s \notin lost)
                           /\ (s \in A!Rows' => song'[s] = song[s])
    BY <1>1 DEF A!Rows
  <1>4. \A a \in AlbumIds : album'[a] \in Nat => album'[a] = album[a] /\ a \notin A!ExpiredAlbums
    BY <1>1, <1>2
  <1>5. \A a \in AlbumIds, s \in A!Rows :
          a \notin A!ExpiredAlbums /\ song[s].album = a /\ song[s].at = album[a] => s \notin lost
    BY DEF A!ExpiredAlbums, A!OrphanSongs, A!DeletedWithAlbum
  <1> HIDE DEF lost
  <1>6. A!Rows' \subseteq A!Rows /\ A!Rows \subseteq SongIds
    BY <1>3 DEF A!Rows
  <1>7. AlbumType'
    BY <1>1 DEF AlbumInv, AlbumType
  <1>8. MomentsPast'
    BY <1>1, <1>3, <1>4, <1>6 DEF AlbumInv, MomentsPast
  <1>9. TrashedWhole'
    <2>1. \A s \in A!Rows : song[s].album \in AlbumIds
      BY SongRows DEF AlbumInv, A!Song
    <2> QED
      BY <1>3, <1>4, <1>6, <2>1 DEF AlbumInv, TrashedWhole
  <1>10. TookStands'
    BY <1>1, <1>3, <1>4, <1>5, <1>6 DEF AlbumInv, TookStands
  <1>11. A!SlugsStayUnique'
    BY <1>1, <1>3, <1>6, SlugsStay
  <1> QED
    BY <1>7, <1>8, <1>9, <1>10, <1>11 DEF AlbumInv

\* Every step of albums and songs keeps the invariant.
LEMMA AlbumStep == AlbumInv /\ [A!Next]_(A!vars) => AlbumInv'
  <1> SUFFICES ASSUME AlbumInv, [A!Next]_(A!vars) PROVE AlbumInv'
    OBVIOUS
  <1>1. CASE A!Reserve \/ Asks
    BY <1>1, ReserveKeeps
  <1>2. CASE A!CreateSong \/ A!RenameSong \/ A!MoveSong
    BY <1>2, WriteKeeps
  <1>3. ASSUME NEW a \in AlbumIds, A!TrashAlbum(a) \/ A!RestoreAlbum(a) PROVE AlbumInv'
    BY <1>3, TrashAlbumKeeps, RestoreAlbumKeeps
  <1>4. ASSUME NEW s \in SongIds, A!TrashSong(s) \/ A!RestoreSong(s) PROVE AlbumInv'
    BY <1>4, SongTrashKeeps
  <1>5. CASE A!Purge
    BY <1>5, PurgeKeeps
  <1>6. CASE A!Tick \/ UNCHANGED A!vars
    <2>1. UNCHANGED <<album, song, ask, took, work>> /\ now' \in Nat /\ now' >= now
      BY <1>6 DEF AlbumInv, AlbumType, A!Tick, A!vars
    <2> QED
      BY <2>1, AlbumStays
  <1> QED
    BY <1>1, <1>2, <1>3, <1>4, <1>5, <1>6 DEF A!Next, Asks

\* An album that leaves the trash brings back what its trashing took.
LEMMA TrashIntent ==
    ASSUME AlbumInv, [A!Next]_(A!vars), NEW a \in AlbumIds, A!InTrash(album[a]), album'[a] = None
    PROVE  {s \in A!Rows : A!InTrash(song[s].at) /\ song'[s].at = None} = took[a]
  <1>1. None # Gone /\ None \notin Nat /\ Gone \notin Nat
    BY PartConstants DEF A!AlbumConstants
  <1>2. album[a] \in Nat
    BY DEF AlbumInv, AlbumType, A!InTrash
  <1>3. ASSUME NEW b \in AlbumIds, A!TrashAlbum(b) PROVE FALSE
    BY <1>1, <1>2, <1>3 DEF AlbumInv, AlbumType, A!TrashAlbum, A!Trashed
  <1>4. ~A!Purge
    BY <1>1, <1>2 DEF A!Purge
  <1>5. PICK b \in AlbumIds : A!RestoreAlbum(b)
    BY <1>1, <1>2, <1>3, <1>4 DEF A!Next, A!vars, A!AskCreate, A!AskRename, A!AskMove, A!Ask, A!Reserve,
       A!CreateSong, A!RenameSong, A!MoveSong, A!TrashSong, A!RestoreSong, A!Tick
  <1>6. b = a
    BY <1>1, <1>2, <1>5, RestoreAlbumKeeps
  <1>7. \A s \in A!Rows : song'[s].at = IF s \in took[a] THEN None ELSE song[s].at
    BY <1>5, <1>6, RestoreAlbumKeeps
  <1>8. \A s \in took[a] : s \in A!Rows /\ song[s].at = album[a]
    BY <1>2 DEF AlbumInv, AlbumType, TookStands
  <1> QED
    BY <1>1, <1>2, <1>7, <1>8 DEF A!InTrash

-----------------------------------------------------------------------------
(***************************************************************************)
(* LibrarySearch.                                                          *)
(***************************************************************************)

\* In a finite set with a strict total order, the places are 1 to the number of members:
\* each has one, of its own, and each place is taken.
LEMMA PlacesFill ==
    ASSUME NEW S, IsFiniteSet(S), NEW R,
           \A x \in S : <<x, x>> \notin R,
           \A x, y, z \in S : <<x, y>> \in R /\ <<y, z>> \in R => <<x, z>> \in R,
           \A x, y \in S : x = y \/ <<x, y>> \in R \/ <<y, x>> \in R,
           NEW place, place = [x \in S |-> Cardinality({y \in S : <<y, x>> \in R}) + 1]
    PROVE  /\ \A x \in S : place[x] \in 1..Cardinality(S)
           /\ \A x, y \in S : <<x, y>> \in R <=> place[x] < place[y]
           /\ \A n \in 1..Cardinality(S) : \E x \in S : place[x] = n
  <1> DEFINE Below(x) == {y \in S : <<y, x>> \in R}
  <1>1. Cardinality(S) \in Nat
    BY FS_CardinalityType
  <1>2. \A x \in S : IsFiniteSet(Below(x)) /\ Cardinality(Below(x)) \in Nat
    BY FS_Subset, FS_CardinalityType
  <1>3. ASSUME NEW x \in S PROVE place[x] \in 1..Cardinality(S)
    <2>1. Below(x) \in SUBSET S /\ Below(x) # S
      OBVIOUS
    <2>2. Cardinality(Below(x)) <= Cardinality(S) /\ Cardinality(Below(x)) # Cardinality(S)
      BY <2>1, FS_Subset
    <2>3. place[x] = Cardinality(Below(x)) + 1
      OBVIOUS
    <2> HIDE DEF Below
    <2> QED
      BY <1>1, <1>2, <2>2, <2>3
  <1>4. ASSUME NEW x \in S, NEW y \in S, <<x, y>> \in R PROVE place[x] < place[y]
    <2>1. Below(x) \in SUBSET Below(y) /\ Below(x) # Below(y)
      <3>1. x \in Below(y) /\ x \notin Below(x)
        BY <1>4
      <3>2. ASSUME NEW z \in Below(x) PROVE z \in Below(y)
        BY <1>4
      <3> QED
        BY <3>1, <3>2
    <2>2. Cardinality(Below(x)) <= Cardinality(Below(y)) /\ Cardinality(Below(x)) # Cardinality(Below(y))
      BY <1>2, <2>1, FS_Subset
    <2>3. place[x] = Cardinality(Below(x)) + 1 /\ place[y] = Cardinality(Below(y)) + 1
      OBVIOUS
    <2> HIDE DEF Below
    <2> QED
      BY <1>2, <2>2, <2>3
  <1>5. \A x, y \in S : <<x, y>> \in R <=> place[x] < place[y]
    <2>1. SUFFICES ASSUME NEW x \in S, NEW y \in S PROVE <<x, y>> \in R <=> place[x] < place[y]
      OBVIOUS
    <2>2. x = y \/ <<x, y>> \in R \/ <<y, x>> \in R
      OBVIOUS
    <2>3. place[x] \in Int /\ place[y] \in Int
      BY <1>1, <1>3
    <2>4. CASE x = y
      BY <2>3, <2>4
    <2>5. CASE <<x, y>> \in R
      BY <1>4, <2>5
    <2>6. CASE <<y, x>> \in R
      <3>1. place[y] < place[x]
        BY <1>4, <2>6
      <3>2. <<x, y>> \notin R
        BY <2>6
      <3> QED
        BY <2>3, <3>1, <3>2
    <2> QED
      BY <2>2, <2>4, <2>5, <2>6
  <1>6. place \in Injection(S, 1..Cardinality(S))
    <2>1. place \in [S -> 1..Cardinality(S)]
      BY <1>3
    <2>2. \A x, y \in S : place[x] = place[y] => x = y
      <3>1. SUFFICES ASSUME NEW x \in S, NEW y \in S, place[x] = place[y], x # y PROVE FALSE
        OBVIOUS
      <3>2. <<x, y>> \in R \/ <<y, x>> \in R
        BY <3>1
      <3>3. place[x] < place[y] \/ place[y] < place[x]
        BY <1>5, <3>2, Zenon
      <3>4. place[x] \in Int /\ place[y] \in Int
        BY <1>1, <1>3
      <3> QED
        BY <3>1, <3>3, <3>4
    <2> QED
      BY <2>1, <2>2 DEF Injection, IsInjective
  <1>7. IsFiniteSet(1..Cardinality(S)) /\ Cardinality(1..Cardinality(S)) = Cardinality(S)
    BY <1>1, FS_Interval
  <1>8. place \in Surjection(S, 1..Cardinality(S))
    BY <1>6, <1>7, FS_Injection
  <1> QED
    BY <1>3, <1>5, <1>8 DEF Surjection

\* The instance counts as FiniteSets does.
LEMMA SearchSets ==
    ASSUME NEW S PROVE (L!IsFiniteSet(S) <=> IsFiniteSet(S)) /\ L!Cardinality(S) = Cardinality(S)
  <1>1. L!IsFiniteSet(S) <=> IsFiniteSet(S)
    BY DEF L!IsFiniteSet, IsFiniteSet
  <1>2. L!Cardinality(S) = Cardinality(S)
    BY DEF L!Cardinality, Cardinality, L!IsFiniteSet, IsFiniteSet
  <1> QED
    BY <1>1, <1>2

\* The search: what matches, what was shown, the cursor.
SearchType ==
    /\ sort \in L!Sorts
    /\ key \in [Items -> Keys \cup {None}]
    /\ cursor # None => cursor \in L!Cursors
    /\ shown \in Seq(Items) /\ more \in BOOLEAN
    /\ steady \in SUBSET L!Present

\* Of the hits that stayed as they are, those up to the cursor were shown, in order,
\* and no other.
ShownUpToCursor ==
    /\ more /\ cursor = None => shown = <<>>
    /\ cursor # None => \A i \in steady : (\E n \in 1..Len(shown) : shown[n] = i) <=> ~L!After(i, cursor)
    /\ ~more => \A i \in steady : \E n \in 1..Len(shown) : shown[n] = i
    /\ \A m, n \in 1..Len(shown) :
         (m < n /\ shown[m] \in steady /\ shown[n] \in steady) => L!HitBefore(shown[m], shown[n])

SearchInv == SearchType /\ ShownUpToCursor

\* What is compared.
LEMMA HitFields ==
    ASSUME SearchType, NEW i \in L!Present
    PROVE  /\ i \in Items /\ key[i] \in Int /\ key[i] \in Keys /\ i.id \in Int
           /\ i.type \in {"album", "song"} /\ L!TypeRank(i) \in {0, 1}
           /\ \A j \in L!Present : (i.type = j.type /\ i.id = j.id) => i = j
           /\ \A j \in L!Present : L!TypeRank(i) = L!TypeRank(j) <=> i.type = j.type
  <1>1. Items \subseteq [type : {"album", "song"}, id : Int] /\ Keys \subseteq Int
    BY PartConstants DEF L!SearchConstants
  <1>2. i \in Items /\ key[i] \in Keys
    BY DEF SearchType, L!Present
  <1>3. \A j \in L!Present : j \in [type : {"album", "song"}, id : Int]
    BY <1>1 DEF L!Present
  <1>4. \A j \in L!Present : (i.type = j.type /\ i.id = j.id) => i = j
    BY <1>3
  <1>5. \A j \in L!Present : L!TypeRank(j) = IF j.type = "album" THEN 0 ELSE 1
    BY DEF L!TypeRank
  <1>6. \A j \in L!Present : j.type \in {"album", "song"} /\ j.id \in Int
    BY <1>3
  <1>7. \A j \in L!Present : L!TypeRank(j) \in {0, 1} /\ (L!TypeRank(i) = L!TypeRank(j) <=> i.type = j.type)
    BY <1>5, <1>6
  <1>8. key[i] \in Int
    BY <1>1, <1>2
  <1> QED
    BY <1>2, <1>4, <1>6, <1>7, <1>8, Zenon

\* The order of the merge is strict and total, and within a type that of the queries.
LEMMA MergeOrder ==
    ASSUME SearchType
    PROVE  /\ \A i \in L!Present : ~L!HitBefore(i, i)
           /\ \A i, j, k \in L!Present : L!HitBefore(i, j) /\ L!HitBefore(j, k) => L!HitBefore(i, k)
           /\ \A i, j \in L!Present : i = j \/ L!HitBefore(i, j) \/ L!HitBefore(j, i)
           /\ \A i, j \in L!Present : i.type = j.type => (L!HitBefore(i, j) <=> L!SortedBefore(i, j))
  <1>1. ASSUME NEW i \in L!Present PROVE ~L!HitBefore(i, i)
    BY HitFields DEF L!HitBefore, L!SortedBefore
  <1>2. ASSUME NEW i \in L!Present, NEW j \in L!Present, NEW k \in L!Present,
               L!HitBefore(i, j), L!HitBefore(j, k)
        PROVE  L!HitBefore(i, k)
    <2>1. /\ key[i] \in Int /\ key[j] \in Int /\ key[k] \in Int
          /\ i.id \in Int /\ j.id \in Int /\ k.id \in Int
          /\ L!TypeRank(i) \in Int /\ L!TypeRank(j) \in Int /\ L!TypeRank(k) \in Int
      BY HitFields
    <2> QED
      BY <1>2, <2>1 DEF L!HitBefore, L!SortedBefore
  <1>3. ASSUME NEW i \in L!Present, NEW j \in L!Present, i # j PROVE L!HitBefore(i, j) \/ L!HitBefore(j, i)
    <2>1. /\ key[i] \in Int /\ key[j] \in Int /\ i.id \in Int /\ j.id \in Int
          /\ L!TypeRank(i) \in Int /\ L!TypeRank(j) \in Int
      BY HitFields
    <2>2. L!TypeRank(i) = L!TypeRank(j) => i.id # j.id
      BY <1>3, HitFields
    <2> QED
      BY <2>1, <2>2 DEF L!HitBefore, L!SortedBefore
  <1>4. ASSUME NEW i \in L!Present, NEW j \in L!Present, i.type = j.type
        PROVE  L!HitBefore(i, j) <=> L!SortedBefore(i, j)
    <2>1. /\ key[i] \in Int /\ key[j] \in Int /\ L!TypeRank(i) = L!TypeRank(j)
      BY <1>4, HitFields
    <2> QED
      BY <2>1 DEF L!HitBefore, L!SortedBefore
  <1> QED
    BY <1>1, <1>2, <1>3, <1>4

\* What lies behind a cursor goes on from there: it ends no place in the order.
LEMMA CursorCuts ==
    ASSUME SearchType, NEW i \in L!Present, NEW j \in L!Present, L!HitBefore(i, j), L!After(i, cursor)
    PROVE  L!After(j, cursor)
  <1>1. CASE cursor = None
    BY <1>1 DEF L!After
  <1>2. CASE cursor # None
    <2>1. /\ key[i] \in Int /\ key[j] \in Int /\ i.id \in Int /\ j.id \in Int
          /\ L!TypeRank(i) \in Int /\ L!TypeRank(j) \in Int
      BY HitFields
    <2>2. cursor.value \in Int /\ cursor.rank \in Int /\ cursor.id \in Int
      <3>1. cursor \in L!Cursors /\ Keys \subseteq Int
        BY <1>2, PartConstants DEF SearchType, L!SearchConstants
      <3>2. cursor.value \in Keys /\ cursor.rank \in {0, 1} /\ cursor.id \in Int
        BY <3>1, Zenon DEF L!Cursors
      <3>3. \A n \in {0, 1} : n \in Int
        OBVIOUS
      <3> QED
        BY <3>1, <3>2, <3>3, Zenon
    <2> QED
      BY <1>2, <2>1, <2>2 DEF L!After, L!HitBefore, L!SortedBefore, L!DescendingKeyset, L!AscendingKeyset
  <1> QED
    BY <1>1, <1>2

\* A cursor made of a hit cuts right behind it.
LEMMA CursorOfHit ==
    ASSUME SearchType, NEW l \in L!Present, NEW i \in L!Present
    PROVE  /\ L!After(i, L!CursorFromHit(l)) <=> L!HitBefore(l, i)
           /\ L!CursorFromHit(l) \in L!Cursors
           /\ L!CursorFromHit(l) # None
  <1>1. /\ key[i] \in Int /\ key[l] \in Int /\ i.id \in Int /\ l.id \in Int
        /\ L!TypeRank(i) \in {0, 1} /\ L!TypeRank(l) \in {0, 1}
        /\ key[l] \in Keys
    BY HitFields
  <1>2. L!CursorFromHit(l) # None
    <2>1. L!CursorFromHit(l) \in L!Cursors
      BY <1>1 DEF L!CursorFromHit, L!Cursors, SearchType
    <2> QED
      BY <2>1, PartConstants DEF L!SearchConstants
  <1>3. L!CursorFromHit(l) \in L!Cursors
    BY <1>1 DEF L!CursorFromHit, L!Cursors, SearchType
  <1>4. /\ L!CursorFromHit(l).value = key[l] /\ L!CursorFromHit(l).rank = L!TypeRank(l)
        /\ L!CursorFromHit(l).id = l.id
    BY DEF L!CursorFromHit
  <1>5. L!After(i, L!CursorFromHit(l)) <=> L!HitBefore(l, i)
    <2> DEFINE c == L!CursorFromHit(l)
    <2>1. L!After(i, c) <=> IF sort = "newest" THEN L!DescendingKeyset(i, c) ELSE L!AscendingKeyset(i, c)
      BY <1>2 DEF L!After
    <2> HIDE DEF c
    <2>2. c.value = key[l] /\ c.rank = L!TypeRank(l) /\ c.id = l.id
      BY <1>4 DEF c
    <2> QED
      BY <1>1, <2>1, <2>2 DEF c, L!HitBefore, L!SortedBefore, L!DescendingKeyset, L!AscendingKeyset
  <1> QED
    BY <1>2, <1>3, <1>5

\* Places of a set of hits.
HitOrder(S) == {e \in S \X S : L!HitBefore(e[1], e[2])}
PlaceIn(S) == [x \in S |-> Cardinality({y \in S : <<y, x>> \in HitOrder(S)}) + 1]

\* Any hits have places in the order of the merge.
LEMMA HitPlaces ==
    ASSUME SearchType, NEW S \in SUBSET L!Present
    PROVE  /\ IsFiniteSet(S) /\ Cardinality(S) \in Nat
           /\ \A x \in S : PlaceIn(S)[x] \in 1..Cardinality(S)
           /\ \A x, y \in S : L!HitBefore(x, y) <=> PlaceIn(S)[x] < PlaceIn(S)[y]
           /\ \A n \in 1..Cardinality(S) : \E x \in S : PlaceIn(S)[x] = n
           /\ \A x \in S : PlaceIn(S)[x] = L!Cardinality({y \in S : L!HitBefore(y, x)}) + 1
  <1>1. IsFiniteSet(S) /\ Cardinality(S) \in Nat
    <2>1. IsFiniteSet(Items)
      BY PartConstants, SearchSets DEF L!SearchConstants
    <2>2. S \in SUBSET Items
      BY DEF L!Present
    <2> QED
      BY <2>1, <2>2, FS_Subset, FS_CardinalityType
  <1>2. \A x, y \in S : <<x, y>> \in HitOrder(S) <=> L!HitBefore(x, y)
    BY DEF HitOrder
  <1>3. /\ \A x \in S : <<x, x>> \notin HitOrder(S)
        /\ \A x, y \in S : x = y \/ <<x, y>> \in HitOrder(S) \/ <<y, x>> \in HitOrder(S)
    BY <1>2, MergeOrder
  <1>4. \A x, y, z \in S : <<x, y>> \in HitOrder(S) /\ <<y, z>> \in HitOrder(S) => <<x, z>> \in HitOrder(S)
    BY <1>2, MergeOrder
  <1>5. /\ \A x \in S : PlaceIn(S)[x] \in 1..Cardinality(S)
        /\ \A x, y \in S : <<x, y>> \in HitOrder(S) <=> PlaceIn(S)[x] < PlaceIn(S)[y]
        /\ \A n \in 1..Cardinality(S) : \E x \in S : PlaceIn(S)[x] = n
    <2>1. PlaceIn(S) = [x \in S |-> Cardinality({y \in S : <<y, x>> \in HitOrder(S)}) + 1]
      BY DEF PlaceIn
    <2> QED
      BY <1>1, <1>3, <1>4, <2>1, PlacesFill
  <1>6. ASSUME NEW x \in S PROVE PlaceIn(S)[x] = L!Cardinality({y \in S : L!HitBefore(y, x)}) + 1
    <2>1. {y \in S : <<y, x>> \in HitOrder(S)} = {y \in S : L!HitBefore(y, x)}
      BY <1>2
    <2> QED
      BY <2>1, SearchSets DEF PlaceIn
  <1> QED
    BY <1>1, <1>2, <1>5, <1>6

\* As many members as places up to n are there, if there are as many members.
LEMMA FirstPlaces ==
    ASSUME SearchType, NEW S \in SUBSET L!Present, NEW n \in Nat
    PROVE  LET B == {x \in S : PlaceIn(S)[x] <= n} IN
           /\ IsFiniteSet(B) /\ Cardinality(B) \in Nat /\ Cardinality(B) <= n
           /\ n <= Cardinality(S) => Cardinality(B) = n
  <1> DEFINE B == {x \in S : PlaceIn(S)[x] <= n}
             f == [x \in B |-> PlaceIn(S)[x]]
  <1>1. IsFiniteSet(B) /\ Cardinality(B) \in Nat
    BY HitPlaces, FS_Subset, FS_CardinalityType
  <1>2. IsFiniteSet(1..n) /\ Cardinality(1..n) = n
    BY FS_Interval
  <1>3. f \in Injection(B, 1..n)
    <2>1. f \in [B -> 1..n]
      BY HitPlaces
    <2>2. ASSUME NEW x \in B, NEW y \in B, f[x] = f[y] PROVE x = y
      <3>1. x \in S /\ y \in S /\ PlaceIn(S)[x] = PlaceIn(S)[y] /\ PlaceIn(S)[x] \in Int
        BY <2>2, HitPlaces
      <3>2. ~L!HitBefore(x, y) /\ ~L!HitBefore(y, x)
        BY <3>1, HitPlaces
      <3> QED
        BY <3>1, <3>2, MergeOrder
    <2> QED
      BY <2>1, <2>2 DEF Injection, IsInjective
  <1>4. Cardinality(B) <= n
    BY <1>2, <1>3, FS_Injection
  <1>5. ASSUME n <= Cardinality(S) PROVE f \in Surjection(B, 1..n)
    <2>1. ASSUME NEW k \in 1..n PROVE \E x \in B : f[x] = k
      <3>1. k \in 1..Cardinality(S)
        BY <1>5, HitPlaces
      <3>2. PICK x \in S : PlaceIn(S)[x] = k
        BY <3>1, HitPlaces
      <3> QED
        BY <3>2
    <2> QED
      BY <1>3, <2>1 DEF Surjection, Injection
  <1>6. n <= Cardinality(S) => Cardinality(B) = n
    BY <1>1, <1>2, <1>3, <1>5, FS_Injection
  <1> QED
    BY <1>1, <1>4, <1>6

\* A query that leaves a row out has given as many as it was asked for, all before it.
LEMMA QueryLeavesOut ==
    ASSUME SearchType, NEW type, NEW n \in Nat,
           NEW S \in SUBSET {i \in L!Present : i.type = type}, NEW i \in S \ L!FirstOf(S, n)
    PROVE  /\ IsFiniteSet(L!FirstOf(S, n)) /\ Cardinality(L!FirstOf(S, n)) = n
           /\ \A j \in L!FirstOf(S, n) : L!HitBefore(j, i)
  <1>1. S \in SUBSET L!Present /\ \A x, y \in S : L!SortedBefore(x, y) <=> L!HitBefore(x, y)
    <2>1. \A x, y \in S : x \in L!Present /\ y \in L!Present /\ x.type = y.type
      OBVIOUS
    <2> QED
      BY <2>1, MergeOrder
  <1>2. \A x \in S : {y \in S : L!SortedBefore(y, x)} = {y \in S : L!HitBefore(y, x)}
    BY <1>1
  <1>3. \A x \in S : L!Cardinality({y \in S : L!SortedBefore(y, x)}) = PlaceIn(S)[x] - 1
    <2>1. \A x \in S : PlaceIn(S)[x] = L!Cardinality({y \in S : L!SortedBefore(y, x)}) + 1
      BY <1>1, <1>2, HitPlaces
    <2>2. ASSUME NEW x \in S PROVE L!Cardinality({y \in S : L!SortedBefore(y, x)}) \in Int
      <3>1. {y \in S : L!SortedBefore(y, x)} \in SUBSET S
        OBVIOUS
      <3> QED
        BY <1>1, <3>1, HitPlaces, SearchSets, FS_Subset, FS_CardinalityType
    <2> QED
      BY <2>1, <2>2
  <1>4. \A x \in S : PlaceIn(S)[x] \in 1..Cardinality(S) /\ Cardinality(S) \in Nat
    BY <1>1, HitPlaces
  <1>5. L!FirstOf(S, n) = {x \in S : PlaceIn(S)[x] <= n}
    <2>1. \A x \in S : L!Cardinality({y \in S : L!SortedBefore(y, x)}) < n <=> PlaceIn(S)[x] <= n
      BY <1>3, <1>4
    <2> QED
      BY <2>1 DEF L!FirstOf
  <1>6. PlaceIn(S)[i] > n /\ n <= Cardinality(S)
    BY <1>4, <1>5
  <1>7. \A j \in L!FirstOf(S, n) : L!HitBefore(j, i)
    <2>1. \A j \in L!FirstOf(S, n) : j \in S /\ PlaceIn(S)[j] < PlaceIn(S)[i]
      BY <1>4, <1>5, <1>6
    <2> QED
      BY <1>1, <2>1, HitPlaces
  <1> QED
    BY <1>1, <1>5, <1>6, <1>7, FirstPlaces

\* A hit behind the cursor is merged, or the merge has more than a page before it.
LEMMA MergeLeavesOut ==
    ASSUME SearchType, NEW i \in L!Present, L!After(i, cursor), i \notin L!MergeHits
    PROVE  \E B \in SUBSET L!MergeHits :
             /\ IsFiniteSet(B) /\ Cardinality(B) = Limit + 1
             /\ \A j \in B : L!HitBefore(j, i)
  <1> DEFINE S(ty) == {x \in L!Present : x.type = ty /\ L!After(x, cursor)}
  <1>1. Limit + 1 \in Nat
    BY PartConstants DEF L!SearchConstants
  <1>2. i.type \in {"album", "song"}
    BY HitFields
  <1>3. i \in S(i.type) \ L!FirstOf(S(i.type), Limit + 1)
    <2>1. CASE i.type = "album"
      BY <2>1 DEF L!MergeHits, L!MatchingAlbums
    <2>2. CASE i.type = "song"
      BY <2>2 DEF L!MergeHits, L!MatchingSongs
    <2> QED
      BY <1>2, <2>1, <2>2
  <1>4. S(i.type) \in SUBSET {x \in L!Present : x.type = i.type}
    OBVIOUS
  <1>5. L!FirstOf(S(i.type), Limit + 1) \in SUBSET L!MergeHits
    BY <1>2 DEF L!MergeHits, L!MatchingAlbums, L!MatchingSongs
  <1> HIDE DEF S
  <1>6. /\ IsFiniteSet(L!FirstOf(S(i.type), Limit + 1))
        /\ Cardinality(L!FirstOf(S(i.type), Limit + 1)) = Limit + 1
        /\ \A j \in L!FirstOf(S(i.type), Limit + 1) : L!HitBefore(j, i)
    BY <1>1, <1>3, <1>4, QueryLeavesOut
  <1> QED
    BY <1>5, <1>6

\* A page is in order, lies behind the cursor, and its hits are the first of the merge.
LEMMA PageInOrder ==
    ASSUME SearchType
    PROVE  /\ L!MergeHits \in SUBSET L!Present /\ \A i \in L!MergeHits : L!After(i, cursor)
           /\ Cardinality(L!MergeHits) \in Nat /\ L!Cardinality(L!MergeHits) = Cardinality(L!MergeHits)
           /\ L!PageSize \in 0..Cardinality(L!MergeHits)
           /\ L!PageSize = IF Cardinality(L!MergeHits) > Limit THEN Limit ELSE Cardinality(L!MergeHits)
           /\ L!Page \in Seq(L!MergeHits) /\ Len(L!Page) = L!PageSize
           /\ \A n \in 1..L!PageSize : L!Page[n] \in L!MergeHits /\ PlaceIn(L!MergeHits)[L!Page[n]] = n
           /\ \A i \in L!MergeHits : PlaceIn(L!MergeHits)[i] <= L!PageSize => \E n \in 1..L!PageSize : L!Page[n] = i
  <1> DEFINE M == L!MergeHits
  <1>1. M \in SUBSET L!Present /\ \A i \in M : L!After(i, cursor)
    BY DEF L!MergeHits, L!MatchingAlbums, L!MatchingSongs, L!FirstOf
  <1>2. /\ IsFiniteSet(M) /\ Cardinality(M) \in Nat /\ L!Cardinality(M) = Cardinality(M)
        /\ \A x \in M : PlaceIn(M)[x] \in 1..Cardinality(M)
        /\ \A n \in 1..Cardinality(M) : \E x \in M : PlaceIn(M)[x] = n
        /\ \A x \in M : L!Place(x) = PlaceIn(M)[x]
    BY <1>1, HitPlaces, SearchSets DEF L!Place
  <1>3. \A x, y \in M : PlaceIn(M)[x] = PlaceIn(M)[y] => x = y
    <2>1. SUFFICES ASSUME NEW x \in M, NEW y \in M, PlaceIn(M)[x] = PlaceIn(M)[y] PROVE x = y
      OBVIOUS
    <2>2. ~L!HitBefore(x, y) /\ ~L!HitBefore(y, x)
      <3>1. PlaceIn(M)[x] \in Int
        BY <1>2
      <3>2. (L!HitBefore(x, y) <=> PlaceIn(M)[x] < PlaceIn(M)[y]) /\ (L!HitBefore(y, x) <=> PlaceIn(M)[y] < PlaceIn(M)[x])
        BY <1>1, HitPlaces
      <3> QED
        BY <2>1, <3>1, <3>2
    <2> QED
      BY <1>1, <2>2, MergeOrder
  <1>4. /\ L!PageSize = IF Cardinality(M) > Limit THEN Limit ELSE Cardinality(M)
        /\ L!PageSize \in 0..Cardinality(M)
    BY <1>2, PartConstants DEF L!PageSize, L!SearchConstants
  <1> HIDE DEF M
  <1>5. \A n \in 1..L!PageSize : L!Page[n] = CHOOSE i \in M : L!Place(i) = n
    BY DEF L!Page, M
  <1>6. \A n \in 1..L!PageSize : L!Page[n] \in M /\ PlaceIn(M)[L!Page[n]] = n
    <2>1. SUFFICES ASSUME NEW n \in 1..L!PageSize PROVE L!Page[n] \in M /\ PlaceIn(M)[L!Page[n]] = n
      OBVIOUS
    <2>2. n \in 1..Cardinality(M)
      BY <1>2, <1>4
    <2>3. \E x \in M : L!Place(x) = n
      BY <1>2, <2>2
    <2>4. L!Page[n] \in M /\ L!Place(L!Page[n]) = n
      BY <1>5, <2>3
    <2> QED
      BY <1>2, <2>4
  <1>7. \A i \in M : PlaceIn(M)[i] <= L!PageSize => \E n \in 1..L!PageSize : L!Page[n] = i
    <2>1. SUFFICES ASSUME NEW i \in M, PlaceIn(M)[i] <= L!PageSize PROVE \E n \in 1..L!PageSize : L!Page[n] = i
      OBVIOUS
    <2>2. PlaceIn(M)[i] \in 1..L!PageSize
      BY <1>2, <1>4, <2>1
    <2>3. L!Page[PlaceIn(M)[i]] = i
      BY <1>3, <1>6, <2>2
    <2> QED
      BY <2>2, <2>3
  <1>8. L!Page \in Seq(M) /\ Len(L!Page) = L!PageSize
    <2>1. L!Page \in [1..L!PageSize -> M]
      BY <1>6 DEF L!Page, M
    <2>2. L!PageSize \in Nat
      BY <1>2, <1>4
    <2> QED
      BY <2>1, <2>2
  <1> QED
    BY <1>1, <1>2, <1>4, <1>6, <1>7, <1>8 DEF M

\* The page leaves out no hit behind the cursor up to its last one; the last page none.
LEMMA PageIsComplete ==
    ASSUME SearchType, NEW i \in L!Present, L!After(i, cursor)
    PROVE  \/ \E n \in 1..L!PageSize : L!Page[n] = i
           \/ /\ Cardinality(L!MergeHits) > Limit /\ L!PageSize \in Nat \ {0}
              /\ L!HitBefore(L!Page[L!PageSize], i)
  <1> DEFINE M == L!MergeHits
             l == L!Page[L!PageSize]
             U == {x \in M : PlaceIn(M)[x] <= Limit}
  <1>1. Limit \in Nat /\ Limit > 0
    BY PartConstants DEF L!SearchConstants
  <1>2. /\ M \in SUBSET L!Present /\ IsFiniteSet(M) /\ Cardinality(M) \in Nat
        /\ \A x \in M : PlaceIn(M)[x] \in 1..Cardinality(M)
        /\ \A x, y \in M : L!HitBefore(x, y) <=> PlaceIn(M)[x] < PlaceIn(M)[y]
    BY PageInOrder, HitPlaces
  <1>3. SUFFICES ASSUME ~ \E n \in 1..L!PageSize : L!Page[n] = i
                 PROVE  /\ Cardinality(M) > Limit /\ L!PageSize \in Nat \ {0}
                        /\ L!HitBefore(l, i)
    OBVIOUS
  <1>4. i \in M => PlaceIn(M)[i] > L!PageSize
    <2>1. i \in M => ~(PlaceIn(M)[i] <= L!PageSize)
      BY <1>3, PageInOrder
    <2> QED
      BY <1>2, <2>1, PageInOrder
  <1>5. Cardinality(M) > Limit
    <2>1. CASE i \in M
      BY <1>1, <1>2, <1>4, <2>1, PageInOrder
    <2>2. CASE i \notin M
      <3>1. PICK B \in SUBSET M : IsFiniteSet(B) /\ Cardinality(B) = Limit + 1
        BY <2>2, MergeLeavesOut
      <3> QED
        BY <1>1, <1>2, <3>1, FS_Subset
    <2> QED
      BY <2>1, <2>2
  <1>6. L!PageSize = Limit /\ l \in M /\ PlaceIn(M)[l] = Limit
    BY <1>1, <1>5, PageInOrder
  <1>7. L!HitBefore(l, i)
    <2>1. CASE i \in M
      BY <1>2, <1>4, <1>6, <2>1
    <2>2. CASE i \notin M
      <3>1. PICK B \in SUBSET M : /\ IsFiniteSet(B) /\ Cardinality(B) = Limit + 1
                                  /\ \A j \in B : L!HitBefore(j, i)
        BY <2>2, MergeLeavesOut
      <3>2. SUFFICES ASSUME ~L!HitBefore(l, i) PROVE FALSE
        OBVIOUS
      <3>3. L!HitBefore(i, l)
        BY <1>2, <1>6, <2>2, <3>2, MergeOrder
      <3>4. ASSUME NEW j \in B PROVE j \in U
        <4>1. j \in M /\ L!HitBefore(j, l)
          BY <1>2, <1>6, <3>1, <3>3, MergeOrder
        <4>2. PlaceIn(M)[j] < Limit /\ PlaceIn(M)[j] \in Int
          BY <1>2, <1>6, <4>1
        <4> QED
          BY <1>1, <4>1, <4>2
      <3>5. IsFiniteSet(U) /\ Cardinality(U) \in Nat /\ Cardinality(U) <= Limit
        BY <1>1, <1>2, FirstPlaces
      <3>6. Cardinality(B) <= Cardinality(U)
        BY <3>4, <3>5, FS_Subset
      <3> QED
        BY <1>1, <3>1, <3>5, <3>6
    <2> QED
      BY <2>1, <2>2
  <1> QED
    BY <1>1, <1>5, <1>6, <1>7

\* The order depends on the sort and the keys only.
LEMMA OrderStays ==
    ASSUME sort' = sort, NEW i, NEW j, key'[i] = key[i], key'[j] = key[j]
    PROVE  L!HitBefore(i, j)' <=> L!HitBefore(i, j)
  BY DEF L!HitBefore, L!SortedBefore, L!TypeRank

LEMMA CursorStays ==
    ASSUME sort' = sort, NEW i, key'[i] = key[i]
    PROVE  L!After(i, cursor)' <=> L!After(i, cursor')
  BY DEF L!After, L!AscendingKeyset, L!DescendingKeyset, L!TypeRank

\* Nothing was shown at first.
LEMMA SearchInit == L!Init => SearchInv
  <1> SUFFICES ASSUME L!Init PROVE SearchInv
    OBVIOUS
  <1>1. shown = <<>> /\ Len(shown) = 0 /\ shown \in Seq(Items)
    BY DEF L!Init
  <1> QED
    BY <1>1 DEF L!Init, SearchInv, SearchType, ShownUpToCursor

\* The next page goes on behind the cursor and leaves nothing out.
LEMMA NextPageKeeps == SearchInv /\ L!NextPage => SearchInv'
  <1> SUFFICES ASSUME SearchInv, L!NextPage PROVE SearchInv'
    OBVIOUS
  <1> USE DEF SearchInv
  <1> DEFINE M == L!MergeHits
             k == L!PageSize
             p == L!Page
             l == L!Page[L!PageSize]
  <1>1. /\ more /\ shown' = shown \o p /\ more' = (Cardinality(M) > Limit)
        /\ cursor' = IF more' THEN L!CursorFromHit(l) ELSE None
        /\ sort' = sort /\ key' = key /\ steady' = steady
    BY PageInOrder DEF L!NextPage
  <1>2. /\ M \in SUBSET L!Present /\ \A i \in M : L!After(i, cursor)
        /\ k \in Nat /\ p \in Seq(M) /\ Len(p) = k
        /\ \A n \in 1..k : p[n] \in M /\ PlaceIn(M)[p[n]] = n
        /\ more' => k \in Nat \ {0}
    BY <1>1, PageInOrder, PartConstants DEF L!SearchConstants
  <1>3. more' => l \in L!Present
    BY <1>2
  <1>4. \A m, n \in 1..k : m < n => L!HitBefore(p[m], p[n])
    BY <1>2, HitPlaces
  <1>5. /\ shown \in Seq(Items) /\ p \in Seq(Items)
    <2>1. M \subseteq Items
      BY <1>2 DEF L!Present
    <2> QED
      BY <1>2, <2>1 DEF SearchType
  <1> HIDE DEF M, k, p, l
  <1>6. /\ shown' \in Seq(Items) /\ Len(shown') = Len(shown) + k /\ Len(shown) \in Nat
        /\ \A n \in 1..Len(shown) : shown'[n] = shown[n]
        /\ \A n \in 1..k : shown'[Len(shown) + n] = p[n]
        /\ \A n \in 1..Len(shown') : n \in 1..Len(shown) \/ (n - Len(shown) \in 1..k /\ shown'[n] = p[n - Len(shown)])
    <2>1. /\ shown' \in Seq(Items) /\ Len(shown') = Len(shown) + k /\ Len(shown) \in Nat
          /\ \A n \in 1..Len(shown) : shown'[n] = shown[n]
      BY <1>1, <1>2, <1>5
    <2>2. \A n \in 1..Len(shown') : n > Len(shown) => shown'[n] = p[n - Len(shown)]
      BY <1>1, <1>2, <1>5
    <2>3. \A n \in 1..k : Len(shown) + n \in 1..Len(shown') /\ Len(shown) + n > Len(shown) /\ Len(shown) + n - Len(shown) = n
      BY <1>2, <2>1
    <2>4. \A n \in 1..k : shown'[Len(shown) + n] = p[n]
      BY <2>2, <2>3
    <2>5. \A n \in 1..Len(shown') : n \in 1..Len(shown) \/ (n - Len(shown) \in 1..k /\ n > Len(shown))
      BY <1>2, <2>1
    <2> QED
      BY <2>1, <2>2, <2>4, <2>5
  <1>7. SearchType'
    <2>1. cursor' # None => cursor' \in L!Cursors
      BY <1>1, <1>3, CursorOfHit
    <2>2. L!Present' = L!Present /\ L!Cursors' = L!Cursors /\ L!Sorts' = L!Sorts
      BY <1>1 DEF L!Present, L!Cursors, L!Sorts
    <2>3. more' \in BOOLEAN
      BY <1>1
    <2> QED
      BY <1>1, <1>6, <2>1, <2>2, <2>3 DEF SearchType
  <1>8. \A i, j : L!HitBefore(i, j)' <=> L!HitBefore(i, j)
    BY <1>1, OrderStays
  <1>9. \A i : L!After(i, cursor)' <=> L!After(i, cursor')
    BY <1>1, CursorStays
  <1>10. \A i \in steady : i \in L!Present
    BY DEF SearchType
  <1>11. ASSUME NEW i \in steady, NEW n \in 1..Len(shown), shown[n] = i PROVE cursor # None /\ ~L!After(i, cursor)
    <2>1. cursor # None
      BY <1>1, <1>11 DEF ShownUpToCursor
    <2> QED
      BY <2>1, <1>11 DEF ShownUpToCursor
  <1>12. \A m, n \in 1..Len(shown') : (m < n /\ shown'[m] \in steady' /\ shown'[n] \in steady')
                                       => L!HitBefore(shown'[m], shown'[n])
    <2>1. SUFFICES ASSUME NEW m \in 1..Len(shown'), NEW n \in 1..Len(shown'), m < n,
                          shown'[m] \in steady, shown'[n] \in steady
                   PROVE  L!HitBefore(shown'[m], shown'[n])
      BY <1>1
    <2>2. CASE n \in 1..Len(shown)
      <3>1. m \in 1..Len(shown)
        BY <1>6, <2>1, <2>2
      <3> QED
        BY <1>6, <2>1, <2>2, <3>1 DEF ShownUpToCursor
    <2>3. CASE n \notin 1..Len(shown) /\ m \in 1..Len(shown)
      <3>1. shown'[n] \in M
        BY <1>2, <1>6, <2>3
      <3>2. shown'[m] = shown[m] /\ cursor # None /\ ~L!After(shown'[m], cursor)
        BY <1>6, <1>11, <2>1, <2>3
      <3>3. L!After(shown'[n], cursor) /\ shown'[m] # shown'[n] /\ ~L!HitBefore(shown'[n], shown'[m])
        BY <1>2, <1>10, <2>1, <3>1, <3>2, CursorCuts
      <3> QED
        BY <1>10, <2>1, <3>3, MergeOrder
    <2>4. CASE n \notin 1..Len(shown) /\ m \notin 1..Len(shown)
      <3>1. /\ n - Len(shown) \in 1..k /\ shown'[n] = p[n - Len(shown)]
            /\ m - Len(shown) \in 1..k /\ shown'[m] = p[m - Len(shown)]
        BY <1>6, <2>4
      <3>2. m - Len(shown) < n - Len(shown)
        BY <1>6, <2>1
      <3> QED
        BY <1>4, <3>1, <3>2
    <2> QED
      BY <2>2, <2>3, <2>4
  <1>13. ASSUME NEW i \in steady, ~L!After(i, cursor) PROVE \E n \in 1..Len(shown') : shown'[n] = i
    <2>1. cursor # None
      BY <1>13 DEF L!After
    <2>2. PICK n \in 1..Len(shown) : shown[n] = i
      BY <1>13, <2>1 DEF ShownUpToCursor
    <2> QED
      BY <1>2, <1>6, <2>2
  <1>14. ASSUME NEW i \in steady, NEW n \in 1..k, p[n] = i PROVE \E m \in 1..Len(shown') : shown'[m] = i
    <2>1. Len(shown) + n \in 1..Len(shown') /\ shown'[Len(shown) + n] = i
      BY <1>2, <1>6, <1>14
    <2> QED
      BY <2>1
  <1>15. ASSUME NEW i \in steady, ~more' PROVE \E n \in 1..Len(shown') : shown'[n] = i
    <2>1. CASE L!After(i, cursor)
      <3>1. \E n \in 1..k : p[n] = i
        BY <1>1, <1>10, <1>15, <2>1, PageIsComplete DEF k, p, M
      <3> QED
        BY <1>14, <3>1
    <2> QED
      BY <1>13, <2>1
  <1>16. ASSUME NEW i \in steady, more'
         PROVE  (\E n \in 1..Len(shown') : shown'[n] = i) <=> ~L!After(i, cursor')
    <2>1. L!After(i, cursor') <=> L!HitBefore(l, i)
      BY <1>1, <1>3, <1>10, <1>16, CursorOfHit
    <2>2. l = p[k] /\ k \in 1..k /\ l \in M
      BY <1>2, <1>16 DEF l, p, k
    <2>3. ASSUME NEW n \in 1..Len(shown), shown[n] = i PROVE ~L!HitBefore(l, i)
      <3>1. ~L!After(i, cursor) /\ L!After(l, cursor)
        BY <1>2, <1>11, <2>2, <2>3
      <3> QED
        BY <1>2, <1>10, <2>2, <3>1, CursorCuts
    <2>4. ASSUME NEW n \in 1..k, p[n] = i PROVE ~L!HitBefore(l, i)
      <3>1. CASE n = k
        BY <1>3, <1>10, <1>16, <2>2, <2>4, <3>1, MergeOrder
      <3>2. CASE n < k
        <4>1. L!HitBefore(i, l)
          BY <1>4, <2>2, <2>4, <3>2
        <4> QED
          BY <1>3, <1>10, <1>16, <4>1, MergeOrder
      <3>3. n = k \/ n < k
        BY <1>2
      <3> QED
        BY <3>1, <3>2, <3>3
    <2>5. ASSUME NEW n \in 1..Len(shown'), shown'[n] = i PROVE ~L!HitBefore(l, i)
      <3>1. CASE n \in 1..Len(shown)
        BY <1>6, <2>3, <2>5, <3>1
      <3>2. CASE n \notin 1..Len(shown)
        <4>1. n - Len(shown) \in 1..k /\ p[n - Len(shown)] = i
          BY <1>6, <2>5, <3>2
        <4> QED
          BY <2>4, <4>1
      <3> QED
        BY <3>1, <3>2
    <2>6. ASSUME ~L!HitBefore(l, i) PROVE \E n \in 1..Len(shown') : shown'[n] = i
      <3>1. CASE L!After(i, cursor)
        <4>1. \E n \in 1..k : p[n] = i
          BY <1>10, <2>6, <3>1, PageIsComplete DEF k, p, l
        <4> QED
          BY <1>14, <4>1
      <3> QED
        BY <1>13, <3>1
    <2> QED
      BY <2>1, <2>5, <2>6
  <1>17. ShownUpToCursor'
    <2>1. more' => cursor' # None
      BY <1>1, <1>3, CursorOfHit
    <2>2. cursor' # None => more'
      BY <1>1
    <2> QED
      BY <1>1, <1>8, <1>9, <1>12, <1>15, <1>16, <2>1, <2>2 DEF ShownUpToCursor
  <1> QED
    BY <1>7, <1>17

\* A row that changes leaves the others where they are.
LEMMA EditKeeps == ASSUME NEW e \in Items, NEW v \in Keys \cup {None} PROVE SearchInv /\ L!Edit(e, v) => SearchInv'
  <1> SUFFICES ASSUME SearchInv, L!Edit(e, v) PROVE SearchInv'
    OBVIOUS
  <1>1. /\ more /\ cursor # None /\ key' = [key EXCEPT ![e] = v] /\ steady' = steady \ {e}
        /\ sort' = sort /\ cursor' = cursor /\ shown' = shown /\ more' = more
    BY DEF L!Edit
  <1>2. \A i \in Items : i # e => key'[i] = key[i]
    BY <1>1 DEF SearchInv, SearchType
  <1>3. \A i \in steady' : i \in steady /\ i \in Items /\ key'[i] = key[i] /\ key[i] # None
    BY <1>1, <1>2 DEF SearchInv, SearchType, L!Present
  <1>4. SearchType'
    <2>1. key' \in [Items -> Keys \cup {None}]
      BY <1>1 DEF SearchInv, SearchType
    <2>2. steady' \in SUBSET L!Present'
      BY <1>3 DEF L!Present
    <2>3. L!Cursors' = L!Cursors /\ L!Sorts' = L!Sorts
      BY DEF L!Cursors, L!Sorts
    <2> QED
      BY <1>1, <2>1, <2>2, <2>3 DEF SearchInv, SearchType
  <1>5. \A i, j \in steady' : L!HitBefore(i, j)' <=> L!HitBefore(i, j)
    BY <1>1, <1>3, OrderStays
  <1>6. \A i \in steady' : L!After(i, cursor)' <=> L!After(i, cursor)
    BY <1>1, <1>3, CursorStays
  <1>7. ShownUpToCursor'
    <2>1. \A m, n \in 1..Len(shown') : (m < n /\ shown'[m] \in steady' /\ shown'[n] \in steady')
                                         => L!HitBefore(shown[m], shown[n])'
      <3>1. SUFFICES ASSUME NEW m \in 1..Len(shown'), NEW n \in 1..Len(shown'), m < n,
                            shown'[m] \in steady', shown'[n] \in steady'
                     PROVE  L!HitBefore(shown[m], shown[n])'
        OBVIOUS
      <3>2. /\ m \in 1..Len(shown) /\ n \in 1..Len(shown) /\ shown[m] \in steady /\ shown[n] \in steady
            /\ shown[m] \in steady' /\ shown[n] \in steady'
        BY <1>1, <1>3, <3>1
      <3>3. L!HitBefore(shown[m], shown[n])
        BY <3>1, <3>2 DEF SearchInv, ShownUpToCursor
      <3>4. /\ key'[shown[m]] = key[shown[m]] /\ key'[shown[n]] = key[shown[n]] /\ sort' = sort
            /\ shown'[m] = shown[m] /\ shown'[n] = shown[n]
        BY <1>1, <1>3, <3>2
      <3> QED
        BY <3>3, <3>4 DEF L!HitBefore, L!SortedBefore, L!TypeRank
    <2>2. \A i \in steady' : (\E n \in 1..Len(shown') : shown'[n] = i) <=> ~L!After(i, cursor)'
      BY <1>1, <1>3, <1>6 DEF SearchInv, ShownUpToCursor
    <2> QED
      BY <1>1, <2>1, <2>2 DEF ShownUpToCursor
  <1> QED
    BY <1>4, <1>7 DEF SearchInv

\* One step of the search.
LEMMA SearchStep == SearchInv /\ [L!Next]_(L!vars) => SearchInv'
  <1>1. ASSUME SearchInv, UNCHANGED L!vars PROVE SearchInv'
    <2>1. /\ sort' = sort /\ key' = key /\ cursor' = cursor /\ shown' = shown /\ more' = more /\ steady' = steady
      BY <1>1 DEF L!vars
    <2>2. SearchType'
      BY <1>1, <2>1 DEF SearchInv, SearchType, L!Cursors, L!Sorts, L!Present
    <2>3. \A i, j : L!HitBefore(i, j)' <=> L!HitBefore(i, j)
      BY <2>1, OrderStays
    <2>4. \A i : L!After(i, cursor)' <=> L!After(i, cursor)
      BY <2>1, CursorStays
    <2>5. ShownUpToCursor'
      BY <1>1, <2>1, <2>3, <2>4 DEF SearchInv, ShownUpToCursor
    <2> QED
      BY <2>2, <2>5 DEF SearchInv
  <1> QED
    BY <1>1, NextPageKeeps, EditKeeps DEF L!Next

\* What the invariant says of a search.
LEMMA SearchShows == SearchInv => L!SteadyHitsShownOnce
  <1> SUFFICES ASSUME SearchInv PROVE L!SteadyHitsShownOnce
    OBVIOUS
  <1>1. L!Range(shown) = {shown[n] : n \in 1..Len(shown)}
    BY DEF SearchInv, SearchType, L!Range
  <1> QED
    BY <1>1 DEF SearchInv, ShownUpToCursor, L!SteadyHitsShownOnce
-----------------------------------------------------------------------------
(***************************************************************************)
(* Conversation.                                                           *)
(***************************************************************************)

\* The instance counts as FiniteSets does.
LEMMA ChatSets ==
    ASSUME NEW S PROVE (H!IsFiniteSet(S) <=> IsFiniteSet(S)) /\ H!Cardinality(S) = Cardinality(S)
  <1>1. H!IsFiniteSet(S) <=> IsFiniteSet(S)
    BY DEF H!IsFiniteSet, IsFiniteSet
  <1>2. H!Cardinality(S) = Cardinality(S)
    BY DEF H!Cardinality, Cardinality, H!IsFiniteSet, IsFiniteSet
  <1> QED
    BY <1>1, <1>2

\* Equal length and elements make equal sequences.
LEMMA SeqSame ==
    ASSUME NEW S, NEW p \in Seq(S), NEW q \in Seq(S), Len(p) = Len(q), \A i \in 1..Len(p) : p[i] = q[i]
    PROVE  p = q
  OBVIOUS

\* The places of some numbers in their order.
PlaceAmong(K) == [x \in K |-> Cardinality({y \in K : y < x}) + 1]
\* They are the first, the second and so on.
LEMMA NumberPlaces ==
    ASSUME NEW K \in SUBSET Nat, IsFiniteSet(K), NEW place, place = PlaceAmong(K)
    PROVE  /\ \A i \in K : place[i] \in 1..Cardinality(K)
           /\ \A i, j \in K : i < j <=> place[i] < place[j]
           /\ \A n \in 1..Cardinality(K) : \E i \in K : place[i] = n
  <1> DEFINE R == {e \in K \X K : e[1] < e[2]}
  <1>1. \A x, y \in K : <<x, y>> \in R <=> x < y
    OBVIOUS
  <1>2. \A x \in K : {y \in K : <<y, x>> \in R} = {y \in K : y < x}
    BY <1>1
  <1> HIDE DEF R
  <1>3. place = [x \in K |-> Cardinality({y \in K : <<y, x>> \in R}) + 1]
    BY <1>2 DEF PlaceAmong
  <1>4. \A x \in K : <<x, x>> \notin R
    BY <1>1
  <1>5. \A x, y, z \in K : <<x, y>> \in R /\ <<y, z>> \in R => <<x, z>> \in R
    BY <1>1
  <1>6. \A x, y \in K : x = y \/ <<x, y>> \in R \/ <<y, x>> \in R
    <2>1. SUFFICES ASSUME NEW x \in K, NEW y \in K PROVE x = y \/ <<x, y>> \in R \/ <<y, x>> \in R
      OBVIOUS
    <2>2. x \in Int /\ y \in Int
      OBVIOUS
    <2>3. x = y \/ x < y \/ y < x
      BY <2>2
    <2> QED
      BY <1>1, <2>3
  <1>7. /\ \A x \in K : place[x] \in 1..Cardinality(K)
        /\ \A x, y \in K : <<x, y>> \in R <=> place[x] < place[y]
        /\ \A n \in 1..Cardinality(K) : \E x \in K : place[x] = n
    BY <1>3, <1>4, <1>5, <1>6, PlacesFill
  <1> QED
    BY <1>1, <1>7

\* One sequence is made of some places of another, in their order.
TakenFrom(s, q, K) ==
    \E h \in [1..Len(s) -> K] : /\ \A m \in 1..Len(s) : s[m] = q[h[m]]
                               /\ \A m, n \in 1..Len(s) : m < n => h[m] < h[n]

\* What is selected keeps its order.
LEMMA SelectedKeeps ==
    ASSUME NEW S, NEW q \in Seq(S), NEW K \in SUBSET (1..Len(q))
    PROVE  /\ H!Selected(q, K) \in Seq(S) /\ Len(H!Selected(q, K)) <= Len(q)
           /\ Len(H!Selected(q, K)) = Len(q) => H!Selected(q, K) = q
           /\ TakenFrom(H!Selected(q, K), q, K)
  <1> DEFINE place == PlaceAmong(K)
             N1 == Cardinality(K)
             h == [n \in 1..N1 |-> CHOOSE i \in K : H!Cardinality({j \in K : j < i}) + 1 = n]
             s == H!Selected(q, K)
  <1>0. PICK L1 \in Nat : L1 = Len(q)
    OBVIOUS
  <1>1. IsFiniteSet(K) /\ N1 \in Nat /\ N1 <= L1 /\ (N1 = L1 => K = 1..L1)
    <2>1. IsFiniteSet(1..L1) /\ Cardinality(1..L1) = L1
      BY FS_Interval
    <2>2. K \in SUBSET (1..L1)
      BY <1>0
    <2> QED
      BY <2>1, <2>2, FS_Subset, FS_CardinalityType
  <1>2. \A i, j \in K : i \in Int /\ q[i] \in S /\ j \in Int
    OBVIOUS
  <1>3. /\ \A i \in K : place[i] \in 1..N1
        /\ \A i, j \in K : i < j <=> place[i] < place[j]
        /\ \A n \in 1..N1 : \E i \in K : place[i] = n
    <2>1. IsFiniteSet(K) /\ K \in SUBSET Nat
      BY <1>1
    <2> QED
      BY <2>1, NumberPlaces
  <1>5. \A i \in K : H!Cardinality({j \in K : j < i}) + 1 = place[i]
    BY ChatSets DEF PlaceAmong
  <1>6. s = [n \in 1..N1 |-> q[h[n]]]
    BY ChatSets DEF H!Selected
  <1>7. \A n \in 1..N1 : h[n] \in K /\ place[h[n]] = n
    <2>1. SUFFICES ASSUME NEW n \in 1..N1 PROVE h[n] \in K /\ place[h[n]] = n
      OBVIOUS
    <2>2. \E i \in K : H!Cardinality({j \in K : j < i}) + 1 = n
      <3> HIDE DEF place
      <3> QED
        BY <1>3, <1>5
    <2>3. h[n] = CHOOSE i \in K : H!Cardinality({j \in K : j < i}) + 1 = n
      OBVIOUS
    <2>4. h[n] \in K /\ H!Cardinality({j \in K : j < h[n]}) + 1 = n
      <3> HIDE DEF h, place
      <3> QED
        BY <2>2, <2>3
    <2> HIDE DEF h, place
    <2> QED
      BY <1>5, <2>4
  <1> HIDE DEF place, h, s
  <1>8. h \in [1..N1 -> K]
    BY <1>7 DEF h
  <1>9. s \in Seq(S) /\ Len(s) = N1 /\ \A m \in 1..N1 : s[m] = q[h[m]]
    <2>1. \A m \in 1..N1 : q[h[m]] \in S
      BY <1>2, <1>7
    <2>2. s \in [1..N1 -> S]
      BY <1>6, <2>1
    <2>3. N1 \in Nat
      BY <1>1
    <2>4. s \in Seq(S) /\ Len(s) = N1
      <3> HIDE DEF N1
      <3> QED
        BY <2>2, <2>3
    <2> QED
      BY <1>6, <2>4
  <1>10. \A m, n \in 1..N1 : m < n => h[m] < h[n]
    <2>1. SUFFICES ASSUME NEW m \in 1..N1, NEW n \in 1..N1, m < n PROVE h[m] < h[n]
      OBVIOUS
    <2>2. h[m] \in K /\ h[n] \in K /\ place[h[m]] < place[h[n]]
      BY <1>7, <2>1
    <2> QED
      BY <1>3, <2>2
  <1>12. N1 = Len(q) => s = q
    <2>1. SUFFICES ASSUME N1 = Len(q) PROVE s = q
      OBVIOUS
    <2>2. ASSUME NEW m \in 1..N1 PROVE h[m] = m
      <3>0. K = 1..L1
        BY <1>0, <1>1, <2>1
      <3>1. h[m] \in 1..L1 /\ K = 1..L1
        BY <1>7, <3>0
      <3>2. {j \in K : j < h[m]} = 1..(h[m] - 1)
        BY <3>1
      <3>3. Cardinality(1..(h[m] - 1)) = h[m] - 1
        BY <3>1, FS_Interval
      <3>4. place[h[m]] = Cardinality({j \in K : j < h[m]}) + 1
        BY <3>1 DEF place, PlaceAmong
      <3>5. place[h[m]] = h[m] - 1 + 1
        BY <3>2, <3>3, <3>4
      <3> QED
        BY <1>7, <3>1, <3>5
    <2> QED
      BY <1>9, <2>1, <2>2, SeqSame
  <1> QED
    <2>1. TakenFrom(s, q, K)
      BY <1>8, <1>9, <1>10 DEF TakenFrom
    <2> QED
      BY <1>0, <1>1, <1>9, <1>12, <2>1 DEF s

\* A sequence cut in two and put together again.
LEMMA CutAndJoin ==
    ASSUME NEW S, NEW s \in Seq(S), NEW a \in Nat, NEW b \in Nat, NEW c \in Nat, a <= b, b <= c, c <= Len(s)
    PROVE  /\ SubSeq(s, a + 1, b) \in Seq(S) /\ Len(SubSeq(s, a + 1, b)) = b - a
           /\ \A i \in 1..(b - a) : SubSeq(s, a + 1, b)[i] = s[a + i]
           /\ SubSeq(s, a + 1, b) \o SubSeq(s, b + 1, c) = SubSeq(s, a + 1, c)
  <1>1. \A m, n \in Nat : m <= n /\ n <= Len(s) =>
          /\ SubSeq(s, m + 1, n) \in Seq(S) /\ Len(SubSeq(s, m + 1, n)) = n - m
          /\ \A i \in 1..(n - m) : SubSeq(s, m + 1, n)[i] = s[m + i]
    <2>1. SUFFICES ASSUME NEW m \in Nat, NEW n \in Nat, m <= n, n <= Len(s)
                   PROVE  /\ SubSeq(s, m + 1, n) \in Seq(S) /\ Len(SubSeq(s, m + 1, n)) = n - m
                          /\ \A i \in 1..(n - m) : SubSeq(s, m + 1, n)[i] = s[m + i]
      OBVIOUS
    <2>2. \A i \in (m + 1)..n : s[i] \in S
      <3>1. \A i \in (m + 1)..n : i \in 1..Len(s)
        BY <2>1
      <3> QED
        BY <3>1
    <2>3. SubSeq(s, m + 1, n) \in Seq(S)
      BY <2>1, <2>2
    <2>4. Len(SubSeq(s, m + 1, n)) = n - m
      BY <2>1
    <2>5. \A i \in 1..(n - m) : SubSeq(s, m + 1, n)[i] = s[m + i]
      BY <2>1
    <2> QED
      BY <2>3, <2>4, <2>5
  <1> DEFINE p == SubSeq(s, a + 1, b)
             q == SubSeq(s, b + 1, c)
             r == SubSeq(s, a + 1, c)
  <1>2. /\ p \in Seq(S) /\ Len(p) = b - a /\ \A i \in 1..(b - a) : p[i] = s[a + i]
        /\ q \in Seq(S) /\ Len(q) = c - b /\ \A i \in 1..(c - b) : q[i] = s[b + i]
        /\ r \in Seq(S) /\ Len(r) = c - a /\ \A i \in 1..(c - a) : r[i] = s[a + i]
    <2>1. a <= c /\ b <= Len(s)
      OBVIOUS
    <2> QED
      BY <1>1, <2>1
  <1> HIDE DEF p, q, r
  <1>3. p \o q \in Seq(S) /\ Len(p \o q) = c - a
    BY <1>2
  <1>4. ASSUME NEW i \in 1..(c - a) PROVE (p \o q)[i] = r[i]
    <2>1. CASE i <= b - a
      <3>1. (p \o q)[i] = p[i]
        BY <1>2, <1>4, <2>1
      <3> QED
        BY <1>2, <1>4, <2>1, <3>1
    <2>2. CASE i > b - a
      <3>0. i - (b - a) \in 1..(c - b) /\ i \in 1..(Len(p) + Len(q)) /\ i > Len(p)
        BY <1>2, <1>4, <2>2
      <3>1. (p \o q)[i] = q[i - (b - a)] /\ i - (b - a) \in 1..(c - b)
        <4>1. (p \o q)[i] = q[i - Len(p)]
          <5>1. p \in Seq(S) /\ q \in Seq(S)
            BY <1>2
          <5> QED
            BY <3>0, <5>1
        <4> QED
          BY <1>2, <3>0, <4>1
      <3>2. b + (i - (b - a)) = a + i
        BY <1>4
      <3> QED
        BY <1>2, <3>1, <3>2
    <2>3. i <= b - a \/ i > b - a
      BY <1>4
    <2> QED
      BY <2>1, <2>2, <2>3
  <1>5. p \o q = r
    BY <1>2, <1>3, <1>4, SeqSame
  <1> QED
    BY <1>2, <1>5 DEF p, q, r

\* Where the summary ends: at the boundary if it is there, else nowhere yet.
EndsAt(ms, boundary, k) == IF k = 0 THEN \A i \in 1..Len(ms) : ms[i] # boundary ELSE ms[k] = boundary

\* What a compaction does: over the budget, everything behind the old summary but a
\* tail is added to it, and the boundary moves to the last message it tells of.
LEMMA Compaction ==
    ASSUME NEW ms \in Seq(Nat), \A i, j \in 1..Len(ms) : ms[i] = ms[j] => i = j,
           \A i \in 1..Len(ms) : ms[i] # 0,
           NEW b, NEW old \in Seq(Nat) \cup {None}, NEW boundary \in Nat
    PROVE  LET out == H!CompactConversation(ms, b, old, boundary)
               prev == IF old = None THEN << >> ELSE old IN
           \/ out.summary = None /\ out.tail = ms /\ out.windowed = FALSE
           \/ /\ out.windowed = TRUE
              /\ \E f, k \in 0..Len(ms) :
                   /\ f <= k /\ EndsAt(ms, boundary, f) /\ (k < Len(ms) \/ k = f)
                   /\ out.tail = SubSeq(ms, k + 1, Len(ms))
                   /\ out.summary = prev \o SubSeq(ms, f + 1, k)
                   /\ out.boundary = IF k = 0 THEN 0 ELSE ms[k]
  <1> DEFINE out == H!CompactConversation(ms, b, old, boundary)
             prev == IF old = None THEN << >> ELSE old
             u == H!Unsummarized(ms, boundary)
             tail == H!NewestFittingTail(u.rest, b)
             fold == SubSeq(u.rest, 1, Len(u.rest) - Len(tail))
  <1>0. PICK L1 \in Nat : L1 = Len(ms)
    OBVIOUS
  <1>1. CASE H!Cost(ms) <= b
    BY <1>1 DEF H!CompactConversation
  <1>2. CASE ~(H!Cost(ms) <= b)
    <2>1. out = [summary |-> prev \o fold, tail |-> tail, windowed |-> TRUE,
                 boundary |-> IF fold = << >> THEN u.boundary ELSE H!Last(fold)]
      BY <1>2 DEF H!CompactConversation
    <2>2. PICK f \in 0..L1 : /\ EndsAt(ms, boundary, f) /\ u.rest = SubSeq(ms, f + 1, L1)
                             /\ u.boundary = IF f = 0 THEN 0 ELSE ms[f]
      <3> DEFINE at == {i \in DOMAIN ms : ms[i] = boundary}
      <3>1. DOMAIN ms = 1..L1
        BY <1>0
      <3>2. CASE at = {}
        <4>1. u = [boundary |-> 0, rest |-> ms]
          BY <3>2 DEF H!Unsummarized
        <4>2. SubSeq(ms, 0 + 1, L1) = ms
          BY <1>0
        <4>3. EndsAt(ms, boundary, 0)
          BY <1>0, <3>1, <3>2 DEF EndsAt
        <4> QED
          BY <4>1, <4>2, <4>3
      <3>3. CASE at # {}
        <4>1. PICK f \in 1..L1 : ms[f] = boundary
          BY <3>1, <3>3
        <4>2. at = {f}
          BY <1>0, <3>1, <4>1
        <4>3. H!Max(at) = f
          <5> HIDE DEF at
          <5> QED
            BY <4>2 DEF H!Max
        <4>4. u = [boundary |-> boundary, rest |-> SubSeq(ms, f + 1, L1)]
          BY <1>0, <3>3, <4>3 DEF H!Unsummarized
        <4>5. EndsAt(ms, boundary, f)
          BY <4>1 DEF EndsAt
        <4> QED
          BY <4>1, <4>4, <4>5
      <3> QED
        BY <3>2, <3>3
    <2> DEFINE rest == u.rest
    <2>3. /\ rest \in Seq(Nat) /\ Len(rest) = L1 - f /\ \A i \in 1..(L1 - f) : rest[i] = ms[f + i]
      BY <1>0, <2>2, CutAndJoin
    <2>4. PICK n \in 0..(L1 - f) : (L1 = f => n = 0) /\ (L1 > f => n > 0) /\ tail = SubSeq(rest, (L1 - f) - n + 1, L1 - f)
      <3> HIDE DEF u
      <3>1. CASE L1 = f
        <4>1. rest = << >>
          BY <2>3, <3>1
        <4>2. tail = << >>
          BY <4>1 DEF H!NewestFittingTail
        <4>3. SubSeq(rest, (L1 - f) - 0 + 1, L1 - f) = << >>
          BY <2>3, <3>1, <4>1
        <4> QED
          BY <3>1, <4>2, <4>3
      <3>2. CASE L1 > f
        <4> DEFINE fits == {k \in 1..Len(rest) : k = 1 \/ H!Cost(SubSeq(rest, Len(rest) - k + 1, Len(rest))) <= b}
        <4>1. 1 \in fits /\ fits \in SUBSET Nat /\ \A k \in fits : k <= L1 - f
          BY <2>3, <3>2
        <4>2. L1 - f \in Nat
          BY <3>2
        <4>3. \E k \in fits : \A j \in fits : j <= k
          <5> HIDE DEF fits
          <5> QED
            BY <4>1, <4>2, LargestNat
        <4>4. H!Max(fits) \in fits
          <5>1. \E k \in fits : \A j \in fits : k >= j
            BY <4>1, <4>3
          <5> HIDE DEF fits
          <5> QED
            BY <5>1 DEF H!Max
        <4>5. rest # << >>
          BY <2>3, <3>2
        <4>6. tail = SubSeq(rest, Len(rest) - H!Max(fits) + 1, Len(rest))
          BY <4>5 DEF H!NewestFittingTail
        <4>7. H!Max(fits) \in 1..(L1 - f)
          BY <2>3, <4>4
        <4> DEFINE mx == H!Max(fits)
        <4> HIDE DEF fits, mx
        <4>8. mx \in 0..(L1 - f) /\ mx > 0 /\ Len(rest) = L1 - f /\ ~(L1 = f)
          BY <2>3, <3>2, <4>7 DEF mx
        <4>9. tail = SubSeq(rest, (L1 - f) - mx + 1, L1 - f)
          BY <4>6, <4>8 DEF mx
        <4> HIDE DEF tail, rest
        <4> QED
          BY <4>8, <4>9
      <3> QED
        BY <3>1, <3>2
    <2> DEFINE k == L1 - n
    <2>5. k \in 0..L1 /\ f <= k /\ k <= L1 /\ (k < L1 \/ k = f)
      BY <2>4
    <2>6. tail = SubSeq(ms, k + 1, L1) /\ Len(tail) = n
      <3>1. /\ tail \in Seq(Nat) /\ Len(tail) = n /\ \A i \in 1..n : tail[i] = rest[(L1 - f) - n + i]
        <4>1. /\ SubSeq(rest, ((L1 - f) - n) + 1, L1 - f) \in Seq(Nat)
              /\ Len(SubSeq(rest, ((L1 - f) - n) + 1, L1 - f)) = (L1 - f) - ((L1 - f) - n)
              /\ \A i \in 1..((L1 - f) - ((L1 - f) - n)) :
                    SubSeq(rest, ((L1 - f) - n) + 1, L1 - f)[i] = rest[((L1 - f) - n) + i]
          <5> HIDE DEF rest
          <5>0. f \in Nat /\ n \in Nat /\ L1 - f \in Nat /\ n <= L1 - f /\ Len(rest) = L1 - f
            BY <2>2, <2>3, <2>4
          <5>1. (L1 - f) - n \in Nat /\ L1 - f \in Nat /\ (L1 - f) - n <= L1 - f /\ L1 - f <= Len(rest)
            BY <5>0
          <5> QED
            BY <2>3, <5>1, CutAndJoin
        <4>2. (L1 - f) - ((L1 - f) - n) = n
          BY <2>4
        <4> HIDE DEF rest, tail
        <4> QED
          BY <2>4, <4>1, <4>2
      <3>2. \A i \in 1..n : tail[i] = ms[k + i]
        <4>1. \A i \in 1..n : (L1 - f) - n + i \in 1..(L1 - f) /\ f + ((L1 - f) - n + i) = k + i
          BY <2>4
        <4>2. ASSUME NEW i \in 1..n PROVE tail[i] = ms[k + i]
          <5> DEFINE j == (L1 - f) - n + i
          <5>1. j \in 1..(L1 - f) /\ f + j = k + i
            BY <4>1
          <5>2. tail[i] = rest[j]
            BY <3>1
          <5> HIDE DEF rest, tail, k, j
          <5>3. rest[j] = ms[f + j]
            BY <2>3, <5>1
          <5> QED
            BY <5>1, <5>2, <5>3
        <4> QED
          BY <4>2
      <3>3. /\ SubSeq(ms, k + 1, L1) \in Seq(Nat) /\ Len(SubSeq(ms, k + 1, L1)) = n
            /\ \A i \in 1..n : SubSeq(ms, k + 1, L1)[i] = ms[k + i]
        <4>1. L1 - k = n /\ k \in Nat /\ k <= L1 /\ L1 <= Len(ms)
          BY <1>0, <2>4
        <4> HIDE DEF k
        <4>2. /\ SubSeq(ms, k + 1, L1) \in Seq(Nat) /\ Len(SubSeq(ms, k + 1, L1)) = L1 - k
              /\ \A i \in 1..(L1 - k) : SubSeq(ms, k + 1, L1)[i] = ms[k + i]
          BY <4>1, CutAndJoin
        <4> QED
          BY <4>1, <4>2
      <3> HIDE DEF rest, tail, k
      <3>4. /\ tail \in Seq(Nat) /\ SubSeq(ms, k + 1, L1) \in Seq(Nat) /\ Len(tail) = Len(SubSeq(ms, k + 1, L1))
            /\ \A i \in 1..Len(tail) : tail[i] = SubSeq(ms, k + 1, L1)[i]
        BY <3>1, <3>2, <3>3
      <3>5. tail = SubSeq(ms, k + 1, L1)
        BY <3>4, SeqSame
      <3> QED
        BY <3>1, <3>5
    <2>7. fold = SubSeq(ms, f + 1, k)
      <3>1. Len(rest) - Len(tail) = k - f /\ k - f \in Nat /\ k - f <= Len(rest) /\ 0 + 1 = 1 /\ (k - f) - 0 = k - f
        BY <2>3, <2>4, <2>6
      <3>2. /\ SubSeq(rest, 1, k - f) \in Seq(Nat) /\ Len(SubSeq(rest, 1, k - f)) = k - f
            /\ \A i \in 1..(k - f) : SubSeq(rest, 1, k - f)[i] = rest[i]
        <4> DEFINE e == k - f
        <4>1. e \in Nat /\ e <= Len(rest) /\ rest \in Seq(Nat) /\ 0 \in Nat
          BY <2>3, <3>1
        <4> HIDE DEF rest, e
        <4>2. /\ SubSeq(rest, 0 + 1, e) \in Seq(Nat) /\ Len(SubSeq(rest, 0 + 1, e)) = e - 0
              /\ \A i \in 1..(e - 0) : SubSeq(rest, 0 + 1, e)[i] = rest[0 + i]
          BY <4>1, CutAndJoin
        <4>3. 0 + 1 = 1 /\ e - 0 = e /\ \A i \in 1..e : 0 + i = i
          BY <4>1
        <4>4. /\ SubSeq(rest, 1, e) \in Seq(Nat) /\ Len(SubSeq(rest, 1, e)) = e
              /\ \A i \in 1..e : SubSeq(rest, 1, e)[i] = rest[i]
          BY <4>2, <4>3
        <4> QED
          BY <4>4 DEF e
      <3>3. /\ SubSeq(ms, f + 1, k) \in Seq(Nat) /\ Len(SubSeq(ms, f + 1, k)) = k - f
            /\ \A i \in 1..(k - f) : SubSeq(ms, f + 1, k)[i] = ms[f + i]
        <4>1. f \in Nat /\ k \in Nat /\ f <= k /\ k <= Len(ms)
          BY <1>0, <2>5
        <4> HIDE DEF k
        <4> QED
          BY <4>1, CutAndJoin
      <3>4. \A i \in 1..(k - f) : i \in 1..(L1 - f)
        BY <2>5
      <3>5. \A i \in 1..(k - f) : SubSeq(rest, 1, k - f)[i] = SubSeq(ms, f + 1, k)[i]
        <4> HIDE DEF rest, k
        <4> QED
          BY <2>3, <3>2, <3>3, <3>4
      <3>6. fold = SubSeq(rest, 1, k - f)
        BY <3>1
      <3> HIDE DEF fold, rest, k
      <3> QED
        BY <3>2, <3>3, <3>5, <3>6, SeqSame
    <2>8. (IF fold = << >> THEN u.boundary ELSE H!Last(fold)) = IF k = 0 THEN 0 ELSE ms[k]
      <3>1. /\ fold \in Seq(Nat) /\ Len(fold) = k - f /\ \A i \in 1..(k - f) : fold[i] = ms[f + i]
        <4>1. f \in Nat /\ k \in Nat /\ f <= k /\ k <= Len(ms)
          BY <1>0, <2>5
        <4> HIDE DEF fold, k
        <4> QED
          BY <2>7, <4>1, CutAndJoin
      <3> HIDE DEF fold, u
      <3>2. CASE k = f
        <4>1. fold = << >>
          BY <3>1, <3>2
        <4> QED
          BY <2>2, <3>2, <4>1
      <3>3. CASE k > f
        <4>1. fold # << >> /\ H!Last(fold) = fold[k - f] /\ k - f \in 1..(k - f) /\ f + (k - f) = k /\ k # 0
          BY <2>5, <3>1, <3>3 DEF H!Last
        <4>2. fold[k - f] = ms[f + (k - f)]
          BY <3>1, <4>1
        <4> HIDE DEF k
        <4> QED
          BY <4>1, <4>2
      <3> QED
        BY <2>5, <3>2, <3>3
    <2> HIDE DEF fold, tail, u, prev, k, out
    <2>9. /\ out.windowed = TRUE /\ out.tail = SubSeq(ms, k + 1, L1)
          /\ out.summary = prev \o SubSeq(ms, f + 1, k)
          /\ out.boundary = IF k = 0 THEN 0 ELSE ms[k]
      BY <2>1, <2>6, <2>7, <2>8, Zenon
    <2> QED
      BY <1>0, <2>2, <2>5, <2>9 DEF out, prev
  <1> QED
    BY <1>1, <1>2

\* The elements of two sequences put together.
LEMMA JoinIs ==
    ASSUME NEW p \in Seq(Nat), NEW q \in Seq(Nat)
    PROVE  /\ p \o q \in Seq(Nat) /\ Len(p \o q) = Len(p) + Len(q)
           /\ \A i \in 1..Len(p) : (p \o q)[i] = p[i]
           /\ \A i \in 1..Len(q) : (p \o q)[Len(p) + i] = q[i]
  <1>1. p \o q \in Seq(Nat) /\ Len(p \o q) = Len(p) + Len(q)
    OBVIOUS
  <1>2. \A i \in 1..Len(p) : (p \o q)[i] = p[i]
    OBVIOUS
  <1>3. ASSUME NEW i \in 1..Len(q) PROVE (p \o q)[Len(p) + i] = q[i]
    <2> DEFINE m == Len(p) + i
    <2>1. m \in 1..(Len(p) + Len(q)) /\ m > Len(p) /\ m - Len(p) = i
      BY <1>3
    <2> HIDE DEF m
    <2>2. (p \o q)[m] = q[m - Len(p)]
      BY <2>1
    <2> QED
      BY <2>1, <2>2 DEF m
  <1> QED
    BY <1>1, <1>2, <1>3

\* A sequence tells of the first k messages.
Tells(s, ms, k) == \A j \in 1..k : \E n \in 1..Len(s) : s[n] = ms[j]

\* What is added to it tells of the next ones.
LEMMA TellsMore ==
    ASSUME NEW ms \in Seq(Nat), NEW prev \in Seq(Nat), NEW f \in 0..Len(ms), NEW k \in 0..Len(ms), f <= k,
           Tells(prev, ms, f)
    PROVE  /\ prev \o SubSeq(ms, f + 1, k) \in Seq(Nat)
           /\ Tells(prev \o SubSeq(ms, f + 1, k), ms, k)
  <1> DEFINE fold == SubSeq(ms, f + 1, k)
             sum == prev \o fold
  <1>1. f \in Nat /\ k \in Nat /\ k <= Len(ms) /\ Len(ms) \in Nat
    OBVIOUS
  <1>2. fold \in Seq(Nat) /\ Len(fold) = k - f /\ \A i \in 1..(k - f) : fold[i] = ms[f + i]
    BY <1>1, CutAndJoin
  <1> HIDE DEF fold
  <1>3. /\ sum \in Seq(Nat) /\ Len(sum) = Len(prev) + Len(fold)
        /\ \A i \in 1..Len(prev) : sum[i] = prev[i]
        /\ \A i \in 1..Len(fold) : sum[Len(prev) + i] = fold[i]
    <2>1. prev \in Seq(Nat) /\ fold \in Seq(Nat)
      BY <1>2
    <2>2. /\ prev \o fold \in Seq(Nat) /\ Len(prev \o fold) = Len(prev) + Len(fold)
          /\ \A i \in 1..Len(prev) : (prev \o fold)[i] = prev[i]
          /\ \A i \in 1..Len(fold) : (prev \o fold)[Len(prev) + i] = fold[i]
      BY <2>1, JoinIs
    <2> QED
      BY <2>2, Zenon
  <1>4. PICK Past \in Nat : Past = Len(prev)
    OBVIOUS
  <1> HIDE DEF sum
  <1>5. ASSUME NEW j \in 1..k PROVE \E n \in 1..Len(sum) : sum[n] = ms[j]
    <2>1. CASE j <= f
      <3>1. j \in 1..f
        BY <1>1, <2>1
      <3>2. PICK n \in 1..Len(prev) : prev[n] = ms[j]
        BY <3>1 DEF Tells
      <3>3. n \in 1..Len(sum)
        BY <1>1, <1>2, <1>3, <3>2
      <3> QED
        BY <1>3, <3>2, <3>3
    <2>2. CASE j > f
      <3> DEFINE i == j - f
      <3>1. i \in 1..(k - f) /\ f + i = j /\ Past + i \in 1..(Past + (k - f))
        BY <1>1, <2>2
      <3> HIDE DEF i
      <3>2. Past + i \in 1..Len(sum) /\ i \in 1..Len(fold) /\ fold[i] = ms[j]
        BY <1>2, <1>3, <1>4, <3>1
      <3>3. sum[Past + i] = ms[j]
        BY <1>3, <1>4, <3>2
      <3> QED
        BY <3>2, <3>3
    <2>3. j <= f \/ j > f
      BY <1>1
    <2> QED
      BY <2>1, <2>2, <2>3
  <1>6. Tells(sum, ms, k)
    BY <1>5 DEF Tells
  <1> QED
    BY <1>3, <1>6 DEF sum, fold

\* The summary a conversation has, empty while there is none.
Told(old) == IF old = None THEN << >> ELSE old

\* A summary tells of every message up to its boundary.
SummaryCovers(ms, old, boundary) == \A k \in 1..Len(ms) : ms[k] = boundary => Tells(Told(old), ms, k)

\* Until a purge it tells of nothing else, in order, and never of the last message.
SummaryExact(ms, old, boundary) ==
    \E k \in 0..Len(ms) : /\ Told(old) = SubSeq(ms, 1, k) /\ boundary = IF k = 0 THEN 0 ELSE ms[k]
                          /\ k = 0 \/ k < Len(ms)

\* What the constants of the conversation are.
LEMMA ChatFacts ==
    /\ NTurns \in Nat /\ MaxConversations \in Nat /\ H!Turns = 1..NTurns /\ H!ConvIds = 1..(MaxConversations + NTurns)
    /\ None \notin H!Turns /\ None \notin Songs /\ None \notin Texts /\ None \notin Seq(Nat)
  BY PartConstants DEF H!ChatConstants, H!Turns, H!ConvIds

\* The first messages, and the first ones of those.
LEMMA Prefixes ==
    ASSUME NEW S, NEW ms \in Seq(S), NEW m \in Nat, m <= Len(ms)
    PROVE  /\ SubSeq(ms, 1, m) \in Seq(S) /\ Len(SubSeq(ms, 1, m)) = m
           /\ \A i \in 1..m : SubSeq(ms, 1, m)[i] = ms[i]
           /\ \A n \in 0..m : SubSeq(SubSeq(ms, 1, m), 1, n) = SubSeq(ms, 1, n)
           /\ SubSeq(ms, 1, Len(ms)) = ms
  <1>1. \A s \in Seq(S), n \in Nat : n <= Len(s) =>
          /\ SubSeq(s, 1, n) \in Seq(S) /\ Len(SubSeq(s, 1, n)) = n
          /\ \A i \in 1..n : SubSeq(s, 1, n)[i] = s[i]
    <2>1. SUFFICES ASSUME NEW s \in Seq(S), NEW n \in Nat, n <= Len(s)
                   PROVE  /\ SubSeq(s, 1, n) \in Seq(S) /\ Len(SubSeq(s, 1, n)) = n
                          /\ \A i \in 1..n : SubSeq(s, 1, n)[i] = s[i]
      OBVIOUS
    <2>2. 0 \in Nat /\ 0 + 1 = 1 /\ n - 0 = n /\ \A i \in 1..n : 0 + i = i
      OBVIOUS
    <2>3. /\ SubSeq(s, 0 + 1, n) \in Seq(S) /\ Len(SubSeq(s, 0 + 1, n)) = n - 0
          /\ \A i \in 1..(n - 0) : SubSeq(s, 0 + 1, n)[i] = s[0 + i]
      BY <2>1, CutAndJoin
    <2> QED
      BY <2>2, <2>3
  <1> DEFINE p == SubSeq(ms, 1, m)
  <1>2. /\ p \in Seq(S) /\ Len(p) = m /\ \A i \in 1..m : p[i] = ms[i]
    BY <1>1
  <1> HIDE DEF p
  <1>3. ASSUME NEW n \in 0..m PROVE SubSeq(p, 1, n) = SubSeq(ms, 1, n)
    <2>1. n \in Nat /\ n <= Len(p) /\ n <= Len(ms) /\ n <= m
      BY <1>2
    <2>2. /\ SubSeq(p, 1, n) \in Seq(S) /\ Len(SubSeq(p, 1, n)) = n
          /\ \A i \in 1..n : SubSeq(p, 1, n)[i] = p[i]
      BY <1>1, <1>2, <2>1
    <2>3. /\ SubSeq(ms, 1, n) \in Seq(S) /\ Len(SubSeq(ms, 1, n)) = n
          /\ \A i \in 1..n : SubSeq(ms, 1, n)[i] = ms[i]
      BY <1>1, <2>1
    <2>4. \A i \in 1..n : SubSeq(p, 1, n)[i] = SubSeq(ms, 1, n)[i]
      BY <1>2, <2>1, <2>2, <2>3
    <2> QED
      BY <2>2, <2>3, <2>4, SeqSame
  <1>4. SubSeq(ms, 1, Len(ms)) = ms
    <2>1. Len(ms) \in Nat /\ Len(ms) <= Len(ms)
      OBVIOUS
    <2>2. /\ SubSeq(ms, 1, Len(ms)) \in Seq(S) /\ Len(SubSeq(ms, 1, Len(ms))) = Len(ms)
          /\ \A i \in 1..Len(ms) : SubSeq(ms, 1, Len(ms))[i] = ms[i]
      BY <1>1, <2>1
    <2> QED
      BY <2>2, SeqSame
  <1> QED
    BY <1>2, <1>3, <1>4 DEF p

\* The first messages and the next ones are the first ones.
LEMMA FirstAndNext ==
    ASSUME NEW s \in Seq(Nat), NEW b \in Nat, NEW c \in Nat, b <= c, c <= Len(s)
    PROVE  SubSeq(s, 1, b) \o SubSeq(s, b + 1, c) = SubSeq(s, 1, c)
  <1>1. 0 \in Nat /\ 0 <= b /\ 0 + 1 = 1
    OBVIOUS
  <1>2. SubSeq(s, 0 + 1, b) \o SubSeq(s, b + 1, c) = SubSeq(s, 0 + 1, c)
    BY <1>1, CutAndJoin
  <1> QED
    BY <1>1, <1>2

\* A turn reads the first m messages, all of them or all but the last, and compacts them.
Compacted(ms, m, b, old, boundary, hist, out) ==
    /\ ms \in Seq(Nat) /\ m \in Nat /\ m <= Len(ms) /\ Len(ms) <= m + 1
    /\ \A i, j \in 1..Len(ms) : ms[i] = ms[j] => i = j
    /\ \A i \in 1..Len(ms) : ms[i] # 0
    /\ old \in Seq(Nat) \cup {None} /\ boundary \in Nat /\ SummaryCovers(ms, old, boundary)
    /\ hist = SubSeq(ms, 1, m) /\ out = H!CompactConversation(hist, b, old, boundary)

\* What a turn keeps and sends of the history it reads.
KeepsAndSends(ms, m, old, boundary, hist, out) ==
    LET sent == Told(out.summary) \o out.tail IN
           /\ Told(out.summary) \in Seq(Nat) /\ out.tail \in Seq(Nat) /\ Tells(sent, hist, m)
           /\ SummaryExact(ms, old, boundary) => sent = hist
           /\ out.windowed => /\ out.summary \in Seq(Nat) /\ SummaryCovers(ms, out.summary, out.boundary)
                              /\ out.boundary = 0 \/ \E i \in 1..Len(ms) : ms[i] = out.boundary
                              /\ SummaryExact(ms, old, boundary) => SummaryExact(ms, out.summary, out.boundary)

\* It sends all of it, exactly it until a purge, and moves the boundary along.
LEMMA TurnCompacts ==
    ASSUME NEW ms, NEW m, NEW b, NEW old, NEW boundary, NEW hist, NEW out,
           Compacted(ms, m, b, old, boundary, hist, out)
    PROVE  KeepsAndSends(ms, m, old, boundary, hist, out)
  <1>0. SUFFICES ASSUME ms \in Seq(Nat), \A i, j \in 1..Len(ms) : ms[i] = ms[j] => i = j,
           \A i \in 1..Len(ms) : ms[i] # 0,
           m \in Nat, m <= Len(ms), Len(ms) <= m + 1,
           old \in Seq(Nat) \cup {None}, boundary \in Nat,
           SummaryCovers(ms, old, boundary),
           hist = SubSeq(ms, 1, m), out = H!CompactConversation(hist, b, old, boundary),
           NEW sent, sent = Told(out.summary) \o out.tail
    PROVE
           /\ Told(out.summary) \in Seq(Nat) /\ out.tail \in Seq(Nat) /\ Tells(sent, hist, m)
           /\ SummaryExact(ms, old, boundary) => sent = hist
           /\ out.windowed => /\ out.summary \in Seq(Nat) /\ SummaryCovers(ms, out.summary, out.boundary)
                              /\ out.boundary = 0 \/ \E i \in 1..Len(ms) : ms[i] = out.boundary
                              /\ SummaryExact(ms, old, boundary) => SummaryExact(ms, out.summary, out.boundary)
    BY DEF Compacted, KeepsAndSends
  <1> USE <1>0
  <1>1. /\ hist \in Seq(Nat) /\ Len(hist) = m /\ \A i \in 1..m : hist[i] = ms[i]
        /\ \A n \in 0..m : SubSeq(hist, 1, n) = SubSeq(ms, 1, n)
        /\ SubSeq(hist, 1, m) = hist
    <2>1. Len(hist) = m
      BY Prefixes
    <2>2. m \in 0..m
      OBVIOUS
    <2>3. /\ hist \in Seq(Nat) /\ Len(hist) = m /\ \A i \in 1..m : hist[i] = ms[i]
          /\ \A n \in 0..m : SubSeq(hist, 1, n) = SubSeq(ms, 1, n)
      BY Prefixes
    <2> QED
      BY <2>2, <2>3
  <1>2. /\ \A i, j \in 1..Len(hist) : hist[i] = hist[j] => i = j
        /\ \A i \in 1..Len(hist) : hist[i] # 0
        /\ \A i \in 1..m : i \in 1..Len(ms)
    <2>1. \A i \in 1..m : i \in 1..Len(ms)
      OBVIOUS
    <2> QED
      BY <1>1, <2>1
  <1>3. None \notin Seq(Nat)
    BY ChatFacts
  <1>4. \/ out.summary = None /\ out.tail = hist /\ out.windowed = FALSE
        \/ /\ out.windowed = TRUE
           /\ \E f, k \in 0..Len(hist) :
                /\ f <= k /\ EndsAt(hist, boundary, f) /\ (k < Len(hist) \/ k = f)
                /\ out.tail = SubSeq(hist, k + 1, Len(hist))
                /\ out.summary = Told(old) \o SubSeq(hist, f + 1, k)
                /\ out.boundary = IF k = 0 THEN 0 ELSE hist[k]
    <2> DEFINE o == H!CompactConversation(hist, b, old, boundary)
    <2>1. \/ o.summary = None /\ o.tail = hist /\ o.windowed = FALSE
          \/ /\ o.windowed = TRUE
             /\ \E f, k \in 0..Len(hist) :
                  /\ f <= k /\ EndsAt(hist, boundary, f) /\ (k < Len(hist) \/ k = f)
                  /\ o.tail = SubSeq(hist, k + 1, Len(hist))
                  /\ o.summary = Told(old) \o SubSeq(hist, f + 1, k)
                  /\ o.boundary = IF k = 0 THEN 0 ELSE hist[k]
      BY <1>1, <1>2, Compaction DEF Told
    <2>2. o = out
      OBVIOUS
    <2> HIDE DEF o
    <2> QED
      BY <2>1, <2>2, Zenon
  <1>5. Told(old) \in Seq(Nat)
    BY DEF Told
  <1>6. CASE out.summary = None /\ out.tail = hist /\ out.windowed = FALSE
    <2>1. Told(out.summary) = << >> /\ << >> \o hist = hist /\ << >> \in Seq(Nat)
      BY <1>1, <1>6 DEF Told
    <2>2. sent = hist
      BY <1>6, <2>1
    <2>3. Tells(hist, hist, m)
      BY <1>1 DEF Tells
    <2> QED
      BY <1>1, <1>6, <2>1, <2>2, <2>3
  <1>7. CASE /\ out.windowed = TRUE
             /\ \E f, k \in 0..Len(hist) :
                /\ f <= k /\ EndsAt(hist, boundary, f) /\ (k < Len(hist) \/ k = f)
                /\ out.tail = SubSeq(hist, k + 1, Len(hist))
                /\ out.summary = Told(old) \o SubSeq(hist, f + 1, k)
                /\ out.boundary = IF k = 0 THEN 0 ELSE hist[k]
    <2>0. PICK f \in 0..Len(hist), k \in 0..Len(hist) :
                /\ f <= k /\ EndsAt(hist, boundary, f) /\ (k < Len(hist) \/ k = f)
                /\ out.tail = SubSeq(hist, k + 1, Len(hist))
                /\ out.summary = Told(old) \o SubSeq(hist, f + 1, k)
                /\ out.boundary = IF k = 0 THEN 0 ELSE hist[k]
      BY <1>7
    <2>1. /\ f \in 0..m /\ k \in 0..m /\ f <= k /\ EndsAt(hist, boundary, f) /\ (k < m \/ k = f)
          /\ out.tail = SubSeq(hist, k + 1, m)
          /\ out.summary = Told(old) \o SubSeq(hist, f + 1, k)
          /\ out.boundary = IF k = 0 THEN 0 ELSE hist[k]
      BY <1>1, <2>0
    <2>2. Tells(Told(old), hist, f)
      <3>1. CASE f = 0
        BY <3>1 DEF Tells
      <3>2. CASE f # 0
        <4>1. f \in 1..m /\ f \in 1..Len(ms) /\ ms[f] = boundary
          BY <1>1, <1>2, <2>1, <3>2 DEF EndsAt
        <4>2. Tells(Told(old), ms, f)
          BY <4>1 DEF SummaryCovers
        <4>3. \A j \in 1..f : j \in 1..m
          BY <4>1
        <4> QED
          BY <1>1, <4>2, <4>3 DEF Tells
      <3> QED
        BY <3>1, <3>2
    <2> DEFINE sum == Told(old) \o SubSeq(hist, f + 1, k)
    <2>3. sum \in Seq(Nat) /\ Tells(sum, hist, k)
      BY <1>1, <1>5, <2>1, <2>2, TellsMore
    <2>4. out.summary = sum /\ Told(sum) = sum
      BY <1>3, <2>1, <2>3 DEF Told
    <2> HIDE DEF sum
    <2>5. sent = sum \o SubSeq(hist, k + 1, m) /\ Tells(sent, hist, m) /\ out.tail \in Seq(Nat)
      <3>1. k \in 0..Len(hist) /\ m \in 0..Len(hist) /\ k <= m
        BY <1>1
      <3>2. Tells(sum \o SubSeq(hist, k + 1, m), hist, m)
        BY <1>1, <2>3, <3>1, TellsMore
      <3>3. SubSeq(hist, k + 1, m) \in Seq(Nat)
        <4>1. k \in Nat /\ m \in Nat /\ k <= m /\ m <= Len(hist)
          BY <3>1
        <4> QED
          BY <1>1, <4>1, CutAndJoin
      <3> QED
        BY <2>1, <2>4, <3>2, <3>3
    <2>6. ASSUME NEW i \in 1..Len(ms), ms[i] = out.boundary PROVE i = k /\ k \in 1..m /\ Tells(sum, ms, i)
      <3>1. k # 0
        BY <2>1, <2>6
      <3>20. k \in 1..m
        BY <2>1, <3>1
      <3>2. k \in 1..m /\ k \in 1..Len(ms) /\ out.boundary = ms[k]
        BY <1>1, <1>2, <2>1, <3>1, <3>20
      <3>3. i = k
        BY <2>6, <3>2
      <3>4. \A j \in 1..k : j \in 1..m
        BY <3>2
      <3>5. Tells(sum, ms, k)
        BY <1>1, <2>3, <3>4 DEF Tells
      <3> QED
        BY <3>2, <3>3, <3>5
    <2>7. SummaryCovers(ms, sum, out.boundary)
      BY <2>4, <2>6 DEF SummaryCovers
    <2>8. out.boundary = 0 \/ \E i \in 1..Len(ms) : ms[i] = out.boundary
      <3>1. CASE k = 0
        BY <2>1, <3>1
      <3>2. CASE k # 0
        <4>1. k \in 1..m
          BY <3>2
        <4> QED
          BY <1>1, <1>2, <2>1, <4>1
      <3> QED
        BY <3>1, <3>2
    <2>9. ASSUME SummaryExact(ms, old, boundary) PROVE sent = hist /\ SummaryExact(ms, sum, out.boundary)
      <3>1. PICK g \in 0..Len(ms) : /\ Told(old) = SubSeq(ms, 1, g) /\ boundary = IF g = 0 THEN 0 ELSE ms[g]
                                    /\ g = 0 \/ g < Len(ms)
        BY <2>9 DEF SummaryExact
      <3>2. f = g
        <4>1. CASE f = 0
          <5>1. \A i \in 1..m : hist[i] # boundary
            BY <1>1, <2>1, <4>1 DEF EndsAt
          <5>2. CASE g # 0
            <6>1. g \in 1..m /\ boundary = ms[g]
              BY <3>1, <5>2
            <6> QED
              BY <1>1, <5>1, <6>1
          <5> QED
            BY <4>1, <5>2
        <4>2. CASE f # 0
          <5>0. f \in 1..m /\ hist[f] = boundary
            BY <2>1, <4>2 DEF EndsAt
          <5>1. f \in 1..m /\ f \in 1..Len(ms) /\ ms[f] = boundary /\ boundary # 0
            BY <1>1, <1>2, <5>0
          <5>2. g # 0 /\ g \in 1..Len(ms) /\ ms[g] = boundary
            BY <3>1, <5>1
          <5> QED
            BY <5>1, <5>2
        <4> QED
          BY <4>1, <4>2
      <3>30. f \in Nat /\ k \in Nat /\ m \in Nat /\ f <= k /\ k <= m /\ m <= Len(hist) /\ k <= Len(hist)
        BY <1>1, <2>1
      <3>3. sum = SubSeq(hist, 1, k)
        <4>1. SubSeq(hist, 1, f) \o SubSeq(hist, f + 1, k) = SubSeq(hist, 1, k)
          BY <1>1, <3>30, FirstAndNext
        <4>2. Told(old) = SubSeq(hist, 1, f)
          BY <1>1, <2>1, <3>1, <3>2
        <4> QED
          BY <3>30, <4>1, <4>2 DEF sum
      <3>4. sent = hist
        <4>1. SubSeq(hist, 1, k) \o SubSeq(hist, k + 1, m) = SubSeq(hist, 1, m)
          BY <1>1, <3>30, FirstAndNext
        <4> QED
          BY <1>1, <2>5, <3>3, <3>30, <4>1
      <3>5. k \in 0..Len(ms) /\ (k = 0 \/ k < Len(ms))
        BY <2>1, <3>1, <3>2
      <3>6. sum = SubSeq(ms, 1, k) /\ out.boundary = IF k = 0 THEN 0 ELSE ms[k]
        <4>1. k # 0 => k \in 1..m
          BY <2>1
        <4>2. out.boundary = IF k = 0 THEN 0 ELSE ms[k]
          BY <1>1, <2>1, <4>1
        <4> QED
          BY <1>1, <2>1, <3>3, <4>2
      <3>7. SummaryExact(ms, sum, out.boundary)
        BY <2>4, <3>5, <3>6 DEF SummaryExact
      <3> QED
        BY <3>4, <3>7
    <2> QED
      BY <2>3, <2>4, <2>5, <2>7, <2>8, <2>9
  <1> QED
    BY <1>4, <1>6, <1>7

\* The rows of conversations and turns.
MessageRow == [id : Nat \ {0}, role : {"user", "assistant"}, text : Texts \cup {None}, about : Songs \cup {None}, to : Nat]
TalkRow == [st : {"none", "active", "archived", "deleted"}, msgs : Seq(MessageRow), summary : Seq(Nat) \cup {None},
            boundary : Nat, torn : BOOLEAN]
TurnRow == [pc : {"idle", "admitted", "prepared", "running", "ended", "lost"}, text : Texts \cup {None},
            about : Songs \cup {None}, conv : H!ConvIds \cup {0}, msg : Nat, summary : Seq(Nat), tail : Seq(Nat),
            told : Seq(Nat), torn : BOOLEAN]
ChatType ==
    /\ conv \in [H!ConvIds -> TalkRow] /\ turn \in [H!Turns -> TurnRow] /\ chat \in [H!Turns -> {"none", "running", "over"}]
    /\ loop \in H!Turns \cup {None} /\ written \in Nat /\ convs \in Nat

\* A reply stands behind the message it answers and is the only one to it.
Answered(ms) ==
    \A i \in 1..Len(ms) : ms[i].role = "assistant" =>
        /\ (\E j \in 1..Len(ms) : ms[j].id = ms[i].to) => i > 1 /\ ms[i - 1].id = ms[i].to
        /\ \A j \in 1..Len(ms) : ms[j].role = "assistant" /\ ms[j].to = ms[i].to => j = i

\* The person's messages in a row differ.
RepeatsNone(ms) ==
    \A i \in 1..(Len(ms) - 1) : ms[i].role = "user" /\ ms[i + 1].role = "user" => ms[i].text # ms[i + 1].text

\* What holds of one conversation when w messages were written.
IdsGrow(ms, w) ==
    /\ \A i, j \in 1..Len(ms) : i < j => ms[i].id < ms[j].id
    /\ \A i \in 1..Len(ms) : ms[i].id <= w /\ ms[i].to <= w
SummaryStands(v) ==
    /\ SummaryCovers(H!Ids(v.msgs), v.summary, v.boundary)
    /\ ~v.torn => SummaryExact(H!Ids(v.msgs), v.summary, v.boundary)
TalkStands(v, w) ==
    /\ IdsGrow(v.msgs, w) /\ v.boundary <= w
    /\ SummaryStands(v)
    /\ Answered(v.msgs)
    /\ ~v.torn => RepeatsNone(v.msgs)
TalksStand == \A c \in H!ConvIds : TalkStands(conv[c], written)

\* One turn is prepared at a time, only its job may run meanwhile, and turns come in order.
LoopHeld == \A t \in H!Turns : turn[t].pc \in {"admitted", "prepared"} <=> loop = t
OneJobRuns ==
    \A t \in H!Turns : chat[t] = "running" => (loop # None => loop = t) /\ \A u \in H!Turns : chat[u] = "running" => u = t
TurnsInOrder == \A t, u \in H!Turns : turn[u].pc = "idle" /\ turn[t].pc # "idle" => t < u
RoomForTurns == \A t \in H!Turns : turn[t].pc \in {"idle", "admitted"} => convs <= MaxConversations + t - 1

\* The message a running turn answers is the newest and has no reply.
Unanswered(ms, m) == \A i \in 1..Len(ms) : ms[i].id <= m /\ ~(ms[i].role = "assistant" /\ ms[i].to = m)
AnswersNewest(r) == r.conv \in H!ConvIds /\ r.msg <= written /\ Unanswered(conv[r.conv].msgs, r.msg)

\* A prepared turn still finds the history it read, unless the person changed it.
Repeats(ms, text) == ms # << >> /\ ms[Len(ms)].role = "user" /\ ms[Len(ms)].text = text
FindsHistory(r) ==
    /\ r.conv \in H!ConvIds /\ r.msg <= written
    /\ r.msg # 0 => \A i \in 1..Len(conv[r.conv].msgs) : conv[r.conv].msgs[i].id <= r.msg
    /\ r.msg = 0 /\ conv[r.conv].st # "deleted" /\ ~conv[r.conv].torn => ~Repeats(conv[r.conv].msgs, r.text)
SendsAll(r) ==
    /\ \A j \in 1..Len(r.told) : \E n \in 1..Len(r.summary \o r.tail) : (r.summary \o r.tail)[n] = r.told[j]
    /\ ~r.torn => r.summary \o r.tail = r.told
TurnsStand ==
    \A t \in H!Turns :
        /\ turn[t].pc = "running" /\ chat[t] = "running" => AnswersNewest(turn[t])
        /\ turn[t].pc = "prepared" => FindsHistory(turn[t]) /\ SendsAll(turn[t])

ChatInv == ChatType /\ TalksStand /\ LoopHeld /\ OneJobRuns /\ TurnsInOrder /\ RoomForTurns /\ TurnsStand

\* The ids of the messages of a conversation.
LEMMA IdsOf ==
    ASSUME NEW ms \in Seq(MessageRow)
    PROVE  /\ H!Ids(ms) \in Seq(Nat) /\ Len(H!Ids(ms)) = Len(ms)
           /\ \A i \in 1..Len(ms) : H!Ids(ms)[i] = ms[i].id /\ ms[i].id \in Nat \ {0}
           /\ \A w : IdsGrow(ms, w) => \A i, j \in 1..Len(ms) : ms[i].id = ms[j].id => i = j
  <1>0. \A i \in 1..Len(ms) : ms[i] \in MessageRow
    OBVIOUS
  <1>1. \A i \in 1..Len(ms) : ms[i].id \in Nat \ {0}
    BY <1>0 DEF MessageRow
  <1>2. H!Ids(ms) = [i \in 1..Len(ms) |-> ms[i].id]
    BY DEF H!Ids
  <1>3. H!Ids(ms) \in [1..Len(ms) -> Nat] /\ Len(ms) \in Nat
    BY <1>1, <1>2
  <1>4. H!Ids(ms) \in Seq(Nat) /\ Len(H!Ids(ms)) = Len(ms)
    BY <1>3
  <1>5. ASSUME NEW w, IdsGrow(ms, w), NEW i \in 1..Len(ms), NEW j \in 1..Len(ms), ms[i].id = ms[j].id PROVE i = j
    <2>1. i < j => ms[i].id < ms[j].id
      BY <1>5 DEF IdsGrow
    <2>2. j < i => ms[j].id < ms[i].id
      BY <1>5 DEF IdsGrow
    <2>3. ms[i].id \in Nat /\ ms[j].id \in Nat
      BY <1>1
    <2>4. ~(i < j) /\ ~(j < i)
      BY <1>5, <2>1, <2>2, <2>3
    <2>5. i \in Int /\ j \in Int
      OBVIOUS
    <2> QED
      BY <2>4, <2>5
  <1> QED
    BY <1>1, <1>2, <1>4, <1>5

\* A conversation without messages.
LEMMA EmptyTalk ==
    ASSUME NEW v \in TalkRow, NEW w \in Nat, v.msgs = << >>, v.boundary = 0, v.summary = None PROVE TalkStands(v, w)
  <1>1. /\ IdsGrow(v.msgs, w) /\ v.boundary <= w /\ Answered(v.msgs) /\ RepeatsNone(v.msgs)
    BY DEF IdsGrow, Answered, RepeatsNone
  <1>2. H!Ids(v.msgs) \in Seq(Nat) /\ Len(H!Ids(v.msgs)) = 0
    <2>1. v.msgs \in Seq(MessageRow)
      BY DEF TalkRow
    <2> QED
      BY <2>1, IdsOf
  <1>3. SummaryCovers(H!Ids(v.msgs), v.summary, v.boundary)
    BY <1>2 DEF SummaryCovers
  <1>4. SummaryExact(H!Ids(v.msgs), v.summary, v.boundary)
    <2>1. Told(v.summary) = SubSeq(H!Ids(v.msgs), 1, 0)
      BY <1>2 DEF Told
    <2> QED
      BY <1>2, <2>1 DEF SummaryExact
  <1> QED
    BY <1>1, <1>3, <1>4 DEF TalkStands, SummaryStands

\* More messages were written elsewhere.
LEMMA TalkStays ==
    ASSUME NEW v \in TalkRow, NEW w \in Nat, NEW u \in Nat, w <= u, TalkStands(v, w) PROVE TalkStands(v, u)
  <1>1. v.msgs \in Seq(MessageRow) /\ v.boundary \in Nat
    BY DEF TalkRow
  <1>2. \A i \in 1..Len(v.msgs) : v.msgs[i].id \in Nat /\ v.msgs[i].to \in Nat
    <2>1. \A i \in 1..Len(v.msgs) : v.msgs[i] \in MessageRow
      BY <1>1
    <2> QED
      BY <2>1 DEF MessageRow
  <1>3. IdsGrow(v.msgs, u)
    <2>1. \A i \in 1..Len(v.msgs) : v.msgs[i].id <= w /\ v.msgs[i].to <= w
      BY DEF TalkStands, IdsGrow
    <2>2. \A i \in 1..Len(v.msgs) : v.msgs[i].id <= u /\ v.msgs[i].to <= u
      BY <1>2, <2>1
    <2> QED
      BY <2>2 DEF TalkStands, IdsGrow
  <1>4. v.boundary <= u
    BY <1>1 DEF TalkStands
  <1> QED
    BY <1>3, <1>4 DEF TalkStands

\* A purge may tear what a reply answered from it, never something in between.
LEMMA KeptAnswers ==
    ASSUME NEW ms \in Seq(MessageRow), NEW w, IdsGrow(ms, w), Answered(ms), NEW s \in Seq(MessageRow),
           NEW h \in [1..Len(s) -> 1..Len(ms)], \A m \in 1..Len(s) : s[m] = ms[h[m]],
           \A m, n \in 1..Len(s) : m < n => h[m] < h[n]
    PROVE  IdsGrow(s, w) /\ Answered(s)
  <1>1. IdsGrow(s, w)
    BY DEF IdsGrow
  <1>2. \A m, n \in 1..Len(s) : h[m] = h[n] => m = n
    <2>1. SUFFICES ASSUME NEW m \in 1..Len(s), NEW n \in 1..Len(s), h[m] = h[n] PROVE m = n
      OBVIOUS
    <2>2. ~(h[m] < h[n]) /\ ~(h[n] < h[m]) /\ m \in Int /\ n \in Int
      BY <2>1
    <2>3. ~(m < n) /\ ~(n < m)
      BY <2>2
    <2> QED
      BY <2>2, <2>3
  <1>3. ASSUME NEW i \in 1..Len(s), s[i].role = "assistant"
        PROVE  /\ (\E j \in 1..Len(s) : s[j].id = s[i].to) => i > 1 /\ s[i - 1].id = s[i].to
               /\ \A j \in 1..Len(s) : s[j].role = "assistant" /\ s[j].to = s[i].to => j = i
    <2> DEFINE p == h[i]
    <2>1. p \in 1..Len(ms) /\ s[i] = ms[p]
      OBVIOUS
    <2> HIDE DEF p
    <2>2. /\ (\E j \in 1..Len(ms) : ms[j].id = ms[p].to) => p > 1 /\ ms[p - 1].id = ms[p].to
          /\ \A j \in 1..Len(ms) : ms[j].role = "assistant" /\ ms[j].to = ms[p].to => j = p
      BY <1>3, <2>1 DEF Answered
    <2>3. ASSUME NEW j \in 1..Len(s), s[j].id = s[i].to PROVE i > 1 /\ s[i - 1].id = s[i].to
      <3>1. h[j] \in 1..Len(ms) /\ s[j] = ms[h[j]]
        OBVIOUS
      <3>2. p > 1 /\ ms[p - 1].id = ms[h[j]].id
        BY <2>1, <2>2, <2>3, <3>1
      <3>3. p - 1 \in 1..Len(ms)
        BY <2>1, <3>2
      <3>4. h[j] = p - 1
        BY <3>1, <3>2, <3>3, IdsOf
      <3>5. j < i
        <4>1. ~(i < j) /\ i # j
          BY <2>1, <3>3, <3>4 DEF p
        <4>2. i \in Int /\ j \in Int
          OBVIOUS
        <4> QED
          BY <4>1, <4>2
      <3>6. j = i - 1
        <4>1. SUFFICES ASSUME j < i - 1 PROVE FALSE
          BY <3>5
        <4>2. i - 1 \in 1..Len(s) /\ i - 1 < i
          BY <3>5, <4>1
        <4>3. h[j] < h[i - 1] /\ h[i - 1] < h[i]
          BY <4>1, <4>2
        <4>4. h[i - 1] \in Int
          BY <4>2
        <4> QED
          BY <2>1, <3>4, <4>3, <4>4 DEF p
      <3> QED
        BY <2>3, <3>5, <3>6
    <2>4. ASSUME NEW j \in 1..Len(s), s[j].role = "assistant", s[j].to = s[i].to PROVE j = i
      <3>1. h[j] \in 1..Len(ms) /\ s[j] = ms[h[j]]
        OBVIOUS
      <3>2. h[j] = p
        BY <2>1, <2>2, <2>4, <3>1
      <3> QED
        BY <1>2, <3>2 DEF p
    <2> QED
      BY <2>3, <2>4
  <1>4. Answered(s)
    BY <1>3 DEF Answered
  <1> QED
    BY <1>1, <1>4

\* What a purge leaves of a conversation.
PurgedTalk(v, K) ==
    LET kept == H!Selected(v.msgs, K)
        cut  == v.boundary # 0 /\ ~\E i \in DOMAIN kept : kept[i].id = v.boundary
    IN  [v EXCEPT !.msgs = kept, !.boundary = IF cut THEN 0 ELSE @, !.torn = @ \/ Len(kept) # Len(v.msgs)]

\* It keeps the order of what is left, cuts a boundary that went, and says so.
LEMMA PurgeTalk ==
    ASSUME NEW v \in TalkRow, NEW w \in Nat, TalkStands(v, w), NEW K \in SUBSET (1..Len(v.msgs)),
           NEW r, r = PurgedTalk(v, K)
    PROVE  /\ r \in TalkRow /\ TalkStands(r, w) /\ r.st = v.st
           /\ \A i \in 1..Len(r.msgs) : \E j \in 1..Len(v.msgs) : r.msgs[i] = v.msgs[j]
           /\ ~r.torn => ~v.torn /\ r.msgs = v.msgs
  <1> DEFINE ms == v.msgs
             kept == H!Selected(ms, K)
             cut  == v.boundary # 0 /\ ~\E i \in DOMAIN kept : kept[i].id = v.boundary
             bd == IF cut THEN 0 ELSE v.boundary
  <1>1. /\ ms \in Seq(MessageRow) /\ v.boundary \in Nat /\ v.torn \in BOOLEAN /\ v.summary \in Seq(Nat) \cup {None}
        /\ v.st \in {"none", "active", "archived", "deleted"}
    BY DEF TalkRow
  <1>2. /\ kept \in Seq(MessageRow) /\ (Len(kept) = Len(ms) => kept = ms)
        /\ TakenFrom(kept, ms, K)
    BY <1>1, SelectedKeeps
  <1> HIDE DEF kept
  <1>3. PICK h \in [1..Len(kept) -> K] :
             /\ \A m \in 1..Len(kept) : kept[m] = ms[h[m]]
             /\ \A m, n \in 1..Len(kept) : m < n => h[m] < h[n]
    BY <1>2 DEF TakenFrom
  <1>4. h \in [1..Len(kept) -> 1..Len(ms)]
    BY <1>3
  <1>5. /\ r.msgs = kept /\ r.boundary = bd /\ (r.torn <=> v.torn \/ Len(kept) # Len(ms))
        /\ r.summary = v.summary /\ r.st = v.st
        /\ r = [st |-> v.st, msgs |-> kept, summary |-> v.summary, boundary |-> bd, torn |-> (v.torn \/ Len(kept) # Len(ms))]
    <2>1. v = [st |-> v.st, msgs |-> v.msgs, summary |-> v.summary, boundary |-> v.boundary, torn |-> v.torn]
      BY DEF TalkRow
    <2>2. r = [st |-> v.st, msgs |-> kept, summary |-> v.summary, boundary |-> bd, torn |-> (v.torn \/ Len(kept) # Len(ms))]
      BY <2>1, Zenon DEF PurgedTalk, kept
    <2> DEFINE tn == v.torn \/ Len(kept) # Len(ms)
    <2> HIDE DEF bd, tn
    <2>3. r = [st |-> v.st, msgs |-> kept, summary |-> v.summary, boundary |-> bd, torn |-> tn]
      BY <2>2 DEF tn
    <2>4. r.msgs = kept /\ r.boundary = bd /\ r.torn = tn /\ r.summary = v.summary /\ r.st = v.st
      BY <2>3
    <2> QED
      BY <2>2, <2>4 DEF tn
  <1>6. bd \in Nat /\ bd <= w /\ r \in TalkRow
    <2>1. bd \in Nat /\ bd <= w
      <3>1. v.boundary <= w
        BY DEF TalkStands
      <3> QED
        BY <1>1, <3>1
    <2>2. (v.torn \/ Len(kept) # Len(ms)) \in BOOLEAN
      BY <1>1
    <2> HIDE DEF bd
    <2> QED
      BY <1>1, <1>2, <1>5, <2>1, <2>2 DEF TalkRow
  <1>7. ASSUME NEW m \in 1..Len(kept)
        PROVE  /\ h[m] \in 1..Len(ms) /\ kept[m] = ms[h[m]]
               /\ H!Ids(kept)[m] = kept[m].id /\ H!Ids(ms)[h[m]] = kept[m].id /\ kept[m].id # 0
    <2>1. h[m] \in 1..Len(ms) /\ kept[m] = ms[h[m]]
      BY <1>3, <1>4
    <2> QED
      BY <1>1, <1>2, <2>1, IdsOf
  <1>8. H!Ids(kept) \in Seq(Nat) /\ Len(H!Ids(kept)) = Len(kept) /\ Len(H!Ids(ms)) = Len(ms)
    BY <1>1, <1>2, IdsOf
  <1>9. IdsGrow(kept, w) /\ Answered(kept)
    <2>1. IdsGrow(ms, w) /\ Answered(ms)
      BY DEF TalkStands
    <2> QED
      BY <1>1, <1>2, <1>3, <1>4, <2>1, KeptAnswers
  <1>10. SummaryCovers(H!Ids(kept), v.summary, bd)
    <2>1. SUFFICES ASSUME NEW k \in 1..Len(kept), H!Ids(kept)[k] = bd,
                          NEW j \in 1..k
                   PROVE  \E n \in 1..Len(Told(v.summary)) : Told(v.summary)[n] = H!Ids(kept)[j]
      BY <1>8 DEF SummaryCovers, Tells
    <2>2. bd = v.boundary /\ H!Ids(ms)[h[k]] = v.boundary /\ h[k] \in 1..Len(ms)
      BY <1>7, <2>1
    <2>3. Tells(Told(v.summary), H!Ids(ms), h[k])
      <3>1. SummaryCovers(H!Ids(ms), v.summary, v.boundary)
        BY DEF TalkStands, SummaryStands
      <3> QED
        BY <1>8, <2>2, <3>1 DEF SummaryCovers
    <2>4. j \in 1..Len(kept) /\ (j = k \/ j < k)
      BY <2>1
    <2>5. h[j] \in 1..h[k]
      <3>1. h[j] \in 1..Len(ms) /\ (j < k => h[j] < h[k])
        BY <1>3, <1>7, <2>4
      <3> QED
        BY <2>2, <2>4, <3>1
    <2> QED
      BY <1>7, <2>3, <2>4, <2>5 DEF Tells
  <1>11. ASSUME ~r.torn PROVE ~v.torn /\ kept = ms /\ SummaryExact(H!Ids(ms), v.summary, bd) /\ RepeatsNone(ms)
    <2>1. ~v.torn /\ kept = ms
      BY <1>2, <1>5, <1>11
    <2>2. SummaryExact(H!Ids(ms), v.summary, v.boundary) /\ RepeatsNone(ms)
      BY <2>1 DEF TalkStands, SummaryStands
    <2>3. PICK k \in 0..Len(ms) : v.boundary = IF k = 0 THEN 0 ELSE H!Ids(ms)[k]
      BY <1>8, <2>2 DEF SummaryExact
    <2>4. ~cut
      <3>1. CASE k = 0
        BY <2>3, <3>1
      <3>2. CASE k # 0
        <4>1. k \in 1..Len(ms)
          BY <2>3, <3>2
        <4>2. k \in DOMAIN kept /\ kept[k].id = v.boundary
          BY <1>1, <2>1, <2>3, <3>2, <4>1, IdsOf
        <4> QED
          BY <4>2
      <3> QED
        BY <3>1, <3>2
    <2> QED
      BY <2>1, <2>2, <2>4
  <1> HIDE DEF bd
  <1>12. SummaryStands(r)
    BY <1>5, <1>10, <1>11 DEF SummaryStands
  <1>13. TalkStands(r, w)
    BY <1>5, <1>6, <1>9, <1>11, <1>12 DEF TalkStands
  <1>14. \A i \in 1..Len(r.msgs) : \E j \in 1..Len(v.msgs) : r.msgs[i] = v.msgs[j]
    BY <1>5, <1>7
  <1> QED
    BY <1>5, <1>6, <1>11, <1>13, <1>14

\* A message written at the end.
LEMMA AddMessage ==
    ASSUME NEW v \in TalkRow, NEW w \in Nat, TalkStands(v, w), NEW x \in MessageRow, x.id = w + 1, x.to <= w,
           x.role = "user" /\ ~v.torn => ~Repeats(v.msgs, x.text),
           x.role = "assistant" => Unanswered(v.msgs, x.to),
           NEW r \in TalkRow, r.msgs = Append(v.msgs, x), r.summary = v.summary, r.boundary = v.boundary, r.torn = v.torn
    PROVE  TalkStands(r, w + 1)
  <1> DEFINE ms == v.msgs
             s == Append(v.msgs, x)
  <1>0. PICK l \in Nat : l = Len(ms)
    BY DEF TalkRow
  <1>1. ms \in Seq(MessageRow) /\ v.boundary \in Nat /\ x.id \in Nat /\ x.to \in Nat /\ x.role \in {"user", "assistant"}
    BY DEF TalkRow, MessageRow
  <1>2. s \in Seq(MessageRow) /\ Len(s) = l + 1 /\ s[l + 1] = x /\ \A i \in 1..l : s[i] = ms[i]
    BY <1>0, <1>1
  <1>3. \A i \in 1..l : ms[i].id \in Nat /\ ms[i].to \in Nat /\ ms[i].id <= w /\ ms[i].to <= w
    <2>1. \A i \in 1..l : ms[i] \in MessageRow
      BY <1>0, <1>1
    <2> QED
      BY <1>0, <2>1 DEF TalkStands, IdsGrow, MessageRow
  <1>4. \A i \in 1..(l + 1) : i \in 1..l \/ i = l + 1
    OBVIOUS
  <1>41. \A i \in 1..l : i < l + 1 /\ i # l + 1
    OBVIOUS
  <1> HIDE DEF s
  <1>5. IdsGrow(s, w + 1)
    <2>1. ASSUME NEW i \in 1..(l + 1), NEW j \in 1..(l + 1), i < j PROVE s[i].id < s[j].id
      <3>1. i \in 1..l
        BY <2>1
      <3>2. CASE j \in 1..l
        BY <1>0, <1>2, <2>1, <3>1, <3>2 DEF TalkStands, IdsGrow
      <3>3. CASE j = l + 1
        <4>1. s[i].id \in Nat /\ s[i].id <= w /\ s[j].id = w + 1
          BY <1>2, <1>3, <3>1, <3>3
        <4> QED
          BY <4>1
      <3> QED
        BY <1>4, <3>2, <3>3
    <2>2. ASSUME NEW i \in 1..(l + 1) PROVE s[i].id <= w + 1 /\ s[i].to <= w + 1
      <3>1. CASE i \in 1..l
        BY <1>2, <1>3, <3>1
      <3>2. CASE i = l + 1
        BY <1>1, <1>2, <3>2
      <3> QED
        BY <1>4, <3>1, <3>2
    <2> QED
      BY <1>2, <2>1, <2>2 DEF IdsGrow
  <1>6. Answered(s)
    <2>0. /\ \A i \in 1..l : ms[i].role = "assistant" =>
               /\ (\E j \in 1..l : ms[j].id = ms[i].to) => i > 1 /\ ms[i - 1].id = ms[i].to
               /\ \A j \in 1..l : ms[j].role = "assistant" /\ ms[j].to = ms[i].to => j = i
          /\ \A i, j \in 1..l : i < j => ms[i].id < ms[j].id
      BY <1>0 DEF TalkStands, Answered, IdsGrow
    <2>1. ASSUME NEW i \in 1..(l + 1), s[i].role = "assistant", NEW j \in 1..(l + 1), s[j].id = s[i].to
          PROVE  i > 1 /\ s[i - 1].id = s[i].to
      <3>1. s[i].to <= w
        BY <1>2, <1>3, <1>4
      <3>2. j \in 1..l
        BY <1>1, <1>2, <1>4, <2>1, <3>1
      <3>3. CASE i \in 1..l
        <4>1. i > 1 /\ ms[i - 1].id = ms[i].to
          BY <1>2, <2>0, <2>1, <3>2, <3>3
        <4>2. i - 1 \in 1..l
          BY <4>1
        <4> QED
          BY <1>2, <3>3, <4>1, <4>2
      <3>4. CASE i = l + 1
        <4>1. l \in 1..l /\ ms[l].id <= x.to /\ i - 1 = l
          BY <1>0, <1>2, <2>1, <3>2, <3>4 DEF Unanswered
        <4>2. j = l
          <5>1. SUFFICES ASSUME j < l PROVE FALSE
            BY <3>2
          <5>2. ms[j].id < ms[l].id
            BY <2>0, <3>2, <4>1, <5>1
          <5>3. ms[j].id = x.to
            BY <1>2, <2>1, <3>2, <3>4
          <5> QED
            BY <1>1, <1>3, <3>2, <4>1, <5>2, <5>3
        <4> QED
          BY <1>2, <2>1, <3>4, <4>1, <4>2
      <3> QED
        BY <1>4, <3>3, <3>4
    <2>2. ASSUME NEW i \in 1..(l + 1), s[i].role = "assistant", NEW j \in 1..(l + 1), s[j].role = "assistant", s[j].to = s[i].to
          PROVE  j = i
      <3>1. \A n \in 1..l : x.role = "assistant" => ~(ms[n].role = "assistant" /\ ms[n].to = x.to)
        BY <1>0 DEF Unanswered
      <3>2. CASE i \in 1..l /\ j \in 1..l
        BY <1>2, <2>0, <2>2, <3>2
      <3>3. CASE i \in 1..l /\ j = l + 1
        BY <1>2, <2>2, <3>1, <3>3
      <3>4. CASE j \in 1..l /\ i = l + 1
        BY <1>2, <2>2, <3>1, <3>4
      <3> QED
        BY <1>4, <3>2, <3>3, <3>4
    <2> QED
      BY <1>2, <2>1, <2>2 DEF Answered
  <1>7. ASSUME ~v.torn PROVE RepeatsNone(s)
    <2>1. SUFFICES ASSUME NEW i \in 1..l, s[i].role = "user", s[i + 1].role = "user" PROVE s[i].text # s[i + 1].text
      BY <1>2 DEF RepeatsNone
    <2>2. CASE i < l
      <3>1. i \in 1..(l - 1) /\ i + 1 \in 1..l
        BY <2>2
      <3>2. RepeatsNone(ms)
        BY <1>7 DEF TalkStands
      <3> QED
        BY <1>0, <1>2, <2>1, <3>1, <3>2 DEF RepeatsNone
    <2>3. CASE i = l
      <3>0. i + 1 = l + 1 /\ l \in 1..l /\ Len(ms) # 0
        BY <1>0, <2>1, <2>3
      <3>1. s[i] = ms[l] /\ s[i + 1] = x /\ ms # << >>
        BY <1>1, <1>2, <2>3, <3>0
      <3>2. ~Repeats(ms, x.text)
        BY <1>7, <2>1, <3>1
      <3> QED
        BY <1>0, <2>1, <3>1, <3>2 DEF Repeats
    <2> QED
      BY <2>2, <2>3
  <1> DEFINE is == H!Ids(ms)
             it == H!Ids(s)
  <1>8. /\ is \in Seq(Nat) /\ Len(is) = l /\ it \in Seq(Nat) /\ Len(it) = l + 1
        /\ (\A i \in 1..l : it[i] = is[i]) /\ it[l + 1] = w + 1
    <2>1. is \in Seq(Nat) /\ Len(is) = l /\ \A i \in 1..l : is[i] = ms[i].id
      BY <1>0, <1>1, IdsOf
    <2>2. it \in Seq(Nat) /\ Len(it) = l + 1 /\ \A i \in 1..(l + 1) : it[i] = s[i].id
      BY <1>2, IdsOf
    <2>3. l + 1 \in 1..(l + 1) /\ \A i \in 1..l : i \in 1..(l + 1)
      OBVIOUS
    <2> QED
      BY <1>2, <2>1, <2>2, <2>3
  <1> HIDE DEF is, it
  <1>9. v.boundary <= w
    BY DEF TalkStands
  <1>10. SummaryCovers(it, v.summary, v.boundary)
    <2>1. SUFFICES ASSUME NEW k \in 1..(l + 1), it[k] = v.boundary, NEW j \in 1..k
                   PROVE  \E n \in 1..Len(Told(v.summary)) : Told(v.summary)[n] = it[j]
      BY <1>8 DEF SummaryCovers, Tells
    <2>2. k \in 1..l
      BY <1>1, <1>4, <1>8, <1>9, <2>1
    <2>3. SummaryCovers(is, v.summary, v.boundary)
      BY DEF TalkStands, SummaryStands, is
    <2>4. j \in 1..l
      BY <2>2
    <2> QED
      BY <1>8, <2>1, <2>2, <2>3, <2>4 DEF SummaryCovers, Tells
  <1>11. ASSUME ~v.torn PROVE SummaryExact(it, v.summary, v.boundary)
    <2>1. SummaryExact(is, v.summary, v.boundary)
      BY <1>11 DEF TalkStands, SummaryStands, is
    <2>2. PICK k \in 0..l : Told(v.summary) = SubSeq(is, 1, k) /\ v.boundary = IF k = 0 THEN 0 ELSE is[k]
      BY <1>8, <2>1 DEF SummaryExact
    <2>3. SubSeq(is, 1, k) = SubSeq(it, 1, k)
      <3>1. k \in Nat /\ k <= Len(is) /\ k <= Len(it)
        BY <1>8, <2>2
      <3>2. SubSeq(is, 1, k) \in Seq(Nat) /\ Len(SubSeq(is, 1, k)) = k /\ \A i \in 1..k : SubSeq(is, 1, k)[i] = is[i]
        BY <1>8, <3>1, Prefixes
      <3>3. SubSeq(it, 1, k) \in Seq(Nat) /\ Len(SubSeq(it, 1, k)) = k /\ \A i \in 1..k : SubSeq(it, 1, k)[i] = it[i]
        BY <1>8, <3>1, Prefixes
      <3>4. \A i \in 1..k : i \in 1..l
        BY <2>2
      <3>5. \A i \in 1..k : SubSeq(is, 1, k)[i] = SubSeq(it, 1, k)[i]
        BY <1>8, <3>2, <3>3, <3>4
      <3> QED
        BY <3>2, <3>3, <3>5, SeqSame
    <2>4. v.boundary = IF k = 0 THEN 0 ELSE it[k]
      <3>1. k # 0 => k \in 1..l
        BY <2>2
      <3> QED
        BY <1>8, <2>2, <3>1
    <2>5. k \in 0..(l + 1) /\ (k = 0 \/ k < l + 1)
      BY <2>2
    <2> QED
      BY <1>8, <2>2, <2>3, <2>4, <2>5 DEF SummaryExact
  <1>12. SummaryStands(r)
    BY <1>10, <1>11 DEF SummaryStands, s, it
  <1>13. r.boundary <= w + 1
    BY <1>1, <1>9
  <1> QED
    BY <1>5, <1>6, <1>7, <1>12, <1>13 DEF TalkStands, s

\* One turn's row is written.
LEMMA TurnRows ==
    ASSUME ChatType, NEW t \in H!Turns, NEW r \in TurnRow, turn' = [turn EXCEPT ![t] = r]
    PROVE  turn' \in [H!Turns -> TurnRow] /\ turn'[t] = r /\ \A u \in H!Turns : u # t => turn'[u] = turn[u]
  BY DEF ChatType

\* One conversation's row is written.
LEMMA TalkRows ==
    ASSUME ChatType, NEW c \in H!ConvIds, NEW v \in TalkRow, conv' = [conv EXCEPT ![c] = v]
    PROVE  conv' \in [H!ConvIds -> TalkRow] /\ conv'[c] = v /\ \A d \in H!ConvIds : d # c => conv'[d] = conv[d]
  BY DEF ChatType

\* The rows a turn may end or start with.
LEMMA NewTurnRow ==
    /\ H!NoTurn \in TurnRow /\ H!NoTurn.pc = "idle"
    /\ \A p \in {"ended", "lost"} : [H!NoTurn EXCEPT !.pc = p] \in TurnRow /\ [H!NoTurn EXCEPT !.pc = p].pc = p
  <1>1. << >> \in Seq(Nat) /\ 0 \in Nat
    OBVIOUS
  <1>2. H!NoTurn \in TurnRow /\ H!NoTurn.pc = "idle"
    BY <1>1 DEF H!NoTurn, TurnRow
  <1>3. ASSUME NEW p \in {"ended", "lost"} PROVE [H!NoTurn EXCEPT !.pc = p] \in TurnRow /\ [H!NoTurn EXCEPT !.pc = p].pc = p
    BY <1>1 DEF H!NoTurn, TurnRow
  <1> QED
    BY <1>2, <1>3

\* The rows of a conversation that starts or was deleted.
LEMMA NewTalkRow ==
    \A s \in {"none", "active", "archived", "deleted"} :
        LET v == [H!NoConv EXCEPT !.st = s] IN
        v \in TalkRow /\ v.st = s /\ v.msgs = << >> /\ v.summary = None /\ v.boundary = 0 /\ v.torn = FALSE
  <1>1. << >> \in Seq(MessageRow) /\ 0 \in Nat /\ FALSE \in BOOLEAN
    OBVIOUS
  <1> DEFINE empty == << >>
             no == FALSE
  <1>0. H!NoConv = [st |-> "none", msgs |-> empty, summary |-> None, boundary |-> 0, torn |-> no]
    BY Zenon DEF H!NoConv
  <1> HIDE DEF empty, no
  <1>2. ASSUME NEW s \in {"none", "active", "archived", "deleted"}
        PROVE  [H!NoConv EXCEPT !.st = s] = [st |-> s, msgs |-> empty, summary |-> None, boundary |-> 0, torn |-> no]
    BY <1>0
  <1>3. ASSUME NEW s \in {"none", "active", "archived", "deleted"}
        PROVE  [st |-> s, msgs |-> empty, summary |-> None, boundary |-> 0, torn |-> no] \in TalkRow
    BY <1>1 DEF TalkRow, empty, no
  <1> QED
    BY <1>2, <1>3 DEF empty, no

\* The chosen active conversation is one.
LEMMA NewestActive == H!Active # {} => H!Max(H!Active) \in H!Active /\ H!Max(H!Active) \in H!ConvIds
  <1>1. SUFFICES ASSUME H!Active # {} PROVE H!Max(H!Active) \in H!Active /\ H!Max(H!Active) \in H!ConvIds
    OBVIOUS
  <1>2. H!Active \in SUBSET H!ConvIds
    BY DEF H!Active
  <1>3. H!Active \in SUBSET Nat /\ MaxConversations + NTurns \in Nat /\ \A c \in H!Active : c <= MaxConversations + NTurns
    BY <1>2, ChatFacts
  <1>4. \E c \in H!Active : \A d \in H!Active : d <= c
    BY <1>1, <1>3, LargestNat
  <1>5. \E c \in H!Active : \A d \in H!Active : c >= d
    BY <1>3, <1>4
  <1>6. H!Max(H!Active) \in H!Active
    BY <1>5 DEF H!Max
  <1> QED
    BY <1>2, <1>6

\* Nothing was said yet.
LEMMA ChatInit == H!Init => ChatInv
  <1>1. SUFFICES ASSUME H!Init PROVE ChatInv
    OBVIOUS
  <1>2. /\ conv = [c \in H!ConvIds |-> H!NoConv] /\ turn = [t \in H!Turns |-> H!NoTurn]
        /\ chat = [t \in H!Turns |-> "none"] /\ loop = None /\ written = 0 /\ convs = 0
    BY <1>1 DEF H!Init
  <1>3. H!NoConv \in TalkRow /\ H!NoConv.msgs = << >> /\ H!NoConv.boundary = 0 /\ H!NoConv.summary = None
    BY DEF H!NoConv, TalkRow
  <1>4. ChatType
    BY <1>2, <1>3, NewTurnRow DEF ChatType
  <1>5. TalksStand
    BY <1>2, <1>3, EmptyTalk DEF TalksStand
  <1>6. LoopHeld /\ OneJobRuns /\ TurnsInOrder /\ TurnsStand
    BY <1>2, NewTurnRow, ChatFacts DEF LoopHeld, OneJobRuns, TurnsInOrder, TurnsStand
  <1>7. RoomForTurns
    BY <1>2, ChatFacts DEF RoomForTurns
  <1> QED
    BY <1>4, <1>5, <1>6, <1>7 DEF ChatInv

\* Turns and jobs end; nothing else changes.
Ends ==
    /\ UNCHANGED <<conv, written, convs>>
    /\ \A t \in H!Turns : \/ turn'[t] = turn[t]
                          \/ turn[t].pc = "idle" /\ turn'[t].pc = "idle"
                          \/ turn[t].pc # "idle" /\ turn'[t].pc \in {"ended", "lost"}
    /\ \A t \in H!Turns : chat'[t] = "running" => chat[t] = "running"
    /\ loop' \in {loop, None}

\* It leaves the invariant.
LEMMA EndsKeep == ASSUME ChatInv, Ends, ChatType', LoopHeld' PROVE ChatInv'
  <1>1. TalksStand'
    BY DEF ChatInv, TalksStand, Ends
  <1>2. OneJobRuns'
    BY DEF ChatInv, OneJobRuns, Ends
  <1>3. \A t \in H!Turns : turn'[t].pc = "idle" <=> turn[t].pc = "idle"
    BY DEF Ends
  <1>4. TurnsInOrder'
    BY <1>3 DEF ChatInv, TurnsInOrder
  <1>5. RoomForTurns'
    <2>1. \A t \in H!Turns : turn'[t].pc = "admitted" => turn[t].pc = "admitted"
      BY DEF Ends
    <2> QED
      BY <1>3, <2>1 DEF ChatInv, RoomForTurns, Ends
  <1>6. TurnsStand'
    <2>1. \A t \in H!Turns : turn'[t].pc \in {"running", "prepared"} => turn'[t] = turn[t]
      BY DEF Ends
    <2>2. ASSUME NEW t \in H!Turns, turn'[t].pc = "running" /\ chat'[t] = "running" PROVE AnswersNewest(turn[t])'
      <3>1. turn'[t] = turn[t] /\ chat[t] = "running"
        BY <2>1, <2>2 DEF Ends
      <3>2. AnswersNewest(turn[t])
        BY <2>2, <3>1 DEF ChatInv, TurnsStand
      <3> QED
        BY <3>1, <3>2 DEF AnswersNewest, Ends
    <2>3. ASSUME NEW t \in H!Turns, turn'[t].pc = "prepared" PROVE (FindsHistory(turn[t]) /\ SendsAll(turn[t]))'
      <3>1. turn'[t] = turn[t]
        BY <2>1, <2>3
      <3>2. FindsHistory(turn[t]) /\ SendsAll(turn[t])
        BY <2>3, <3>1 DEF ChatInv, TurnsStand
      <3>3. FindsHistory(turn[t])'
        BY <3>1, <3>2 DEF FindsHistory, Ends
      <3>4. SendsAll(turn[t])'
        BY <3>1, <3>2 DEF SendsAll
      <3> QED
        BY <3>3, <3>4
    <2> QED
      BY <2>2, <2>3 DEF TurnsStand
  <1> QED
    BY <1>1, <1>2, <1>4, <1>5, <1>6 DEF ChatInv

\* What ends a turn's preparation, the turn or its job.
LEMMA TurnEnds ==
    ASSUME ChatInv, NEW t \in H!Turns,
           turn[t].pc # "idle", NEW p \in {"ended", "lost"}, turn' = [turn EXCEPT ![t] = [H!NoTurn EXCEPT !.pc = p]],
           chat' = chat \/ chat' = [chat EXCEPT ![t] = "over"],
           IF turn[t].pc = "running" THEN loop' = loop ELSE loop = t /\ loop' = None,
           UNCHANGED <<conv, convs, written>>
    PROVE  ChatInv'
  <1> DEFINE r == [H!NoTurn EXCEPT !.pc = p]
  <1>0. ChatType /\ LoopHeld
    BY DEF ChatInv
  <1>1. r \in TurnRow /\ r.pc = p /\ turn' = [turn EXCEPT ![t] = r]
    BY NewTurnRow
  <1> HIDE DEF r
  <1>2. turn' \in [H!Turns -> TurnRow] /\ turn'[t] = r /\ \A u \in H!Turns : u # t => turn'[u] = turn[u]
    BY <1>0, <1>1, TurnRows
  <1>3. /\ chat' \in [H!Turns -> {"none", "running", "over"}]
        /\ \A u \in H!Turns : chat'[u] = "running" => chat[u] = "running"
    BY <1>0 DEF ChatType
  <1>4. ChatType' /\ loop' \in {loop, None}
    BY <1>0, <1>2, <1>3 DEF ChatType
  <1>5. LoopHeld'
    <2>1. SUFFICES ASSUME NEW u \in H!Turns PROVE turn'[u].pc \in {"admitted", "prepared"} <=> loop' = u
      BY DEF LoopHeld
    <2>2. turn[u].pc \in {"admitted", "prepared"} <=> loop = u
      BY <1>0 DEF LoopHeld
    <2>3. turn[t].pc \in {"admitted", "prepared"} <=> loop = t
      BY <1>0 DEF LoopHeld
    <2>4. loop' # None => loop' = loop /\ turn[t].pc = "running"
      BY <1>4
    <2>5. CASE u = t
      <3>1. turn'[u].pc = p
        BY <1>1, <1>2, <2>5
      <3> QED
        BY <2>3, <2>5, <3>1, ChatFacts
    <2>6. CASE u # t
      BY <1>2, <2>2, <2>6, ChatFacts
    <2> QED
      BY <2>5, <2>6
  <1>6. Ends
    <2>1. \A u \in H!Turns : turn'[u] = turn[u] \/ (turn[u].pc # "idle" /\ turn'[u].pc \in {"ended", "lost"})
      BY <1>1, <1>2
    <2> QED
      BY <1>3, <1>4, <2>1 DEF Ends
  <1> QED
    BY <1>4, <1>5, <1>6, EndsKeep

\* Only jobs end, or nothing that is looked at changes.
LEMMA JobEnds ==
    ASSUME ChatInv, UNCHANGED <<conv, convs, written, turn, loop>>,
           chat' \in [H!Turns -> {"none", "running", "over"}],
           \A u \in H!Turns : chat'[u] = "running" => chat[u] = "running"
    PROVE  ChatInv'
  <1>1. ChatType' /\ LoopHeld'
    BY DEF ChatInv, ChatType, LoopHeld
  <1>2. Ends
    BY DEF Ends
  <1> QED
    BY <1>1, <1>2, EndsKeep

\* A turn that cannot be set up or fails.
LEMMA SetupEnds ==
    ASSUME ChatInv, NEW t \in H!Turns PROVE (H!SetupFails(t) \/ H!SetupLost(t) \/ H!TurnFails(t)) => ChatInv'
  <1>1. CASE H!SetupFails(t)
    <2>1. /\ turn[t].pc # "idle" /\ turn' = [turn EXCEPT ![t] = [H!NoTurn EXCEPT !.pc = "ended"]]
          /\ chat' = [chat EXCEPT ![t] = "over"] /\ turn[t].pc # "running" /\ loop = t /\ loop' = None
          /\ UNCHANGED <<conv, convs, written>>
      BY <1>1 DEF H!SetupFails, H!FailJob
    <2> QED
      BY <2>1, TurnEnds
  <1>2. CASE H!SetupLost(t)
    <2>1. /\ turn[t].pc # "idle" /\ turn' = [turn EXCEPT ![t] = [H!NoTurn EXCEPT !.pc = "lost"]]
          /\ chat' = chat /\ turn[t].pc # "running" /\ loop = t /\ loop' = None
          /\ UNCHANGED <<conv, convs, written>>
      BY <1>2 DEF H!SetupLost
    <2> QED
      BY <2>1, TurnEnds
  <1>3. CASE H!TurnFails(t)
    <2>1. /\ turn[t].pc # "idle" /\ turn' = [turn EXCEPT ![t] = [H!NoTurn EXCEPT !.pc = "ended"]]
          /\ chat' = [chat EXCEPT ![t] = "over"] /\ turn[t].pc = "running" /\ loop' = loop
          /\ UNCHANGED <<conv, convs, written>>
      BY <1>3 DEF H!TurnFails, H!FailJob, H!Ended
    <2> QED
      BY <2>1, TurnEnds
  <1> QED
    BY <1>1, <1>2, <1>3

\* A job is cancelled, reaped or ended by the restart.
LEMMA JobGone ==
    ASSUME ChatInv PROVE ((\E t \in H!Turns : H!CancelJob(t) \/ H!Reap(t)) \/ H!Restart) => ChatInv'
  <1>0. chat \in [H!Turns -> {"none", "running", "over"}]
    BY DEF ChatInv, ChatType
  <1>1. ASSUME NEW t \in H!Turns, H!CancelJob(t) \/ H!Reap(t) PROVE ChatInv'
    <2>1. chat' = [chat EXCEPT ![t] = "over"] /\ UNCHANGED <<conv, convs, written, turn, loop>>
      BY <1>1 DEF H!CancelJob, H!Reap
    <2> QED
      BY <1>0, <2>1, JobEnds
  <1>2. CASE H!Restart
    <2>1. /\ chat' = [t \in H!Turns |-> IF chat[t] = "running" THEN "over" ELSE chat[t]]
          /\ UNCHANGED <<conv, convs, written, turn, loop>>
      BY <1>2 DEF H!Restart, H!FailTurnsEndedByRestart
    <2> QED
      BY <1>0, <2>1, JobEnds
  <1> QED
    BY <1>1, <1>2

\* Every turn ends with the process.
LEMMA CrashKeeps == ASSUME ChatInv, H!Crash PROVE ChatInv'
  <1>1. /\ turn' = [t \in H!Turns |-> IF turn[t].pc = "idle" THEN H!NoTurn ELSE [H!NoTurn EXCEPT !.pc = "ended"]]
        /\ loop' = None /\ UNCHANGED <<conv, convs, written, chat>>
    BY DEF H!Crash
  <1>21. \A t \in H!Turns : turn'[t] \in TurnRow
    BY <1>1, NewTurnRow
  <1>3. turn' \in [H!Turns -> TurnRow]
    BY <1>1, <1>21
  <1>4. ChatType'
    BY <1>1, <1>3 DEF ChatInv, ChatType
  <1>5. LoopHeld'
    <2>1. \A t \in H!Turns : turn'[t].pc \notin {"admitted", "prepared"}
      BY <1>1, NewTurnRow
    <2> QED
      BY <1>1, <2>1, ChatFacts DEF LoopHeld
  <1>6. Ends
    BY <1>1, NewTurnRow DEF Ends
  <1> QED
    BY <1>4, <1>5, <1>6, EndsKeep

\* A turn is admitted when no other runs.
LEMMA SendKeeps == ASSUME ChatInv, NEW t \in H!Turns, H!Send(t) PROVE ChatInv'
  <1>0. ChatType /\ TalksStand /\ LoopHeld /\ OneJobRuns /\ TurnsInOrder /\ RoomForTurns /\ TurnsStand
    BY DEF ChatInv
  <1>1. PICK text \in Texts, a \in Songs \cup {None} :
          turn' = [turn EXCEPT ![t].pc = "admitted", ![t].text = text, ![t].about = a]
    BY DEF H!Send
  <1>2. /\ loop = None /\ turn[t].pc = "idle" /\ (t > 1 => turn[t - 1].pc # "idle")
        /\ \A u \in H!Turns : chat[u] # "running"
        /\ chat' = [chat EXCEPT ![t] = "running"] /\ loop' = t /\ UNCHANGED <<conv, convs, written>>
    BY DEF H!Send, H!AnotherTurnRuns, H!Running
  <1> DEFINE r == [turn[t] EXCEPT !.pc = "admitted", !.text = text, !.about = a]
  <1>3. r \in TurnRow /\ r.pc = "admitted" /\ turn' = [turn EXCEPT ![t] = r]
    <2>1. turn[t] \in TurnRow
      BY <1>0 DEF ChatType
    <2>2. r \in TurnRow
      BY <1>1, <2>1 DEF TurnRow
    <2>3. r.pc = "admitted"
      BY <2>1 DEF TurnRow
    <2> QED
      BY <1>1, <2>2, <2>3
  <1> HIDE DEF r
  <1>4. turn' \in [H!Turns -> TurnRow] /\ turn'[t] = r /\ \A u \in H!Turns : u # t => turn'[u] = turn[u]
    BY <1>0, <1>3, TurnRows
  <1>5. /\ chat' \in [H!Turns -> {"none", "running", "over"}] /\ chat'[t] = "running"
        /\ \A u \in H!Turns : u # t => chat'[u] = chat[u]
    BY <1>0, <1>2 DEF ChatType
  <1>6. ChatType'
    BY <1>0, <1>2, <1>4, <1>5 DEF ChatType
  <1>7. LoopHeld'
    BY <1>0, <1>2, <1>3, <1>4, ChatFacts DEF LoopHeld
  <1>8. OneJobRuns'
    BY <1>2, <1>5 DEF OneJobRuns
  <1>9. TurnsInOrder'
    <2>1. ASSUME NEW u \in H!Turns, turn[u].pc = "idle", u # t PROVE t < u
      <3>1. t \in 1..NTurns /\ u \in 1..NTurns
        BY ChatFacts
      <3>2. t > 1 => t - 1 \in H!Turns /\ t - 1 < u
        <4>1. t > 1 => t - 1 \in H!Turns
          BY <3>1, ChatFacts
        <4> QED
          BY <1>0, <1>2, <2>1, <4>1 DEF TurnsInOrder
      <3> QED
        BY <2>1, <3>1, <3>2, ChatFacts
    <2> QED
      BY <1>0, <1>2, <1>3, <1>4, <2>1 DEF TurnsInOrder
  <1>10. RoomForTurns'
    BY <1>0, <1>2, <1>3, <1>4 DEF RoomForTurns
  <1>11. TurnsStand'
    <2>1. \A u \in H!Turns : ~(turn'[u].pc = "running" /\ chat'[u] = "running")
      BY <1>2, <1>3, <1>4, <1>5
    <2>2. \A u \in H!Turns : turn'[u].pc # "prepared"
      <3>1. \A u \in H!Turns : turn[u].pc # "prepared"
        BY <1>0, <1>2, ChatFacts DEF LoopHeld
      <3> QED
        BY <1>3, <1>4, <3>1
    <2> QED
      BY <2>1, <2>2 DEF TurnsStand
  <1>12. TalksStand'
    BY <1>0, <1>2 DEF TalksStand
  <1> QED
    BY <1>6, <1>7, <1>8, <1>9, <1>10, <1>11, <1>12 DEF ChatInv

\* A prepared turn starts.
LEMMA TurnStarts ==
    ASSUME ChatInv, NEW t \in H!Turns, loop = t, turn[t].pc = "prepared", loop' = None, NEW m \in Nat,
           turn' = [turn EXCEPT ![t] = [H!NoTurn EXCEPT !.pc = "running", !.conv = turn[t].conv,
                                                        !.about = turn[t].about, !.msg = m]],
           UNCHANGED <<chat, convs>>, written' \in Nat, m <= written', TalksStand',
           conv' \in [H!ConvIds -> TalkRow], Unanswered(conv'[turn[t].conv].msgs, m)
    PROVE  ChatInv'
  <1>0. ChatType /\ TalksStand /\ LoopHeld /\ OneJobRuns /\ TurnsInOrder /\ RoomForTurns /\ TurnsStand
    BY DEF ChatInv
  <1>1. turn[t] \in TurnRow /\ turn[t].conv \in H!ConvIds
    BY <1>0 DEF ChatType, TurnsStand, FindsHistory
  <1> DEFINE r == [H!NoTurn EXCEPT !.pc = "running", !.conv = turn[t].conv, !.about = turn[t].about, !.msg = m]
  <1>2. r \in TurnRow /\ r.pc = "running" /\ r.conv = turn[t].conv /\ r.msg = m
    <2>1. turn[t].about \in Songs \cup {None}
      BY <1>1 DEF TurnRow
    <2> QED
      <3>1. PICK c \in H!ConvIds, a \in Songs \cup {None} : c = turn[t].conv /\ a = turn[t].about
        BY <1>1, <2>1
      <3>2. << >> \in Seq(Nat)
        OBVIOUS
      <3>3. [H!NoTurn EXCEPT !.pc = "running", !.conv = c, !.about = a, !.msg = m] \in TurnRow
        BY <3>2 DEF H!NoTurn, TurnRow
      <3>4. r = [H!NoTurn EXCEPT !.pc = "running", !.conv = c, !.about = a, !.msg = m]
        BY <3>1
      <3>5. r.pc = "running" /\ r.conv = c /\ r.msg = m
        BY <3>4 DEF H!NoTurn
      <3> QED
        BY <3>1, <3>3, <3>4, <3>5
  <1>3. turn' = [turn EXCEPT ![t] = r]
    OBVIOUS
  <1> HIDE DEF r
  <1>4. turn' \in [H!Turns -> TurnRow] /\ turn'[t] = r /\ \A u \in H!Turns : u # t => turn'[u] = turn[u]
    BY <1>0, <1>2, <1>3, TurnRows
  <1>5. ChatType'
    BY <1>0, <1>4 DEF ChatType
  <1>6. LoopHeld'
    BY <1>0, <1>2, <1>4, ChatFacts DEF LoopHeld
  <1>7. OneJobRuns'
    BY <1>0 DEF OneJobRuns
  <1>8. TurnsInOrder'
    BY <1>0, <1>2, <1>4 DEF TurnsInOrder
  <1>9. RoomForTurns'
    BY <1>0, <1>2, <1>4 DEF RoomForTurns
  <1>10. \A u \in H!Turns : turn'[u].pc # "prepared"
    BY <1>0, <1>2, <1>4 DEF LoopHeld
  <1>11. ASSUME NEW u \in H!Turns, turn'[u].pc = "running", chat'[u] = "running" PROVE AnswersNewest(turn[u])'
    <2>1. u = t
      BY <1>0, <1>11, ChatFacts DEF OneJobRuns
    <2>2. turn'[u].conv = turn[t].conv /\ turn'[u].msg = m
      BY <1>2, <1>4, <2>1
    <2> QED
      BY <1>1, <2>2 DEF AnswersNewest
  <1>12. TurnsStand'
    BY <1>10, <1>11 DEF TurnsStand
  <1> QED
    BY <1>5, <1>6, <1>7, <1>8, <1>9, <1>12 DEF ChatInv

\* A message of the person.
LEMMA StoreKeeps == ASSUME ChatInv, NEW t \in H!Turns, H!StoreMessage(t) PROVE ChatInv'
  <1>0. ChatType /\ TalksStand /\ TurnsStand /\ written \in Nat
    BY DEF ChatInv, ChatType
  <1> DEFINE c == turn[t].conv
             v == conv[c]
             x == [id |-> written + 1, role |-> "user", text |-> turn[t].text, about |-> turn[t].about, to |-> 0]
             st == IF H!Created(t) THEN "active" ELSE v.st
             n == Append(v.msgs, x)
             r == [v EXCEPT !.st = st, !.msgs = n]
  <1>1. /\ loop = t /\ turn[t].pc = "prepared" /\ turn[t].msg = 0 /\ v.st # "deleted"
        /\ written' = written + 1 /\ loop' = None /\ UNCHANGED <<chat, convs>>
        /\ turn' = [turn EXCEPT ![t] = [H!NoTurn EXCEPT !.pc = "running", !.conv = c,
                                                        !.about = turn[t].about, !.msg = written + 1]]
    BY DEF H!StoreMessage, H!Started, H!ConvGone
  <1>2. conv' = [conv EXCEPT ![c].st = IF H!Created(t) THEN "active" ELSE @, ![c].msgs = Append(@, x)]
    BY DEF H!StoreMessage
  <1>3. FindsHistory(turn[t]) /\ turn[t] \in TurnRow
    BY <1>0, <1>1 DEF TurnsStand, ChatType
  <1>4. c \in H!ConvIds /\ v \in TalkRow /\ x \in MessageRow
    <2>1. c \in H!ConvIds /\ turn[t].text \in Texts \cup {None} /\ turn[t].about \in Songs \cup {None}
      BY <1>3 DEF FindsHistory, TurnRow
    <2>2. written + 1 \in Nat \ {0}
      BY <1>0
    <2> QED
      BY <1>0, <2>1, <2>2 DEF ChatType, MessageRow
  <1>5. conv' = [conv EXCEPT ![c] = r]
    BY <1>0, <1>2, <1>4 DEF ChatType
  <1>6. /\ r \in TalkRow /\ r.msgs = Append(v.msgs, x) /\ r.summary = v.summary /\ r.boundary = v.boundary
        /\ r.torn = v.torn
    <2>1. st \in {"none", "active", "archived", "deleted"} /\ n \in Seq(MessageRow)
      BY <1>4 DEF TalkRow
    <2> HIDE DEF n, st, c, v
    <2>2. r \in TalkRow
      BY <1>4, <2>1 DEF TalkRow
    <2>3. r.msgs = n /\ r.summary = v.summary /\ r.boundary = v.boundary
      BY <1>4 DEF TalkRow
    <2>4. r.torn = v.torn
      BY <1>4 DEF TalkRow
    <2> QED
      BY <2>2, <2>3, <2>4 DEF n
  <1>7. /\ conv' \in [H!ConvIds -> TalkRow] /\ conv'[c] = r /\ \A d \in H!ConvIds : d # c => conv'[d] = conv[d]
    <2> HIDE DEF r, c
    <2> QED
      BY <1>0, <1>4, <1>5, <1>6, TalkRows
  <1>8. TalkStands(r, written + 1)
    <2>1. TalkStands(v, written)
      BY <1>0, <1>4 DEF TalksStand
    <2>2. x.id = written + 1 /\ x.to <= written /\ x.role = "user" /\ x.text = turn[t].text
      BY <1>0
    <2>3. ~v.torn => ~Repeats(v.msgs, x.text)
      BY <1>1, <1>3, <2>2 DEF FindsHistory
    <2>4. x.role # "assistant"
      OBVIOUS
    <2> HIDE DEF r, v, x, c
    <2> QED
      BY <1>0, <1>4, <1>6, <2>1, <2>2, <2>3, <2>4, AddMessage
  <1>9. TalksStand'
    <2>1. ASSUME NEW d \in H!ConvIds PROVE TalkStands(conv'[d], written + 1)
      <3>1. CASE d = c
        BY <1>7, <1>8, <3>1
      <3>2. CASE d # c
        <4>1. conv'[d] = conv[d] /\ conv[d] \in TalkRow /\ TalkStands(conv[d], written)
          BY <1>0, <1>7, <3>2 DEF ChatType, TalksStand
        <4>2. written + 1 \in Nat /\ written <= written + 1
          BY <1>0
        <4> QED
          BY <1>0, <4>1, <4>2, TalkStays
      <3> QED
        BY <3>1, <3>2
    <2> QED
      BY <1>1, <2>1 DEF TalksStand
  <1>10. Unanswered(r.msgs, written + 1)
    <2>1. IdsGrow(r.msgs, written + 1)
      BY <1>8 DEF TalkStands
    <2>2. IdsGrow(v.msgs, written)
      BY <1>0, <1>4 DEF TalksStand, TalkStands
    <2>3. v.msgs \in Seq(MessageRow) /\ r.msgs = Append(v.msgs, x) /\ x.role = "user"
      BY <1>4, <1>6 DEF TalkRow
    <2> DEFINE ms == v.msgs
               s == r.msgs
    <2> HIDE DEF v, r, x, ms, s
    <2>4. PICK l \in Nat : l = Len(ms)
      BY <2>3 DEF ms
    <2>5. Len(s) = l + 1 /\ s[l + 1] = x /\ \A i \in 1..l : s[i] = ms[i] /\ ms[i] \in MessageRow
      BY <2>3, <2>4 DEF ms, s
    <2>6. ASSUME NEW i \in 1..(l + 1) PROVE ~(s[i].role = "assistant" /\ s[i].to = written + 1)
      <3>1. CASE i = l + 1
        BY <2>3, <2>5, <3>1
      <3>2. CASE i # l + 1
        <4>1. i \in 1..l
          BY <3>2
        <4>2. ms[i].to <= written /\ ms[i].to \in Nat
          BY <2>2, <2>4, <2>5, <4>1 DEF IdsGrow, ms, MessageRow
        <4> QED
          BY <1>0, <2>5, <4>1, <4>2
      <3> QED
        BY <3>1, <3>2
    <2> QED
      BY <2>1, <2>5, <2>6 DEF Unanswered, IdsGrow, s
  <1>11. Unanswered(conv'[turn[t].conv].msgs, written + 1) /\ written' \in Nat /\ written + 1 <= written' /\ written + 1 \in Nat
    BY <1>0, <1>1, <1>7, <1>10
  <1> HIDE DEF r, v, x, n
  <1> QED
    BY <1>1, <1>7, <1>9, <1>11, TurnStarts

\* An unanswered message is taken again: it is the newest, so nothing answers it.
LEMMA ReuseKeeps == ASSUME ChatInv, NEW t \in H!Turns, H!ReuseMessage(t) PROVE ChatInv'
  <1>0. ChatType /\ TalksStand /\ TurnsStand /\ written \in Nat
    BY DEF ChatInv, ChatType
  <1> DEFINE c == turn[t].conv
             m == turn[t].msg
             ms == conv[c].msgs
  <1>1. /\ loop = t /\ turn[t].pc = "prepared" /\ m # 0 /\ (\E i \in DOMAIN ms : ms[i].id = m)
        /\ loop' = None /\ UNCHANGED <<chat, convs, written, conv>>
        /\ turn' = [turn EXCEPT ![t] = [H!NoTurn EXCEPT !.pc = "running", !.conv = c, !.about = turn[t].about, !.msg = m]]
    BY DEF H!ReuseMessage, H!Started, H!HasMessage
  <1>3. FindsHistory(turn[t]) /\ turn[t] \in TurnRow
    BY <1>0, <1>1 DEF TurnsStand, ChatType
  <1>4. c \in H!ConvIds /\ m \in Nat /\ m <= written /\ conv[c] \in TalkRow /\ ms \in Seq(MessageRow)
        /\ \A i \in 1..Len(ms) : ms[i].id <= m
    BY <1>0, <1>1, <1>3 DEF FindsHistory, TurnRow, TalkRow, ChatType
  <1>5. IdsGrow(ms, written) /\ Answered(ms)
    BY <1>0, <1>4 DEF TalksStand, TalkStands
  <1> HIDE DEF ms
  <1>6. PICK n \in 1..Len(ms) : ms[n].id = m
    BY <1>1, <1>4
  <1>7. ASSUME NEW i \in 1..Len(ms), ms[i].role = "assistant", ms[i].to = m PROVE FALSE
    <2>1. i > 1 /\ ms[i - 1].id = m
      BY <1>5, <1>6, <1>7 DEF Answered
    <2>2. i - 1 \in 1..Len(ms) /\ i - 1 < i
      BY <2>1
    <2>3. ms[i - 1].id < ms[i].id
      BY <1>5, <2>2 DEF IdsGrow
    <2>4. ms[i].id <= m /\ ms[i].id \in Nat
      <3>1. ms[i].id \in Nat \ {0}
        BY <1>4, IdsOf
      <3> QED
        BY <1>4, <3>1
    <2> QED
      BY <1>4, <2>1, <2>3, <2>4
  <1>8. Unanswered(ms, m)
    BY <1>4, <1>7 DEF Unanswered
  <1>9. TalksStand' /\ conv' \in [H!ConvIds -> TalkRow] /\ Unanswered(conv'[turn[t].conv].msgs, m) /\ m <= written' /\ written' \in Nat
    BY <1>0, <1>1, <1>4, <1>8 DEF TalksStand, ChatType, ms
  <1> QED
    BY <1>1, <1>4, <1>9, TurnStarts

\* A reply, which is written only while the turn's job runs.
LEMMA ReplyKeeps ==
    ASSUME ChatInv, NEW t \in H!Turns, loop = None, turn[t].pc = "running", chat[t] = "running",
           written' = written + 1, UNCHANGED <<convs, loop>>,
           NEW x, x = [id |-> written + 1, role |-> "assistant", text |-> None, about |-> turn[t].about, to |-> turn[t].msg],
           conv' = [conv EXCEPT ![turn[t].conv].msgs = Append(@, x)],
           chat' = [chat EXCEPT ![t] = "over"],
           turn' = [turn EXCEPT ![t] = [H!NoTurn EXCEPT !.pc = "ended"]]
    PROVE  ChatInv'
  <1>0. ChatType /\ TalksStand /\ LoopHeld /\ OneJobRuns /\ TurnsInOrder /\ RoomForTurns /\ TurnsStand /\ written \in Nat
    BY DEF ChatInv, ChatType
  <1> DEFINE c == turn[t].conv
             v == conv[c]
             n == Append(v.msgs, x)
             r == [v EXCEPT !.msgs = n]
             w == [H!NoTurn EXCEPT !.pc = "ended"]
  <1>1. AnswersNewest(turn[t]) /\ turn[t] \in TurnRow
    BY <1>0 DEF TurnsStand, ChatType
  <1>2. c \in H!ConvIds /\ v \in TalkRow /\ x \in MessageRow
    <2>1. c \in H!ConvIds /\ turn[t].msg \in Nat /\ turn[t].about \in Songs \cup {None}
      BY <1>1 DEF AnswersNewest, TurnRow
    <2>2. written + 1 \in Nat \ {0}
      BY <1>0
    <2> QED
      BY <1>0, <2>1, <2>2 DEF ChatType, MessageRow
  <1>3. conv' = [conv EXCEPT ![c] = r]
    BY <1>0, <1>2 DEF ChatType
  <1>4. /\ r \in TalkRow /\ r.msgs = Append(v.msgs, x) /\ r.summary = v.summary /\ r.boundary = v.boundary
        /\ r.torn = v.torn
    <2>1. n \in Seq(MessageRow)
      BY <1>2 DEF TalkRow
    <2> HIDE DEF n, c, v
    <2>2. r \in TalkRow
      BY <1>2, <2>1 DEF TalkRow
    <2>3. r.msgs = n /\ r.summary = v.summary /\ r.boundary = v.boundary
      BY <1>2 DEF TalkRow
    <2>4. r.torn = v.torn
      BY <1>2 DEF TalkRow
    <2> QED
      BY <2>2, <2>3, <2>4 DEF n
  <1>5. /\ conv' \in [H!ConvIds -> TalkRow] /\ conv'[c] = r /\ \A d \in H!ConvIds : d # c => conv'[d] = conv[d]
    <2> HIDE DEF r, c
    <2> QED
      BY <1>0, <1>2, <1>3, <1>4, TalkRows
  <1>6. TalkStands(r, written + 1)
    <2>1. TalkStands(v, written)
      BY <1>0, <1>2 DEF TalksStand
    <2>2. x.id = written + 1 /\ x.to <= written /\ x.role = "assistant" /\ x.to = turn[t].msg
      BY <1>1 DEF AnswersNewest
    <2>3. Unanswered(v.msgs, x.to) /\ x.role # "user"
      BY <1>1, <2>2 DEF AnswersNewest
    <2> HIDE DEF r, v, c
    <2> QED
      BY <1>0, <1>2, <1>4, <2>1, <2>2, <2>3, AddMessage
  <1>7. TalksStand'
    <2>1. ASSUME NEW d \in H!ConvIds PROVE TalkStands(conv'[d], written + 1)
      <3>1. CASE d = c
        BY <1>5, <1>6, <3>1
      <3>2. CASE d # c
        <4>1. conv'[d] = conv[d] /\ conv[d] \in TalkRow /\ TalkStands(conv[d], written)
          BY <1>0, <1>5, <3>2 DEF ChatType, TalksStand
        <4>2. written + 1 \in Nat /\ written <= written + 1
          BY <1>0
        <4> QED
          BY <1>0, <4>1, <4>2, TalkStays
      <3> QED
        BY <3>1, <3>2
    <2> QED
      BY <2>1 DEF TalksStand
  <1>8. w \in TurnRow /\ w.pc = "ended" /\ turn' = [turn EXCEPT ![t] = w]
    BY NewTurnRow
  <1> HIDE DEF w, r, v, c
  <1>9. turn' \in [H!Turns -> TurnRow] /\ turn'[t] = w /\ \A u \in H!Turns : u # t => turn'[u] = turn[u]
    BY <1>0, <1>8, TurnRows
  <1>10. /\ chat' \in [H!Turns -> {"none", "running", "over"}] /\ \A u \in H!Turns : chat'[u] # "running"
    BY <1>0 DEF ChatType, OneJobRuns
  <1>11. ChatType'
    BY <1>0, <1>5, <1>9, <1>10 DEF ChatType
  <1>12. \A u \in H!Turns : turn'[u].pc \notin {"admitted", "prepared"}
    BY <1>0, <1>8, <1>9, ChatFacts DEF LoopHeld
  <1>13. LoopHeld'
    BY <1>12, ChatFacts DEF LoopHeld
  <1>14. OneJobRuns' /\ TurnsStand'
    BY <1>10, <1>12 DEF OneJobRuns, TurnsStand
  <1>15. TurnsInOrder' /\ RoomForTurns'
    BY <1>0, <1>8, <1>9 DEF TurnsInOrder, RoomForTurns
  <1> QED
    BY <1>7, <1>11, <1>13, <1>14, <1>15 DEF ChatInv

\* The agent answered, in time or too late.
LEMMA CompleteKeeps == ASSUME ChatInv, NEW t \in H!Turns, H!CompleteTurn(t) PROVE ChatInv'
  <1>1. /\ loop = None /\ turn[t].pc = "running" /\ turn' = [turn EXCEPT ![t] = [H!NoTurn EXCEPT !.pc = "ended"]]
        /\ UNCHANGED <<convs, loop>>
    BY DEF H!CompleteTurn, H!Ended
  <1>2. CASE UNCHANGED <<conv, written>> /\ (chat' = chat \/ chat' = [chat EXCEPT ![t] = "over"])
    <2>1. turn[t].pc # "idle"
      BY <1>1
    <2> QED
      BY <1>1, <1>2, <2>1, TurnEnds
  <1>3. CASE /\ chat[t] = "running" /\ written' = written + 1
             /\ conv' = [conv EXCEPT ![turn[t].conv].msgs =
                            Append(@, [id |-> written + 1, role |-> "assistant", text |-> None,
                                       about |-> turn[t].about, to |-> turn[t].msg])]
             /\ chat' = [chat EXCEPT ![t] = "over"]
    BY <1>1, <1>3, ReplyKeeps
  <1> QED
    BY <1>2, <1>3 DEF H!CompleteTurn, H!FailJob, H!LockActiveJob

\* What the person or a purge takes from a conversation.
Shrinks(v, r) ==
    /\ \A i \in 1..Len(r.msgs) : \E j \in 1..Len(v.msgs) : r.msgs[i] = v.msgs[j]
    /\ r.st # "deleted" /\ ~r.torn /\ r.msgs # << >> => v.st # "deleted" /\ ~v.torn /\ r.msgs = v.msgs

\* It leaves the invariant.
LEMMA ShrinkKeeps ==
    ASSUME ChatInv, UNCHANGED <<turn, chat, loop, written>>, convs' \in Nat, convs' = convs \/ convs' <= MaxConversations,
           conv' \in [H!ConvIds -> TalkRow],
           \A c \in H!ConvIds : TalkStands(conv'[c], written) /\ Shrinks(conv[c], conv'[c])
    PROVE  ChatInv'
  <1>0. ChatType /\ TalksStand /\ LoopHeld /\ OneJobRuns /\ TurnsInOrder /\ RoomForTurns /\ TurnsStand
    BY DEF ChatInv
  <1>1. ChatType' /\ TalksStand' /\ LoopHeld' /\ OneJobRuns' /\ TurnsInOrder'
    BY <1>0 DEF ChatType, TalksStand, LoopHeld, OneJobRuns, TurnsInOrder
  <1>2. RoomForTurns'
    <2>1. \A t \in H!Turns : MaxConversations <= MaxConversations + t - 1 /\ MaxConversations + t - 1 \in Int
      BY ChatFacts
    <2>2. \A t \in H!Turns : convs' = convs \/ convs' <= MaxConversations + t - 1
      BY <2>1, ChatFacts
    <2> QED
      BY <1>0, <2>2 DEF RoomForTurns
  <1>3. ASSUME NEW t \in H!Turns, turn'[t].pc = "running" /\ chat'[t] = "running" PROVE AnswersNewest(turn[t])'
    <2>1. AnswersNewest(turn[t])
      BY <1>0, <1>3 DEF TurnsStand
    <2>2. Shrinks(conv[turn[t].conv], conv'[turn[t].conv])
      BY <2>1 DEF AnswersNewest
    <2>3. Unanswered(conv[turn[t].conv].msgs, turn[t].msg)
      BY <2>1 DEF AnswersNewest
    <2>4. Unanswered(conv'[turn[t].conv].msgs, turn[t].msg)
      <3> DEFINE v == conv[turn[t].conv]
                 r == conv'[turn[t].conv]
      <3> HIDE DEF v, r
      <3>1. Unanswered(v.msgs, turn[t].msg) /\ Shrinks(v, r)
        BY <2>2, <2>3 DEF v, r
      <3>2. Unanswered(r.msgs, turn[t].msg)
        BY <3>1 DEF Unanswered, Shrinks
      <3> QED
        BY <3>2 DEF r
    <2> QED
      BY <2>1, <2>4 DEF AnswersNewest
  <1>4. ASSUME NEW t \in H!Turns, turn'[t].pc = "prepared" PROVE (FindsHistory(turn[t]) /\ SendsAll(turn[t]))'
    <2>1. FindsHistory(turn[t]) /\ SendsAll(turn[t])
      BY <1>0, <1>4 DEF TurnsStand
    <2>2. Shrinks(conv[turn[t].conv], conv'[turn[t].conv])
      BY <2>1 DEF FindsHistory
    <2>3. SendsAll(turn[t])'
      BY <2>1 DEF SendsAll
    <2>4. FindsHistory(turn[t])'
      <3>1. turn[t].msg # 0 => \A i \in 1..Len(conv'[turn[t].conv].msgs) : conv'[turn[t].conv].msgs[i].id <= turn[t].msg
        BY <2>1, <2>2 DEF FindsHistory, Shrinks
      <3>2. turn[t].msg = 0 /\ conv'[turn[t].conv].st # "deleted" /\ ~conv'[turn[t].conv].torn
              => ~Repeats(conv'[turn[t].conv].msgs, turn[t].text)
        BY <2>1, <2>2 DEF FindsHistory, Shrinks, Repeats
      <3> QED
        BY <2>1, <3>1, <3>2 DEF FindsHistory
    <2> QED
      BY <2>3, <2>4
  <1>5. TurnsStand'
    BY <1>3, <1>4 DEF TurnsStand
  <1> QED
    BY <1>1, <1>2, <1>5 DEF ChatInv

\* A new conversation.
LEMMA NewConversationKeeps == ASSUME ChatInv, H!NewConversation PROVE ChatInv'
  <1>0. ChatType /\ TalksStand
    BY DEF ChatInv
  <1>1. /\ convs < MaxConversations /\ convs' = convs + 1 /\ UNCHANGED <<written, chat, turn, loop>>
        /\ conv' = [c \in H!ConvIds |->
                      IF c = convs + 1 THEN [H!NoConv EXCEPT !.st = "active"]
                      ELSE IF H!Active # {} /\ c = H!Max(H!Active) THEN [conv[c] EXCEPT !.st = "archived"]
                           ELSE conv[c]]
    BY DEF H!NewConversation
  <1>2. convs' \in Nat /\ convs' <= MaxConversations
    BY <1>0, <1>1, ChatFacts DEF ChatType
  <1>3. ASSUME NEW c \in H!ConvIds
        PROVE  conv'[c] \in TalkRow /\ TalkStands(conv'[c], written) /\ Shrinks(conv[c], conv'[c])
    <2>0. conv[c] \in TalkRow /\ TalkStands(conv[c], written) /\ written \in Nat
      BY <1>0 DEF ChatType, TalksStand
    <2>1. CASE conv'[c] = [H!NoConv EXCEPT !.st = "active"]
      <3>1. conv'[c] \in TalkRow /\ conv'[c].msgs = << >> /\ conv'[c].boundary = 0 /\ conv'[c].summary = None
        BY <2>1, NewTalkRow
      <3>2. Shrinks(conv[c], conv'[c])
        BY <3>1 DEF Shrinks
      <3> QED
        BY <2>0, <3>1, <3>2, EmptyTalk
    <2>2. CASE conv'[c] = conv[c]
      BY <2>0, <2>2 DEF Shrinks
    <2>3. CASE conv'[c] = [conv[c] EXCEPT !.st = "archived"] /\ conv[c].st = "active"
      <3> DEFINE v == conv[c]
                 r == conv'[c]
      <3>1. r = [v EXCEPT !.st = "archived"] /\ v \in TalkRow
        BY <2>0, <2>3
      <3> HIDE DEF v, r
      <3>2. r \in TalkRow
        BY <3>1 DEF TalkRow
      <3>3. r.msgs = v.msgs /\ r.summary = v.summary /\ r.boundary = v.boundary /\ r.st = "archived"
        BY <3>1 DEF TalkRow
      <3>4. r.torn = v.torn
        BY <3>1 DEF TalkRow
      <3>5. TalkStands(r, written)
        BY <2>0, <3>3, <3>4 DEF TalkStands, SummaryStands, v
      <3>6. Shrinks(v, r)
        BY <2>3, <3>3, <3>4 DEF Shrinks, v
      <3> QED
        BY <3>2, <3>5, <3>6 DEF v, r
    <2> QED
      BY <1>1, <2>1, <2>2, <2>3, NewestActive DEF H!Active
  <1>4. conv' \in [H!ConvIds -> TalkRow]
    BY <1>1, <1>3
  <1> QED
    BY <1>1, <1>2, <1>3, <1>4, ShrinkKeeps

\* A deleted conversation.
LEMMA DeleteKeeps == ASSUME ChatInv, NEW c \in H!ConvIds, H!DeleteConversation(c) PROVE ChatInv'
  <1>0. ChatType /\ TalksStand
    BY DEF ChatInv
  <1> DEFINE v == [H!NoConv EXCEPT !.st = "deleted"]
  <1>1. conv' = [conv EXCEPT ![c] = v] /\ UNCHANGED <<convs, written, chat, turn, loop>>
    BY DEF H!DeleteConversation
  <1>2. v \in TalkRow /\ v.msgs = << >> /\ v.boundary = 0 /\ v.summary = None
    BY NewTalkRow
  <1> HIDE DEF v
  <1>3. conv' \in [H!ConvIds -> TalkRow] /\ conv'[c] = v /\ \A d \in H!ConvIds : d # c => conv'[d] = conv[d]
    BY <1>0, <1>1, <1>2, TalkRows
  <1>4. ASSUME NEW d \in H!ConvIds PROVE TalkStands(conv'[d], written) /\ Shrinks(conv[d], conv'[d])
    <2>0. conv[d] \in TalkRow /\ TalkStands(conv[d], written) /\ written \in Nat
      BY <1>0 DEF ChatType, TalksStand
    <2>1. CASE d = c
      <3>1. Shrinks(conv[d], v)
        BY <1>2 DEF Shrinks
      <3> QED
        BY <1>2, <1>3, <2>0, <2>1, <3>1, EmptyTalk
    <2>2. CASE d # c
      BY <1>3, <2>0, <2>2 DEF Shrinks
    <2> QED
      BY <2>1, <2>2
  <1>5. convs' \in Nat /\ convs' = convs
    BY <1>0, <1>1 DEF ChatType
  <1> QED
    BY <1>1, <1>3, <1>4, <1>5, ShrinkKeeps

\* A purged song takes its messages with it.
LEMMA PurgeSongKeeps == ASSUME ChatInv, NEW s \in Songs, H!PurgeSong(s) PROVE ChatInv'
  <1>0. ChatType /\ TalksStand
    BY DEF ChatInv
  <1>1. UNCHANGED <<convs, written, chat, turn, loop>>
    BY DEF H!PurgeSong
  <1>2. conv' = [c \in H!ConvIds |-> PurgedTalk(conv[c], {i \in DOMAIN conv[c].msgs : conv[c].msgs[i].about # s})]
    BY DEF H!PurgeSong, PurgedTalk
  <1>3. ASSUME NEW c \in H!ConvIds
        PROVE  conv'[c] \in TalkRow /\ TalkStands(conv'[c], written) /\ Shrinks(conv[c], conv'[c])
    <2> DEFINE v == conv[c]
               K == {i \in DOMAIN v.msgs : v.msgs[i].about # s}
               r == conv'[c]
    <2>1. v \in TalkRow /\ TalkStands(v, written) /\ written \in Nat
      BY <1>0 DEF ChatType, TalksStand
    <2>2. K \in SUBSET (1..Len(v.msgs)) /\ r = PurgedTalk(v, K)
      <3>1. v.msgs \in Seq(MessageRow)
        BY <2>1 DEF TalkRow
      <3> QED
        BY <1>2, <3>1
    <2> HIDE DEF v, K, r
    <2>3. /\ r \in TalkRow /\ TalkStands(r, written) /\ r.st = v.st
          /\ \A i \in 1..Len(r.msgs) : \E j \in 1..Len(v.msgs) : r.msgs[i] = v.msgs[j]
          /\ ~r.torn => ~v.torn /\ r.msgs = v.msgs
      BY <2>1, <2>2, PurgeTalk
    <2>4. Shrinks(v, r)
      BY <2>3 DEF Shrinks
    <2> QED
      BY <2>3, <2>4 DEF v, r
  <1>4. conv' \in [H!ConvIds -> TalkRow]
    BY <1>2, <1>3
  <1>5. convs' \in Nat /\ convs' = convs
    BY <1>0, <1>1 DEF ChatType
  <1> QED
    BY <1>1, <1>3, <1>4, <1>5, ShrinkKeeps

\* The history a turn reads is the whole conversation, or all but the message sent again.
LEMMA ReadHistory ==
    ASSUME NEW ms \in Seq(MessageRow), NEW text, NEW w, IdsGrow(ms, w),
           NEW again, again = H!UnansweredMessageSentAgain(ms, text),
           NEW hist, hist = H!Ids(IF again = 0 THEN ms ELSE H!Front(ms))
    PROVE  /\ \E m \in Nat : m <= Len(ms) /\ Len(ms) <= m + 1 /\ hist = SubSeq(H!Ids(ms), 1, m)
           /\ again = 0 => ~Repeats(ms, text)
           /\ again # 0 => ms # << >> /\ again = ms[Len(ms)].id
           /\ again \in Nat
  <1>0. PICK l \in Nat : l = Len(ms)
    OBVIOUS
  <1>1. /\ H!Ids(ms) \in Seq(Nat) /\ Len(H!Ids(ms)) = l /\ \A i \in 1..l : H!Ids(ms)[i] = ms[i].id /\ ms[i].id \in Nat \ {0}
    BY <1>0, IdsOf
  <1>2. ms # << >> => l \in 1..l /\ l - 1 \in Nat
    BY <1>0
  <1>3. again = IF Repeats(ms, text) THEN ms[l].id ELSE 0
    BY <1>0 DEF H!UnansweredMessageSentAgain, H!Last, Repeats
  <1>4. CASE ~Repeats(ms, text)
    <2>1. again = 0 /\ hist = H!Ids(ms)
      BY <1>3, <1>4
    <2>2. SubSeq(H!Ids(ms), 1, l) = H!Ids(ms)
      BY <1>1, Prefixes
    <2>3. l \in Nat /\ l <= Len(ms) /\ Len(ms) <= l + 1 /\ hist = SubSeq(H!Ids(ms), 1, l)
      BY <1>0, <2>1, <2>2
    <2> QED
      BY <1>4, <2>1, <2>3
  <1>5. CASE Repeats(ms, text)
    <2>1. ms # << >> /\ again = ms[l].id /\ again \in Nat /\ again # 0
      BY <1>1, <1>2, <1>3, <1>5 DEF Repeats
    <2>2. hist = H!Ids(H!Front(ms)) /\ H!Front(ms) = SubSeq(ms, 1, l - 1)
      BY <1>0, <2>1 DEF H!Front
    <2>3. l - 1 \in Nat /\ l - 1 <= Len(ms) /\ l - 1 <= Len(H!Ids(ms)) /\ Len(ms) <= (l - 1) + 1
      BY <1>0, <1>1, <1>2, <2>1
    <2> DEFINE p == SubSeq(ms, 1, l - 1)
               q == SubSeq(H!Ids(ms), 1, l - 1)
    <2>4. p \in Seq(MessageRow) /\ Len(p) = l - 1 /\ \A i \in 1..(l - 1) : p[i] = ms[i]
      BY <2>3, Prefixes
    <2>5. q \in Seq(Nat) /\ Len(q) = l - 1 /\ \A i \in 1..(l - 1) : q[i] = H!Ids(ms)[i]
      BY <1>1, <2>3, Prefixes
    <2> HIDE DEF p, q
    <2>6. H!Ids(p) \in Seq(Nat) /\ Len(H!Ids(p)) = l - 1 /\ \A i \in 1..(l - 1) : H!Ids(p)[i] = p[i].id
      BY <2>4, IdsOf
    <2>7. ASSUME NEW i \in 1..(l - 1) PROVE H!Ids(p)[i] = q[i]
      <3>1. i \in 1..l
        BY <2>3
      <3>2. H!Ids(p)[i] = ms[i].id
        BY <2>4, <2>6
      <3> QED
        BY <1>1, <2>5, <3>1, <3>2
    <2>8. H!Ids(p) = q
      BY <2>5, <2>6, <2>7, SeqSame
    <2> QED
      BY <1>0, <1>5, <2>1, <2>2, <2>3, <2>8 DEF p, q
  <1> QED
    BY <1>4, <1>5

\* What compacting it leaves of the conversation.
CompactedHistory(v, w, b, m, hist, out) ==
    /\ v \in TalkRow /\ w \in Nat /\ TalkStands(v, w) /\ m \in Nat /\ m <= Len(v.msgs) /\ Len(v.msgs) <= m + 1
    /\ hist = SubSeq(H!Ids(v.msgs), 1, m) /\ out = H!CompactConversation(hist, b, v.summary, v.boundary)
HistoryKept(v, w, hist, out) ==
    /\ hist \in Seq(Nat) /\ Told(out.summary) \in Seq(Nat) /\ out.tail \in Seq(Nat)
    /\ \A j \in 1..Len(hist) : \E n \in 1..Len(Told(out.summary) \o out.tail) : (Told(out.summary) \o out.tail)[n] = hist[j]
    /\ ~v.torn => Told(out.summary) \o out.tail = hist
    /\ out.windowed => \A r \in TalkRow :
         r = [v EXCEPT !.summary = out.summary, !.boundary = out.boundary] => TalkStands(r, w)
    /\ out.windowed => out.summary \in Seq(Nat) /\ out.boundary \in Nat
\* It stands as before.
LEMMA CompactedTalk ==
    ASSUME NEW v, NEW w, NEW b, NEW m, NEW hist, NEW out, CompactedHistory(v, w, b, m, hist, out)
    PROVE  HistoryKept(v, w, hist, out)
  <1>0. /\ v \in TalkRow /\ w \in Nat /\ TalkStands(v, w) /\ m \in Nat /\ m <= Len(v.msgs) /\ Len(v.msgs) <= m + 1
        /\ hist = SubSeq(H!Ids(v.msgs), 1, m) /\ out = H!CompactConversation(hist, b, v.summary, v.boundary)
    BY DEF CompactedHistory
  <1> USE <1>0
  <1> DEFINE ms == v.msgs
             is == H!Ids(ms)
             sent == Told(out.summary) \o out.tail
  <1>1. ms \in Seq(MessageRow) /\ v.summary \in Seq(Nat) \cup {None} /\ v.boundary \in Nat
    BY DEF TalkRow
  <1>2. IdsGrow(ms, w) /\ SummaryCovers(is, v.summary, v.boundary) /\ (~v.torn => SummaryExact(is, v.summary, v.boundary))
    BY DEF TalkStands, SummaryStands
  <1>3. /\ is \in Seq(Nat) /\ Len(is) = Len(ms) /\ \A i \in 1..Len(ms) : is[i] = ms[i].id /\ ms[i].id \in Nat \ {0}
    BY <1>1, IdsOf
  <1>4. \A i, j \in 1..Len(ms) : ms[i].id = ms[j].id => i = j
    BY <1>1, <1>2, IdsOf
  <1>5. /\ \A i, j \in 1..Len(is) : is[i] = is[j] => i = j
        /\ \A i \in 1..Len(is) : is[i] # 0
        /\ m <= Len(is) /\ Len(is) <= m + 1
    BY <1>3, <1>4
  <1> HIDE DEF is
  <1>6. Compacted(is, m, b, v.summary, v.boundary, hist, out)
    BY <1>1, <1>2, <1>3, <1>5 DEF Compacted, is
  <1>7. /\ Told(out.summary) \in Seq(Nat) /\ out.tail \in Seq(Nat) /\ Tells(sent, hist, m)
        /\ SummaryExact(is, v.summary, v.boundary) => sent = hist
        /\ out.windowed => /\ out.summary \in Seq(Nat) /\ SummaryCovers(is, out.summary, out.boundary)
                           /\ out.boundary = 0 \/ \E i \in 1..Len(is) : is[i] = out.boundary
                           /\ SummaryExact(is, v.summary, v.boundary) => SummaryExact(is, out.summary, out.boundary)
    <2>1. KeepsAndSends(is, m, v.summary, v.boundary, hist, out)
      BY <1>6, TurnCompacts
    <2> QED
      BY <2>1 DEF KeepsAndSends
  <1>8. hist \in Seq(Nat) /\ Len(hist) = m
    <2>1. hist = SubSeq(is, 1, m)
      BY DEF is
    <2>2. is \in Seq(Nat) /\ m \in Nat /\ m <= Len(is)
      BY <1>3, <1>5
    <2>3. SubSeq(is, 1, m) \in Seq(Nat) /\ Len(SubSeq(is, 1, m)) = m
      BY <2>2, Prefixes
    <2> QED
      BY <2>1, <2>3
  <1>9. \A j \in 1..Len(hist) : \E n \in 1..Len(sent) : sent[n] = hist[j]
    BY <1>7, <1>8 DEF Tells
  <1>10. out.windowed => out.boundary \in Nat /\ out.boundary <= w
    <2>1. SUFFICES ASSUME out.windowed PROVE out.boundary \in Nat /\ out.boundary <= w
      OBVIOUS
    <2>2. CASE out.boundary = 0
      BY <2>2
    <2>3. CASE \E i \in 1..Len(is) : is[i] = out.boundary
      <3>1. PICK i \in 1..Len(ms) : ms[i].id = out.boundary
        BY <1>3, <2>3
      <3> QED
        BY <1>2, <1>3, <3>1 DEF IdsGrow
    <2> QED
      BY <1>7, <2>1, <2>2, <2>3
  <1>11. ASSUME out.windowed, NEW r \in TalkRow, r = [v EXCEPT !.summary = out.summary, !.boundary = out.boundary]
         PROVE  TalkStands(r, w)
    <2> HIDE DEF ms, sent
    <2>1. r.msgs = v.msgs /\ r.summary = out.summary /\ r.boundary = out.boundary
      BY <1>11 DEF TalkRow
    <2>2. r.torn = v.torn
      BY <1>11 DEF TalkRow
    <2>3. SummaryStands(r)
      BY <1>2, <1>7, <1>11, <2>1, <2>2 DEF SummaryStands, is, ms
    <2> QED
      BY <1>10, <1>11, <2>1, <2>2, <2>3 DEF TalkStands
  <1> QED
    BY <1>2, <1>7, <1>8, <1>9, <1>10, <1>11 DEF HistoryKept

\* What preparing a turn writes.
Prepared(t, c, again, hist, out) ==
    /\ convs' = IF H!Active = {} THEN convs + 1 ELSE convs
    /\ turn' = [turn EXCEPT ![t].pc = "prepared", ![t].conv = c, ![t].msg = again,
                            ![t].summary = IF out.summary = None THEN << >>
                                           ELSE out.summary,
                            ![t].tail = out.tail, ![t].told = hist,
                            ![t].torn = conv[c].torn]
    /\ conv' = IF out.windowed
               THEN [conv EXCEPT ![c].summary = out.summary,
                                 ![c].boundary = out.boundary]
               ELSE conv

\* A turn reads and compacts the history of its conversation.
LEMMA PrepareKeeps == ASSUME ChatInv, NEW t \in H!Turns, H!PrepareHistory(t) PROVE ChatInv'
  <1>0. ChatType /\ TalksStand /\ LoopHeld /\ OneJobRuns /\ TurnsInOrder /\ RoomForTurns /\ TurnsStand /\ written \in Nat
        /\ convs \in Nat
    BY DEF ChatInv, ChatType
  <1>1. PICK c : c = (IF H!Active = {} THEN convs + 1 ELSE H!Max(H!Active)) /\
        \E again \in {H!UnansweredMessageSentAgain(conv[c].msgs, turn[t].text)} :
        \E hist \in {H!Ids(IF again = 0 THEN conv[c].msgs ELSE H!Front(conv[c].msgs))} :
        \E out \in {H!CompactConversation(hist, budget, conv[c].summary, conv[c].boundary)} :
           Prepared(t, c, again, hist, out)
    BY DEF H!PrepareHistory, Prepared
  <1> DEFINE v == conv[c]
             again == H!UnansweredMessageSentAgain(v.msgs, turn[t].text)
             hist == H!Ids(IF again = 0 THEN v.msgs ELSE H!Front(v.msgs))
             out == H!CompactConversation(hist, budget, v.summary, v.boundary)
             told == Told(out.summary)
             tail == out.tail
             tn == v.torn
             r == [turn[t] EXCEPT !.pc = "prepared", !.conv = c, !.msg = again, !.summary = told,
                                  !.tail = tail, !.told = hist, !.torn = tn]
             u == [v EXCEPT !.summary = out.summary, !.boundary = out.boundary]
  <1>2. /\ convs' = (IF H!Active = {} THEN convs + 1 ELSE convs)
        /\ turn' = [turn EXCEPT ![t].pc = "prepared", ![t].conv = c, ![t].msg = again, ![t].summary = told,
                                ![t].tail = tail, ![t].told = hist, ![t].torn = tn]
        /\ conv' = IF out.windowed THEN [conv EXCEPT ![c].summary = out.summary, ![c].boundary = out.boundary]
                   ELSE conv
    <2>1. PICK a1 : a1 = again /\
            \E hist1 \in {H!Ids(IF a1 = 0 THEN conv[c].msgs ELSE H!Front(conv[c].msgs))} :
            \E out1 \in {H!CompactConversation(hist1, budget, conv[c].summary, conv[c].boundary)} :
               Prepared(t, c, a1, hist1, out1)
      BY <1>1
    <2>2. PICK h1 : h1 = H!Ids(IF a1 = 0 THEN conv[c].msgs ELSE H!Front(conv[c].msgs)) /\
            \E out1 \in {H!CompactConversation(h1, budget, conv[c].summary, conv[c].boundary)} :
               Prepared(t, c, a1, h1, out1)
      BY <2>1
    <2>3. PICK o1 : o1 = H!CompactConversation(h1, budget, conv[c].summary, conv[c].boundary) /\ Prepared(t, c, a1, h1, o1)
      BY <2>2
    <2>4. a1 = again /\ h1 = hist /\ o1 = out
      BY <2>1, <2>2, <2>3
    <2> HIDE DEF again, hist, out, v
    <2>5. Prepared(t, c, again, hist, out)
      BY <2>3, <2>4
    <2> QED
      BY <2>5 DEF Prepared, Told, v
  <1>3. loop = t /\ turn[t].pc = "admitted" /\ UNCHANGED <<written, chat, loop>>
    BY DEF H!PrepareHistory
  <1>4. c \in H!ConvIds /\ turn[t] \in TurnRow /\ v \in TalkRow /\ TalkStands(v, written) /\ v.msgs \in Seq(MessageRow)
    <2>1. t \in 1..NTurns /\ convs <= MaxConversations + t - 1
      BY <1>0, <1>3, ChatFacts DEF RoomForTurns
    <2>2. convs + 1 \in H!ConvIds
      BY <1>0, <2>1, ChatFacts
    <2>3. c \in H!ConvIds
      BY <1>1, <2>2, NewestActive
    <2>4. conv[c] \in TalkRow /\ turn[t] \in TurnRow /\ TalkStands(conv[c], written)
      BY <1>0, <2>3 DEF ChatType, TalksStand
    <2> QED
      BY <2>3, <2>4 DEF TalkRow
  <1>5. turn' = [turn EXCEPT ![t] = r]
    <2> HIDE DEF again, hist, told, tail, tn
    <2> QED
      BY <1>0, <1>2 DEF ChatType
  <1>6. out.windowed => conv' = [conv EXCEPT ![c] = u]
    <2> HIDE DEF out
    <2> QED
      BY <1>0, <1>2, <1>4 DEF ChatType
  <1> HIDE DEF again, hist, out, told, tail, tn, u, r, v
  <1>7. IdsGrow(v.msgs, written)
    BY <1>4 DEF TalkStands
  <1>8. /\ \E m \in Nat : m <= Len(v.msgs) /\ Len(v.msgs) <= m + 1 /\ hist = SubSeq(H!Ids(v.msgs), 1, m)
        /\ again = 0 => ~Repeats(v.msgs, turn[t].text)
        /\ again # 0 => v.msgs # << >> /\ again = v.msgs[Len(v.msgs)].id
        /\ again \in Nat
    <2>1. again = H!UnansweredMessageSentAgain(v.msgs, turn[t].text) /\ hist = H!Ids(IF again = 0 THEN v.msgs ELSE H!Front(v.msgs))
      BY DEF again, hist
    <2> QED
      BY <1>4, <1>7, <2>1, ReadHistory
  <1>9. /\ hist \in Seq(Nat) /\ told \in Seq(Nat) /\ tail \in Seq(Nat)
        /\ \A j \in 1..Len(hist) : \E n \in 1..Len(told \o tail) : (told \o tail)[n] = hist[j]
        /\ ~v.torn => told \o tail = hist
        /\ out.windowed => \A x \in TalkRow : x = u => TalkStands(x, written)
        /\ out.windowed => out.summary \in Seq(Nat) /\ out.boundary \in Nat
    <2>1. PICK m \in Nat : m <= Len(v.msgs) /\ Len(v.msgs) <= m + 1 /\ hist = SubSeq(H!Ids(v.msgs), 1, m)
      BY <1>8
    <2>2. out = H!CompactConversation(hist, budget, v.summary, v.boundary)
      BY DEF out
    <2>3. CompactedHistory(v, written, budget, m, hist, out)
      BY <1>0, <1>4, <2>1, <2>2 DEF CompactedHistory
    <2>4. HistoryKept(v, written, hist, out)
      BY <2>3, CompactedTalk
    <2> QED
      BY <2>4 DEF told, tail, u, HistoryKept
  <1>10. again # 0 => \A i \in 1..Len(v.msgs) : v.msgs[i].id <= again
    <2>1. SUFFICES ASSUME again # 0, NEW i \in 1..Len(v.msgs) PROVE v.msgs[i].id <= again
      OBVIOUS
    <2>2. again = v.msgs[Len(v.msgs)].id /\ Len(v.msgs) \in 1..Len(v.msgs)
      BY <1>4, <1>8, <2>1
    <2>3. i = Len(v.msgs) \/ i < Len(v.msgs)
      BY <1>4
    <2>4. i < Len(v.msgs) => v.msgs[i].id < again
      BY <1>7, <2>2 DEF IdsGrow
    <2>5. v.msgs[i].id \in Nat /\ again \in Nat
      BY <1>4, <1>8, IdsOf
    <2> QED
      BY <2>2, <2>3, <2>4, <2>5
  <1>11. again <= written
    <2>1. CASE again = 0
      BY <1>0, <2>1
    <2>2. CASE again # 0
      BY <1>4, <1>7, <1>8, <2>2 DEF IdsGrow
    <2> QED
      BY <2>1, <2>2
  <1>12. /\ r \in TurnRow /\ r.pc = "prepared" /\ r.conv = c /\ r.msg = again /\ r.summary = told /\ r.tail = tail
         /\ r.told = hist /\ r.text = turn[t].text
    <2>1. tn \in BOOLEAN
      BY <1>4 DEF TalkRow, tn
    <2>2. r \in TurnRow
      BY <1>4, <1>8, <1>9, <2>1 DEF TurnRow, r
    <2>3. r.pc = "prepared" /\ r.conv = c /\ r.msg = again /\ r.text = turn[t].text
      BY <1>4 DEF TurnRow, r
    <2>4. r.summary = told /\ r.tail = tail /\ r.told = hist
      BY <1>4 DEF TurnRow, r
    <2> QED
      BY <2>2, <2>3, <2>4
  <1>13. r.torn = v.torn
    BY <1>4 DEF TurnRow, r, tn
  <1>14. turn' \in [H!Turns -> TurnRow] /\ turn'[t] = r /\ \A x \in H!Turns : x # t => turn'[x] = turn[x]
    BY <1>0, <1>5, <1>12, TurnRows
  <1>15. /\ conv' \in [H!ConvIds -> TalkRow] /\ conv'[c].msgs = v.msgs /\ (conv'[c].torn <=> v.torn)
         /\ \A d \in H!ConvIds : TalkStands(conv'[d], written)
    <2>1. CASE ~out.windowed
      BY <1>0, <1>2, <1>4, <2>1 DEF ChatType, TalksStand, v
    <2>2. CASE out.windowed
      <3>1. u \in TalkRow /\ u.msgs = v.msgs
        BY <1>4, <1>9, <2>2 DEF TalkRow, u
      <3>2. u.torn = v.torn
        BY <1>4 DEF TalkRow, u
      <3>3. TalkStands(u, written)
        BY <1>9, <2>2, <3>1
      <3>4. conv' \in [H!ConvIds -> TalkRow] /\ conv'[c] = u /\ \A d \in H!ConvIds : d # c => conv'[d] = conv[d]
        BY <1>0, <1>4, <1>6, <2>2, <3>1, TalkRows
      <3> QED
        BY <1>0, <3>1, <3>2, <3>3, <3>4 DEF TalksStand
    <2> QED
      BY <2>1, <2>2
  <1>16. convs' \in Nat /\ convs <= convs' /\ convs' <= convs + 1
    BY <1>0, <1>2
  <1>17. ChatType' /\ TalksStand'
    BY <1>0, <1>3, <1>14, <1>15, <1>16 DEF ChatType, TalksStand
  <1>18. LoopHeld' /\ OneJobRuns'
    BY <1>0, <1>3, <1>12, <1>14 DEF LoopHeld, OneJobRuns
  <1>19. TurnsInOrder'
    BY <1>0, <1>3, <1>12, <1>14 DEF TurnsInOrder
  <1>20. RoomForTurns'
    <2>1. SUFFICES ASSUME NEW x \in H!Turns, turn'[x].pc \in {"idle", "admitted"} PROVE convs' <= MaxConversations + x - 1
      BY DEF RoomForTurns
    <2>2. x # t /\ turn[x].pc \in {"idle", "admitted"}
      BY <1>12, <1>14, <2>1
    <2>3. turn[x].pc = "idle"
      BY <1>0, <1>3, <2>2 DEF LoopHeld
    <2>4. t < x
      BY <1>0, <1>3, <2>3 DEF TurnsInOrder
    <2>5. convs <= MaxConversations + t - 1 /\ t \in Int /\ x \in Int
      BY <1>0, <1>3, ChatFacts DEF RoomForTurns
    <2> QED
      BY <1>0, <1>16, <2>4, <2>5, ChatFacts
  <1>21. ASSUME NEW x \in H!Turns, turn'[x].pc = "running" /\ chat'[x] = "running" PROVE FALSE
    <2>1. x = t
      BY <1>0, <1>3, <1>21, ChatFacts DEF OneJobRuns
    <2> QED
      BY <1>12, <1>14, <1>21, <2>1
  <1>22. ASSUME NEW x \in H!Turns, turn'[x].pc = "prepared" PROVE (FindsHistory(turn[x]) /\ SendsAll(turn[x]))'
    <2>1. x = t
      BY <1>0, <1>3, <1>14, <1>22 DEF LoopHeld
    <2>2. turn'[x] = r
      BY <1>14, <2>1
    <2>3. SendsAll(r)
      BY <1>9, <1>12, <1>13 DEF SendsAll
    <2>4. /\ turn'[x].conv = c /\ turn'[x].msg = again /\ turn'[x].text = turn[t].text
      BY <1>12, <2>2
    <2>5. SendsAll(turn[x])'
      BY <2>2, <2>3 DEF SendsAll
    <2>6. again = 0 => ~Repeats(conv'[c].msgs, turn[t].text)
      BY <1>8, <1>15
    <2>7. again # 0 => \A i \in 1..Len(conv'[c].msgs) : conv'[c].msgs[i].id <= again
      BY <1>10, <1>15
    <2>8. FindsHistory(turn[x])'
      BY <1>3, <1>4, <1>11, <2>4, <2>6, <2>7 DEF FindsHistory
    <2> QED
      BY <2>5, <2>8
  <1>23. TurnsStand'
    BY <1>21, <1>22 DEF TurnsStand
  <1> QED
    BY <1>17, <1>18, <1>19, <1>20, <1>23 DEF ChatInv

\* Every step keeps the invariant.
LEMMA ChatStep == ChatInv /\ [H!Next]_(H!vars) => ChatInv'
  <1>1. SUFFICES ASSUME ChatInv, [H!Next]_(H!vars) PROVE ChatInv'
    OBVIOUS
  <1>2. chat \in [H!Turns -> {"none", "running", "over"}]
    BY <1>1 DEF ChatInv, ChatType
  <1>3. ASSUME NEW t \in H!Turns, H!Send(t) \/ H!Step(t) \/ H!CancelJob(t) \/ H!Reap(t) PROVE ChatInv'
    BY <1>1, <1>3, SendKeeps, PrepareKeeps, StoreKeeps, ReuseKeeps, SetupEnds, CompleteKeeps, JobGone DEF H!Step
  <1>4. ASSUME NEW c \in H!ConvIds, H!DeleteConversation(c) PROVE ChatInv'
    BY <1>1, <1>4, DeleteKeeps
  <1>5. ASSUME NEW s \in Songs, H!PurgeSong(s) PROVE ChatInv'
    BY <1>1, <1>5, PurgeSongKeeps
  <1>6. ASSUME UNCHANGED <<conv, convs, written, turn, loop, chat>> PROVE ChatInv'
    BY <1>1, <1>2, <1>6, JobEnds
  <1>7. ASSUME NEW s \in Songs, H!TrashSong(s) PROVE ChatInv'
    BY <1>6, <1>7 DEF H!TrashSong
  <1>8. ASSUME NEW b \in Budgets, H!SetBudget(b) PROVE ChatInv'
    BY <1>6, <1>8 DEF H!SetBudget
  <1>9. CASE UNCHANGED H!vars
    BY <1>6, <1>9 DEF H!vars
  <1> QED
    BY <1>1, <1>3, <1>4, <1>5, <1>7, <1>8, <1>9, NewConversationKeeps, CrashKeeps, JobGone DEF H!Next

\* What the invariant says of the history.
LEMMA HistoryStands == ChatInv => H!AnsweredOnce /\ H!TryAgainIsOneMessage /\ H!HistoryCoveredOnce
  <1>1. SUFFICES ASSUME ChatInv PROVE H!AnsweredOnce /\ H!TryAgainIsOneMessage /\ H!HistoryCoveredOnce
    OBVIOUS
  <1>2. \A c \in H!ConvIds : conv[c].msgs \in Seq(MessageRow) /\ Answered(conv[c].msgs) /\ (~conv[c].torn => RepeatsNone(conv[c].msgs))
    BY <1>1 DEF ChatInv, ChatType, TalkRow, TalksStand, TalkStands
  <1>3. H!AnsweredOnce
    BY <1>2 DEF H!AnsweredOnce, H!HasMessage, Answered
  <1>4. H!TryAgainIsOneMessage
    BY <1>2 DEF H!TryAgainIsOneMessage, RepeatsNone
  <1>5. ASSUME NEW t \in H!Turns, turn[t].pc = "prepared", NEW sent, sent = turn[t].summary \o turn[t].tail
        PROVE  H!ToSet(turn[t].told) \subseteq H!ToSet(sent) /\ (~turn[t].torn => sent = turn[t].told)
    <2>1. SendsAll(turn[t]) /\ turn[t] \in TurnRow
      BY <1>1, <1>5 DEF ChatInv, TurnsStand, ChatType
    <2>2. turn[t].summary \in Seq(Nat) /\ turn[t].tail \in Seq(Nat) /\ turn[t].told \in Seq(Nat)
      BY <2>1 DEF TurnRow
    <2>3. sent \in Seq(Nat)
      BY <1>5, <2>2
    <2> DEFINE told == turn[t].told
    <2>4. /\ \A j \in 1..Len(told) : \E n \in 1..Len(sent) : sent[n] = told[j]
          /\ ~turn[t].torn => sent = told
      BY <1>5, <2>1 DEF SendsAll
    <2>5. DOMAIN told = 1..Len(told) /\ DOMAIN sent = 1..Len(sent)
      BY <2>2, <2>3
    <2>6. H!ToSet(told) = {told[i] : i \in DOMAIN told} /\ H!ToSet(sent) = {sent[i] : i \in DOMAIN sent}
      BY DEF H!ToSet
    <2> HIDE DEF told
    <2>7. H!ToSet(told) \subseteq H!ToSet(sent)
      BY <2>4, <2>5, <2>6
    <2> QED
      BY <2>4, <2>7 DEF told
  <1>6. H!HistoryCoveredOnce
    BY <1>5 DEF H!HistoryCoveredOnce
  <1> QED
    BY <1>3, <1>4, <1>6
-----------------------------------------------------------------------------
(***************************************************************************)
(* The parts together.                                                     *)
(***************************************************************************)

\* A step of the library is a step of each part or leaves it alone.
LEMMA PartSteps ==
    [Next]_vars => [T!Next]_(T!vars) /\ [C!Next]_(C!vars) /\ [A!Next]_(A!vars) /\ [P!Next]_pos
                /\ [L!Next]_(L!vars) /\ [H!Next]_(H!vars)
  BY DEF Next, vars, takesVars, curationVars, albumVars, searchVars, chatVars, T!vars, C!vars, A!vars, L!vars, H!vars

\* The invariant of the parts.
LibraryInv == SongInv /\ MarksInv /\ SweepInv /\ AlbumInv /\ OrderInv /\ SearchInv /\ ChatInv

\* It holds throughout.
LEMMA LibraryStands == Spec => []LibraryInv
  <1>1. Init => LibraryInv
    <2>1. P!Init => OrderInv
      BY DEF P!Init, P!Entries, OrderInv
    <2> QED
      BY <2>1, SongInit, CurationInit, AlbumInit, SearchInit, ChatInit DEF Init, LibraryInv
  <1>2. LibraryInv /\ [Next]_vars => LibraryInv'
    BY PartSteps, SongStep, CurationStep, AlbumStep, OrderStep, SearchStep, ChatStep DEF LibraryInv
  <1> QED
    BY <1>1, <1>2, PTL DEF Spec

\* The version a take is linked to holds the words it was sung with, and a version
\* under a queued or running job is not deleted, whatever saves, deletions and jobs
\* interleave (lock_song_row, _rewrites_in_place, delete_version).
THEOREM WordsKeepStanding == Spec => []WordsStand
  <1>1. LibraryInv => WordsStand
    BY DEF LibraryInv, SongInv, JobsStand, WordsStand, T!JobKeepsItsVersion
  <1> QED
    BY <1>1, LibraryStands, PTL

\* A public page offers exactly what its endpoints serve, and a listed or shared take
\* stays playable until its musician releases it (sharing_api.py, cleanup.py).
THEOREM PublicStaysTrue == Spec => []PublicIsTrue
  <1>1. LibraryInv => PublicIsTrue
    BY ListedPlays, PublicPresented DEF LibraryInv, PublicIsTrue
  <1> QED
    BY <1>1, LibraryStands, PTL

\* A save changes only what its request names, retention deletes no Pick, Keep or
\* source take, and a change of a playlist keeps the order of the other entries
\* (update_song, delete_expired_generation, reorder_playlist_entry).
THEOREM OthersKeepStanding == Spec => OthersStand
  <1>1. LibraryInv /\ [Next]_vars =>
          /\ [\A s \in Savers :
                (save[s].pc = "checked" /\ save'[s].pc = "idle" /\ version' # version /\ T!Latest # None) =>
                  /\ save[s].words = Keep => version'[T!Latest'].words = version[T!Latest].words
                  /\ save[s].params = Keep => version'[T!Latest'].params = version[T!Latest].params]_(T!vars)
          /\ [\A t \in C!Takes :
                (mark'[t] = None /\ sweep' # sweep) =>
                  /\ ~mark[t].picked /\ ~mark[t].kept /\ ~C!IsAnchor(t)
                  /\ C!Archived(t) /\ day - mark[t].at > FinalDays]_(C!vars)
          /\ [KeepsOrder]_pos
    BY PartSteps, SaveKeepsOthers, RetentionSpares, OrderStep DEF LibraryInv
  <1> QED
    BY <1>1, LibraryStands, PTL DEF Spec, OthersStand, T!NoEditLost, C!RetentionSparesMarks,
       P!PlaylistOrderStands, KeepsOrder

\* A restored album gets back exactly the songs its trashing took with it, and no two
\* songs of an album share an address, in or out of the trash; a reserved address is
\* free when it is written (restore_album, unique_song_slug, _purge_expired).
THEOREM TrashStaysTrue == Spec => TrashIsTrue
  <1>1. LibraryInv => A!SlugsStayUnique
    BY DEF LibraryInv, AlbumInv
  <1>2. LibraryInv /\ [Next]_vars =>
          [\A a \in AlbumIds : (A!InTrash(album[a]) /\ album'[a] = None) =>
             {s \in A!Rows : A!InTrash(song[s].at) /\ song'[s].at = None} = took[a]]_(A!vars)
    BY PartSteps, TrashIntent DEF LibraryInv
  <1> QED
    BY <1>1, <1>2, LibraryStands, PTL DEF Spec, TrashIsTrue, A!TrashIntentStands

\* Whatever is renamed, trashed or added between the pages, a hit that stays as it is
\* is shown exactly once by the end of a search, in the order of the sort, for any page
\* size and any library (_keyset_clause, _merge_hits, cursor_from_hit).
THEOREM SearchLeavesOutNothing == Spec => []SteadyHitsShownOnce
  <1>1. LibraryInv => SteadyHitsShownOnce
    BY SearchShows DEF LibraryInv, SteadyHitsShownOnce
  <1> QED
    BY <1>1, LibraryStands, PTL

\* A message is answered once and directly, trying again repeats none, and what a turn
\* sends to the agent tells of each message of the history exactly once, whatever the
\* budget was, who cancelled, reaped or restarted, and in any order of turns and purges
\* (api_chat_turn, compact_conversation, lock_active_job, fail_chat_turns_ended_by_restart).
THEOREM HistoryStaysTrue == Spec => []HistoryIsTrue
  <1>1. LibraryInv => HistoryIsTrue
    BY HistoryStands DEF LibraryInv, HistoryIsTrue
  <1> QED
    BY <1>1, LibraryStands, PTL
=============================================================================
