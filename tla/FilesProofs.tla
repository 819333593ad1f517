----------------------------- MODULE FilesProofs -----------------------------
(***************************************************************************)
(* Proofs about reference recordings (References) and covers (Covers), for *)
(* any number of recordings, saves and jobs, any quota, any daily limit    *)
(* and any number of failures and crashes.                                 *)
(***************************************************************************)
EXTENDS MCFiles, FiniteSetTheorems, TLAPS
-----------------------------------------------------------------------------
(***************************************************************************)
(* References.                                                             *)
(***************************************************************************)

\* The instances count as FiniteSets does.
LEMMA FileSets ==
    ASSUME NEW X
    PROVE  /\ (R!IsFiniteSet(X) <=> IsFiniteSet(X)) /\ R!Cardinality(X) = Cardinality(X)
           /\ (C!IsFiniteSet(X) <=> IsFiniteSet(X)) /\ C!Cardinality(X) = Cardinality(X)
  <1>1. (R!IsFiniteSet(X) <=> IsFiniteSet(X)) /\ (C!IsFiniteSet(X) <=> IsFiniteSet(X))
    BY DEF R!IsFiniteSet, C!IsFiniteSet, IsFiniteSet
  <1>2. R!Cardinality(X) = Cardinality(X)
    BY DEF R!Cardinality, Cardinality, R!IsFiniteSet, IsFiniteSet
  <1>3. C!Cardinality(X) = Cardinality(X)
    BY DEF C!Cardinality, Cardinality, C!IsFiniteSet, IsFiniteSet
  <1> QED
    BY <1>1, <1>2, <1>3

\* Rows, files, links, locks and what each upload and save is at.
ReferenceType ==
    /\ recording \in [Refs -> R!Recording \cup {None}]
    /\ file \in SUBSET Refs /\ pend \in SUBSET Refs
    /\ link \in [Holders -> Refs \cup {None}]
    /\ song \in Requests \cup {None}
    /\ save \in [Requests -> [pc : {"idle", "locked", "rendering", "saving", "carrying"},
                              holder : Holders \cup {None}, ref : Refs \cup {None}]]
    /\ up \in [Refs -> {"new", "admitted", "written", "stored", "failed", "removing", "gone"}]
    /\ owner \in Refs \cup {"remnants", None}
    /\ named \in (SUBSET Refs) \cup {None}

\* An upload from its admission to its row, and the remnant run, hold the
\* owner's lock: the upload keeps the room it counted, the run knows every row.
OwnerLockHeld ==
    /\ \A r \in Refs : up[r] \in {"admitted", "written"} => owner = r
    /\ named # None => owner = "remnants" /\ R!Rows \subseteq named
RoomForUpload == \A r \in Refs : up[r] \in {"admitted", "written"} => Cardinality(R!Rows) + 1 <= Quota

\* A recording's row comes with the end of its upload and goes with its removal.
RowsAreStored ==
    /\ \A r \in Refs : r \in R!Rows <=> up[r] = "stored"
    /\ \A r \in Refs : up[r] = "written" => r \in file

\* A linked recording cannot be deleted, also while a save that locked it waits
\* for the song or carries a link on.
LinksHaveRows == \A h \in Holders : link[h] # None => link[h] \in R!Rows
SavesHoldLocks ==
    \A q \in Requests :
        /\ save[q].pc # "idle" => save[q].holder \in Holders /\ save[q].ref \in Refs
        /\ save[q].pc \in {"locked", "saving"} =>
             /\ save[q].ref \in R!Rows
             /\ recording[save[q].ref].lock = "link" /\ recording[save[q].ref].by = q
        /\ save[q].pc \in {"saving", "carrying"} => song = q
        /\ save[q].pc = "carrying" => \E h \in Holders : link[h] = save[q].ref

\* Only a recording that is not kept is locked for a stamp.
StampsAreMeant == \A r \in R!Rows : recording[r].lock = "stamp" => ~recording[r].kept

\* The inductive invariant of the reference recordings: its parts about files
\* and about links.
FileInv == OwnerLockHeld /\ RoomForUpload /\ RowsAreStored /\ R!RowHasFile /\ Cardinality(R!Rows) <= Quota
LinkInv == LinksHaveRows /\ SavesHoldLocks /\ StampsAreMeant /\ R!StampIsTrue
ReferenceInv == ReferenceType /\ FileInv /\ LinkInv

\* Rows are counted as a finite set.
LEMMA RowFacts ==
    ASSUME R!ReferenceConstants
    PROVE  IsFiniteSet(R!Rows) /\ Cardinality(R!Rows) \in Nat /\ Quota \in Nat
  <1>1. IsFiniteSet(Refs) /\ Quota \in Nat
    BY FileSets DEF R!ReferenceConstants
  <1>2. R!Rows \in SUBSET Refs
    BY DEF R!Rows
  <1> QED
    BY <1>1, <1>2, FS_Subset, FS_CardinalityType

\* There is nothing at first.
LEMMA ReferenceInit == ASSUME R!ReferenceConstants PROVE R!Init => ReferenceInv
  <1> SUFFICES ASSUME R!Init PROVE ReferenceInv
    OBVIOUS
  <1>1. ReferenceType
    <2>1. R!Idle \in [pc : {"idle", "locked", "rendering", "saving", "carrying"},
                      holder : Holders \cup {None}, ref : Refs \cup {None}]
      BY DEF R!Idle
    <2>2. [r \in Refs |-> "new"]
            \in [Refs -> {"new", "admitted", "written", "stored", "failed", "removing", "gone"}]
      OBVIOUS
    <2>3. [r \in Refs |-> None] \in [Refs -> R!Recording \cup {None}]
      OBVIOUS
    <2>4. [h \in Holders |-> None] \in [Holders -> Refs \cup {None}]
      OBVIOUS
    <2>5. save \in [Requests -> [pc : {"idle", "locked", "rendering", "saving", "carrying"},
                                 holder : Holders \cup {None}, ref : Refs \cup {None}]]
      BY <2>1 DEF R!Init
    <2>6. /\ file \in SUBSET Refs /\ pend \in SUBSET Refs /\ song \in Requests \cup {None}
          /\ owner \in Refs \cup {"remnants", None} /\ named \in (SUBSET Refs) \cup {None}
      <3>1. file = {} /\ pend = {} /\ song = None /\ owner = None /\ named = None
        BY Zenon DEF R!Init
      <3>2. {} \in SUBSET Refs
        OBVIOUS
      <3> QED
        BY <3>1, <3>2, Zenon
    <2>7. /\ recording = [r \in Refs |-> None] /\ link = [h \in Holders |-> None]
          /\ up = [r \in Refs |-> "new"]
      BY DEF R!Init
    <2> QED
      BY <2>2, <2>3, <2>4, <2>5, <2>6, <2>7, Zenon DEF ReferenceType
  <1>2. R!Rows = {}
    BY DEF R!Init, R!Rows
  <1>3. Cardinality(R!Rows) = 0
    BY <1>2, FS_EmptySet, Zenon
  <1>4. FileInv
    BY <1>2, <1>3, RowFacts
       DEF R!Init, FileInv, OwnerLockHeld, RoomForUpload, RowsAreStored, R!RowHasFile
  <1>5. LinkInv
    BY <1>2 DEF R!Init, R!Idle, LinkInv, LinksHaveRows, SavesHoldLocks, StampsAreMeant, R!StampIsTrue
  <1> QED
    BY <1>1, <1>4, <1>5 DEF ReferenceInv

\* What a step that leaves the rows and the links alone must keep.
LEMMA LinksUntouched ==
    ASSUME ReferenceInv, UNCHANGED <<recording, link, song, save>>
    PROVE  LinkInv'
  <1>1. R!Rows' = R!Rows /\ \A r \in Refs : R!Unlinked(r)' <=> R!Unlinked(r)
    BY DEF R!Rows, R!Unlinked
  <1>2. LinksHaveRows'
    BY <1>1, Zenon DEF ReferenceInv, LinkInv, LinksHaveRows
  <1>3. SavesHoldLocks'
    BY <1>1, Zenon DEF ReferenceInv, LinkInv, SavesHoldLocks
  <1>4. StampsAreMeant' /\ R!StampIsTrue'
    BY <1>1, Zenon DEF ReferenceInv, LinkInv, StampsAreMeant, R!StampIsTrue, R!Rows
  <1> QED
    BY <1>2, <1>3, <1>4 DEF LinkInv

\* ... and one that leaves files, uploads and the set of rows alone.
LEMMA FilesUntouched ==
    ASSUME ReferenceInv, UNCHANGED <<file, up, owner, named>>, R!Rows' = R!Rows
    PROVE  FileInv'
  <1>1. Cardinality(R!Rows)' = Cardinality(R!Rows)
    BY Zenon
  <1>2. OwnerLockHeld' /\ RowsAreStored' /\ R!RowHasFile'
    BY DEF ReferenceInv, FileInv, OwnerLockHeld, RowsAreStored, R!RowHasFile
  <1>3. RoomForUpload'
    BY <1>1 DEF ReferenceInv, FileInv, RoomForUpload
  <1>4. (Cardinality(R!Rows) <= Quota)'
    BY <1>1 DEF ReferenceInv, FileInv
  <1> QED
    BY <1>2, <1>3, <1>4 DEF FileInv

\* A stamp, a keep or a stamp's lock on a row that no save has locked.
LEMMA RowUpdate ==
    ASSUME R!ReferenceConstants, ReferenceInv, NEW r \in R!Rows, NEW new \in R!Recording,
           recording' = [recording EXCEPT ![r] = new],
           UNCHANGED <<file, link, song, save, up, owner, named>>, pend' \in SUBSET Refs,
           recording[r].lock # "link",
           new.unused => R!Unlinked(r) /\ ~new.kept,
           new.lock = "stamp" => ~new.kept
    PROVE  ReferenceInv'
  <1>0. ReferenceType /\ LinkInv /\ r \in Refs
    BY DEF ReferenceInv, R!Rows
  <1>1. ReferenceType'
    BY <1>0 DEF ReferenceType
  <1>2. R!Rows' = R!Rows
    BY <1>0 DEF ReferenceType, R!Rows, R!ReferenceConstants
  <1>3. FileInv'
    BY <1>2, FilesUntouched, Zenon
  <1>4. LinksHaveRows'
    BY <1>0, <1>2 DEF LinkInv, LinksHaveRows
  <1>5. SavesHoldLocks'
    BY <1>0, <1>2 DEF LinkInv, ReferenceType, SavesHoldLocks
  <1>6. StampsAreMeant' /\ R!StampIsTrue'
    <2>1. \A s \in Refs : R!Unlinked(s)' <=> R!Unlinked(s)
      BY DEF R!Unlinked
    <2>2. \A s \in R!Rows : s \in Refs /\ recording'[s] = IF s = r THEN new ELSE recording[s]
      BY <1>0 DEF ReferenceType, R!Rows
    <2> QED
      BY <1>0, <1>2, <2>1, <2>2 DEF LinkInv, StampsAreMeant, R!StampIsTrue
  <1> QED
    BY <1>1, <1>3, <1>4, <1>5, <1>6 DEF ReferenceInv, LinkInv

\* Uploads, removals and the remnant run touch no lock that a save holds.
LEMMA RefStep ==
    ASSUME R!ReferenceConstants, ReferenceInv, NEW r \in Refs, R!OfRef(r)
    PROVE  ReferenceInv'
  <1>0. /\ ReferenceType /\ OwnerLockHeld /\ RoomForUpload /\ RowsAreStored /\ R!RowHasFile
        /\ Cardinality(R!Rows) <= Quota /\ LinkInv
    BY DEF ReferenceInv, FileInv
  <1>c. None \notin Refs /\ "remnants" \notin Refs /\ None # "remnants"
    BY DEF R!ReferenceConstants
  <1>n. IsFiniteSet(R!Rows) /\ Cardinality(R!Rows) \in Nat /\ Quota \in Nat
    BY RowFacts
  <1>1. ASSUME R!BeginUpload(r) PROVE ReferenceInv'
    <2>1. ReferenceType' /\ R!Rows' = R!Rows
      BY <1>0, <1>1 DEF R!BeginUpload, ReferenceType, R!Rows
    <2>2. OwnerLockHeld' /\ RowsAreStored' /\ R!RowHasFile'
      BY <1>0, <1>1, <1>c, <2>1
         DEF R!BeginUpload, R!LockOwner, ReferenceType, OwnerLockHeld, RowsAreStored, R!RowHasFile
    <2>3. Cardinality(R!Rows)' = Cardinality(R!Rows)
      BY <2>1, Zenon
    <2>4. Cardinality(R!Rows) + 1 <= Quota
      BY <1>1, FileSets DEF R!BeginUpload
    <2>5. RoomForUpload' /\ (Cardinality(R!Rows) <= Quota)'
      BY <1>0, <1>n, <2>3, <2>4 DEF RoomForUpload
    <2> QED
      BY <1>1, <2>1, <2>2, <2>5, LinksUntouched DEF R!BeginUpload, ReferenceInv, FileInv
  <1>2. ASSUME R!WriteFile(r) PROVE ReferenceInv'
    <2>1. ReferenceType' /\ R!Rows' = R!Rows
      BY <1>0, <1>2 DEF R!WriteFile, ReferenceType, R!Rows
    <2>2. OwnerLockHeld' /\ RowsAreStored' /\ R!RowHasFile'
      BY <1>0, <1>2, <2>1
         DEF R!WriteFile, ReferenceType, OwnerLockHeld, RowsAreStored, R!RowHasFile
    <2>3. Cardinality(R!Rows)' = Cardinality(R!Rows)
      BY <2>1, Zenon
    <2>5. RoomForUpload' /\ (Cardinality(R!Rows) <= Quota)'
      BY <1>0, <1>2, <1>n, <2>3 DEF R!WriteFile, ReferenceType, RoomForUpload
    <2> QED
      BY <1>2, <2>1, <2>2, <2>5, LinksUntouched DEF R!WriteFile, ReferenceInv, FileInv
  <1>3. ASSUME R!CommitUpload(r) PROVE ReferenceInv'
    <2>0. PICK new \in R!Recording :
            /\ recording' = [recording EXCEPT ![r] = new]
            /\ ~new.kept /\ new.lock = None
      <3> DEFINE fresh == [unused |-> TRUE, kept |-> FALSE, lock |-> None, by |-> None]
      <3>1. fresh \in R!Recording /\ ~fresh.kept /\ fresh.lock = None
        BY DEF R!Recording
      <3>2. recording' = [recording EXCEPT ![r] = fresh]
        BY <1>3 DEF R!CommitUpload
      <3> QED
        BY <3>1, <3>2, Zenon
    <2>r. recording[r] = None /\ new # None /\ new.lock # "link" /\ new.lock # "stamp"
      BY <1>0, <1>3, <2>0 DEF R!CommitUpload, RowsAreStored, R!Rows, R!ReferenceConstants
    <2>1. ReferenceType' /\ R!Rows' = R!Rows \cup {r} /\ r \notin R!Rows
      <3>1. recording' \in [Refs -> R!Recording \cup {None}]
        BY <1>0, <2>0 DEF ReferenceType
      <3>2. R!Rows' = R!Rows \cup {r} /\ r \notin R!Rows
        BY <1>0, <2>0, <2>r DEF ReferenceType, R!Rows
      <3>3. owner' \in Refs \cup {"remnants", None}
        BY <1>0, <1>3 DEF R!CommitUpload, R!Freed, ReferenceType
      <3>4. ReferenceType'
        BY <1>0, <1>3, <3>1, <3>3 DEF R!CommitUpload, ReferenceType
      <3> QED
        BY <3>2, <3>4
    <2>2. OwnerLockHeld' /\ RowsAreStored' /\ R!RowHasFile'
      BY <1>0, <1>3, <1>c, <2>1
         DEF R!CommitUpload, R!Freed, ReferenceType, OwnerLockHeld, RowsAreStored, R!RowHasFile
    <2>3. Cardinality(R!Rows \cup {r}) = Cardinality(R!Rows) + 1
      BY <1>n, <2>1, FS_AddElement, Zenon
    <2>4. (Cardinality(R!Rows) <= Quota)'
      <3>1. Cardinality(R!Rows)' = Cardinality(R!Rows \cup {r})
        BY <2>1, Zenon
      <3>2. Cardinality(R!Rows) + 1 <= Quota
        BY <1>0, <1>3 DEF R!CommitUpload, RoomForUpload
      <3> QED
        BY <2>3, <3>1, <3>2
    <2>5. RoomForUpload'
      BY <1>0, <1>3, <1>c DEF R!CommitUpload, ReferenceType, OwnerLockHeld, RoomForUpload
    <2>6. R!Unlinked(r) /\ \A s \in Refs : R!Unlinked(s)' <=> R!Unlinked(s)
      BY <1>0, <1>3, <1>c, <2>1 DEF R!CommitUpload, R!Unlinked, LinkInv, LinksHaveRows
    <2>7. LinksHaveRows' /\ SavesHoldLocks'
      BY <1>0, <1>3, <2>0, <2>1 DEF R!CommitUpload, ReferenceType, LinkInv, LinksHaveRows, SavesHoldLocks
    <2>8. StampsAreMeant' /\ R!StampIsTrue'
      <3>1. \A s \in R!Rows' : recording'[s] = IF s = r THEN new ELSE recording[s]
        BY <1>0, <2>0, <2>1 DEF ReferenceType, R!Rows
      <3>2. \A s \in R!Rows' : s # r => s \in R!Rows
        BY <2>1
      <3>3. R!Rows' \subseteq Refs
        BY DEF R!Rows
      <3> QED
        BY <1>0, <2>0, <2>6, <2>r, <3>1, <3>2, <3>3 DEF LinkInv, StampsAreMeant, R!StampIsTrue
    <2> QED
      BY <2>1, <2>2, <2>4, <2>5, <2>7, <2>8 DEF ReferenceInv, FileInv, LinkInv
  <1>4. ASSUME R!UploadFails(r) PROVE ReferenceInv'
    <2>1. ReferenceType' /\ R!Rows' = R!Rows
      <3>1. owner' \in Refs \cup {"remnants", None}
        BY <1>0, <1>4 DEF R!UploadFails, R!Freed, ReferenceType
      <3> QED
        BY <1>0, <1>4, <3>1 DEF R!UploadFails, ReferenceType, R!Rows
    <2>2. OwnerLockHeld' /\ RowsAreStored' /\ R!RowHasFile'
      BY <1>0, <1>4, <1>c, <2>1
         DEF R!UploadFails, R!Freed, ReferenceType, OwnerLockHeld, RowsAreStored, R!RowHasFile
    <2>3. Cardinality(R!Rows)' = Cardinality(R!Rows)
      BY <2>1, Zenon
    <2>5. RoomForUpload' /\ (Cardinality(R!Rows) <= Quota)'
      BY <1>0, <1>4, <1>n, <2>3 DEF R!UploadFails, ReferenceType, RoomForUpload
    <2> QED
      BY <1>4, <2>1, <2>2, <2>5, LinksUntouched DEF R!UploadFails, ReferenceInv, FileInv
  <1>5. ASSUME R!DeleteReference(r) PROVE ReferenceInv'
    <2>1. ReferenceType' /\ R!Rows' = R!Rows \ {r}
      BY <1>0, <1>5 DEF R!DeleteReference, ReferenceType, R!Rows
    <2>2. OwnerLockHeld' /\ RowsAreStored' /\ R!RowHasFile'
      BY <1>0, <1>5, <2>1
         DEF R!DeleteReference, ReferenceType, OwnerLockHeld, RowsAreStored, R!RowHasFile
    <2>3. Cardinality(R!Rows)' <= Cardinality(R!Rows) /\ Cardinality(R!Rows)' \in Nat
      <3>1. R!Rows' \in SUBSET R!Rows
        BY <2>1
      <3> HIDE DEF R!Rows
      <3> QED
        BY <1>n, <3>1, FS_Subset, FS_CardinalityType
    <2>5. RoomForUpload' /\ (Cardinality(R!Rows) <= Quota)'
      BY <1>0, <1>5, <1>n, <2>3 DEF R!DeleteReference, ReferenceType, RoomForUpload
    <2>6. r \in R!Rows /\ recording[r].lock # "link" /\ \A s \in Refs \ {r} : recording'[s] = recording[s]
      BY <1>0, <1>5 DEF R!DeleteReference, ReferenceType, R!ReferenceConstants
    <2>7. LinksHaveRows' /\ SavesHoldLocks'
      BY <1>0, <1>5, <2>1, <2>6
         DEF R!DeleteReference, R!Unlinked, ReferenceType, LinkInv, LinksHaveRows, SavesHoldLocks
    <2>8. StampsAreMeant' /\ R!StampIsTrue'
      BY <1>0, <1>5, <2>1, <2>6
         DEF R!DeleteReference, R!Unlinked, R!Rows, LinkInv, StampsAreMeant, R!StampIsTrue
    <2> QED
      BY <2>1, <2>2, <2>5, <2>7, <2>8 DEF ReferenceInv, FileInv, LinkInv
  <1>6. ASSUME R!RemoveFile(r) \/ R!RemoveFails(r) PROVE ReferenceInv'
    <2>1. ReferenceType' /\ R!Rows' = R!Rows
      BY <1>0, <1>6 DEF R!RemoveFile, R!RemoveFails, ReferenceType, R!Rows
    <2>2. OwnerLockHeld' /\ RowsAreStored' /\ R!RowHasFile'
      BY <1>0, <1>6, <2>1
         DEF R!RemoveFile, R!RemoveFails, ReferenceType, OwnerLockHeld, RowsAreStored, R!RowHasFile
    <2>3. Cardinality(R!Rows)' = Cardinality(R!Rows)
      BY <2>1, Zenon
    <2>5. RoomForUpload' /\ (Cardinality(R!Rows) <= Quota)'
      BY <1>0, <1>6, <1>n, <2>3 DEF R!RemoveFile, R!RemoveFails, ReferenceType, RoomForUpload
    <2> QED
      BY <1>6, <2>1, <2>2, <2>5, LinksUntouched DEF R!RemoveFile, R!RemoveFails, ReferenceInv, FileInv
  <1>7. ASSUME R!LockForStamp(r) PROVE ReferenceInv'
    <2>1. CASE r \in R!Rows /\ ~recording[r].unused /\ ~recording[r].kept
      <3>1. PICK new \in R!Recording :
              /\ recording' = [recording EXCEPT ![r] = new]
              /\ new.unused = recording[r].unused /\ new.kept = recording[r].kept /\ new.lock = "stamp"
        <4>1. [recording[r] EXCEPT !.lock = "stamp"] \in R!Recording
          BY <1>0, <2>1 DEF ReferenceType, R!Rows, R!Recording
        <4> QED
          BY <1>0, <1>7, <2>1, <4>1 DEF R!LockForStamp, ReferenceType, R!Rows, R!Recording
      <3>2. recording[r].lock = None
        BY <1>7, <2>1 DEF R!LockForStamp
      <3> QED
        BY <1>0, <1>7, <2>1, <3>1, <3>2, RowUpdate DEF R!LockForStamp, R!ReferenceConstants, ReferenceType
    <2>2. CASE ~(r \in R!Rows /\ ~recording[r].unused /\ ~recording[r].kept)
      <3>1. UNCHANGED <<recording, file, link, song, save, up, owner, named>> /\ pend' = pend \ {r}
        BY <1>7, <2>2 DEF R!LockForStamp
      <3>2. ReferenceType' /\ R!Rows' = R!Rows
        BY <1>0, <3>1 DEF ReferenceType, R!Rows
      <3> QED
        BY <3>1, <3>2, LinksUntouched, FilesUntouched DEF ReferenceInv
    <2> QED
      BY <2>1, <2>2
  <1>8. ASSUME R!Stamp(r) PROVE ReferenceInv'
    <2>1. PICK b \in BOOLEAN : b = R!Unlinked(r)
      BY Zenon DEF R!Unlinked
    <2>2. PICK new \in R!Recording :
            /\ recording' = [recording EXCEPT ![r] = new]
            /\ new.unused = b /\ new.kept = recording[r].kept /\ new.lock = None
      <3>1. recording' = [recording EXCEPT ![r].unused = b, ![r].lock = None]
        BY <1>8, <2>1, Zenon DEF R!Stamp
      <3>2. [recording[r] EXCEPT !.unused = b, !.lock = None] \in R!Recording
        BY <1>0, <1>8 DEF R!Stamp, ReferenceType, R!Rows, R!Recording
      <3> QED
        BY <1>0, <1>8, <3>1, <3>2 DEF R!Stamp, ReferenceType, R!Rows, R!Recording
    <2>3. ~recording[r].kept /\ recording[r].lock = "stamp"
      BY <1>0, <1>8 DEF R!Stamp, LinkInv, StampsAreMeant
    <2>4. new.unused => R!Unlinked(r) /\ ~new.kept
      BY <2>1, <2>2, <2>3, Zenon
    <2> QED
      BY <1>0, <1>8, <2>2, <2>3, <2>4, RowUpdate DEF R!Stamp, R!ReferenceConstants, ReferenceType
  <1>9. ASSUME R!StampFails(r) PROVE ReferenceInv'
    <2>1. CASE r \in R!Rows /\ recording[r].lock = "stamp" /\ recording' = [recording EXCEPT ![r].lock = None]
      <3>1. PICK new \in R!Recording :
              /\ recording' = [recording EXCEPT ![r] = new]
              /\ new.unused = recording[r].unused /\ new.kept = recording[r].kept /\ new.lock = None
        <4>1. [recording[r] EXCEPT !.lock = None] \in R!Recording
          BY <1>0, <2>1 DEF ReferenceType, R!Rows, R!Recording
        <4> QED
          BY <1>0, <2>1, <4>1 DEF ReferenceType, R!Rows, R!Recording
      <3>2. new.unused => R!Unlinked(r) /\ ~new.kept
        BY <1>0, <2>1, <3>1 DEF LinkInv, R!StampIsTrue
      <3>3. pend' \in SUBSET Refs /\ UNCHANGED <<file, link, song, save, up, owner, named>>
        BY <1>0, <1>9 DEF R!StampFails, ReferenceType
      <3>4. new.lock # "stamp"
        BY <3>1 DEF R!ReferenceConstants
      <3> QED
        BY <2>1, <3>1, <3>2, <3>3, <3>4, RowUpdate
    <2>2. CASE pend' = pend \ {r} /\ UNCHANGED recording
      <3>1. UNCHANGED <<recording, file, link, song, save, up, owner, named>> /\ pend' = pend \ {r}
        BY <1>9, <2>2 DEF R!StampFails
      <3>2. ReferenceType' /\ R!Rows' = R!Rows
        BY <1>0, <3>1 DEF ReferenceType, R!Rows
      <3> QED
        BY <3>1, <3>2, LinksUntouched, FilesUntouched DEF ReferenceInv
    <2> QED
      BY <1>9, <2>1, <2>2 DEF R!StampFails
  <1>10. ASSUME R!ReconcileStamps(r) PROVE ReferenceInv'
    <2>1. UNCHANGED <<recording, file, link, song, save, up, owner, named>> /\ pend' = pend \cup {r}
      BY <1>10 DEF R!ReconcileStamps
    <2>2. ReferenceType' /\ R!Rows' = R!Rows
      BY <1>0, <2>1 DEF ReferenceType, R!Rows
    <2> QED
      BY <2>1, <2>2, LinksUntouched, FilesUntouched DEF ReferenceInv
  <1>11. ASSUME R!ReconcileCleared(r) PROVE ReferenceInv'
    <2>1. recording[r].kept \in BOOLEAN
      BY <1>0, <1>11 DEF R!ReconcileCleared, ReferenceType, R!Rows, R!Recording
    <2>2. PICK b \in BOOLEAN : b = (R!Unlinked(r) /\ ~recording[r].kept)
      BY Zenon DEF R!Unlinked
    <2>3. PICK new \in R!Recording :
            /\ recording' = [recording EXCEPT ![r] = new]
            /\ new.unused = b /\ new.kept = recording[r].kept /\ new.lock = None
      <3>1. recording' = [recording EXCEPT ![r].unused = b]
        BY <1>11, <2>2, Zenon DEF R!ReconcileCleared
      <3>2. [recording[r] EXCEPT !.unused = b] \in R!Recording
        BY <1>0, <1>11 DEF R!ReconcileCleared, ReferenceType, R!Rows, R!Recording
      <3> QED
        BY <1>0, <1>11, <3>1, <3>2 DEF R!ReconcileCleared, ReferenceType, R!Rows, R!Recording
    <2>4. new.unused => R!Unlinked(r) /\ ~new.kept
      BY <2>2, <2>3, Zenon
    <2> QED
      BY <1>0, <1>11, <2>3, <2>4, RowUpdate DEF R!ReconcileCleared, R!ReferenceConstants, ReferenceType
  <1>12. ASSUME R!Keep(r) PROVE ReferenceInv'
    <2>1. PICK new \in R!Recording :
            /\ recording' = [recording EXCEPT ![r] = new]
            /\ new.unused = FALSE /\ new.kept = TRUE /\ new.lock = None
      <3>0. recording[r] \in R!Recording
        BY <1>0, <1>12 DEF R!Keep, ReferenceType, R!Rows
      <3>1. [recording[r] EXCEPT !.kept = TRUE, !.unused = FALSE] \in R!Recording
        BY <3>0 DEF R!Recording
      <3> QED
        BY <1>0, <1>12, <3>1 DEF R!Keep, ReferenceType, R!Rows, R!Recording
    <2> QED
      BY <1>0, <1>12, <2>1, RowUpdate DEF R!Keep, R!ReferenceConstants, ReferenceType
  <1>13. ASSUME R!Unkeep(r) PROVE ReferenceInv'
    <2>1. PICK b \in BOOLEAN : b = R!Unlinked(r)
      BY Zenon DEF R!Unlinked
    <2>2. PICK new \in R!Recording :
            /\ recording' = [recording EXCEPT ![r] = new]
            /\ new.unused = b /\ new.kept = FALSE /\ new.lock = None
      <3>1. recording' = [recording EXCEPT ![r].kept = FALSE, ![r].unused = b]
        BY <1>13, <2>1, Zenon DEF R!Unkeep
      <3>0. recording[r] \in R!Recording
        BY <1>0, <1>13 DEF R!Unkeep, ReferenceType, R!Rows
      <3>2. [recording[r] EXCEPT !.kept = FALSE, !.unused = b] \in R!Recording
        BY <3>0 DEF R!Recording
      <3> QED
        BY <1>0, <1>13, <3>1, <3>2 DEF R!Unkeep, ReferenceType, R!Rows, R!Recording
    <2>3. new.unused => R!Unlinked(r) /\ ~new.kept
      BY <2>1, <2>2, Zenon
    <2> QED
      BY <1>0, <1>13, <2>2, <2>3, RowUpdate DEF R!Unkeep, R!ReferenceConstants, ReferenceType
  <1> QED
    BY <1>1, <1>2, <1>3, <1>4, <1>5, <1>6, <1>7, <1>8, <1>9, <1>10, <1>11, <1>12, <1>13 DEF R!OfRef

\* A save locks, links, carries or gives up: no file and no row comes or goes.
LEMMA RequestStep ==
    ASSUME R!ReferenceConstants, ReferenceInv, NEW q \in Requests, R!OfRequest(q)
    PROVE  ReferenceInv'
  <1>0. ReferenceType /\ LinksHaveRows /\ SavesHoldLocks /\ StampsAreMeant /\ R!StampIsTrue
    BY DEF ReferenceInv, LinkInv
  <1>c. /\ None \notin Refs /\ None \notin Requests /\ None # "link" /\ None # "stamp"
        /\ None \notin R!Recording
    BY DEF R!ReferenceConstants
  <1>f. ASSUME R!Rows' = R!Rows, UNCHANGED <<file, up, owner, named>> PROVE FileInv'
    BY <1>f, FilesUntouched
  <1>1. ASSUME NEW h \in Holders, NEW r \in Refs, R!LockReference(q, h, r) PROVE ReferenceInv'
    <2>1. PICK new \in R!Recording :
            /\ recording' = [recording EXCEPT ![r] = new]
            /\ new.unused = recording[r].unused /\ new.kept = recording[r].kept
            /\ new.lock = "link" /\ new.by = q
      <3>0. recording[r] \in R!Recording
        BY <1>0, <1>1 DEF R!LockReference, R!MayLink, ReferenceType, R!Rows
      <3>1. [recording[r] EXCEPT !.lock = "link", !.by = q] \in R!Recording
        BY <3>0 DEF R!Recording
      <3> QED
        BY <1>0, <1>1, <3>1 DEF R!LockReference, R!MayLink, ReferenceType, R!Rows, R!Recording
    <2>2. r \in R!Rows /\ recording[r].lock = None /\ new # None
      BY <1>1, <1>c DEF R!LockReference, R!MayLink
    <2>3. ReferenceType' /\ R!Rows' = R!Rows
      <3>1. recording' \in [Refs -> R!Recording \cup {None}] /\ R!Rows' = R!Rows
        BY <1>0, <2>1, <2>2 DEF ReferenceType, R!Rows
      <3>2. save' \in [Requests -> [pc : {"idle", "locked", "rendering", "saving", "carrying"},
                                   holder : Holders \cup {None}, ref : Refs \cup {None}]]
        <4>1. [pc |-> "locked", holder |-> h, ref |-> r]
                \in [pc : {"idle", "locked", "rendering", "saving", "carrying"},
                    holder : Holders \cup {None}, ref : Refs \cup {None}]
          OBVIOUS
        <4>2. save' = [save EXCEPT ![q] = [pc |-> "locked", holder |-> h, ref |-> r]]
          BY <1>1 DEF R!LockReference
        <4> QED
          BY <1>0, <4>1, <4>2 DEF ReferenceType
      <3> QED
        BY <1>0, <1>1, <3>1, <3>2 DEF R!LockReference, ReferenceType
    <2>4. LinksHaveRows'
      BY <1>0, <1>1, <2>3 DEF R!LockReference, LinksHaveRows
    <2>5. SavesHoldLocks'
      BY <1>0, <1>1, <1>c, <2>1, <2>2, <2>3 DEF R!LockReference, ReferenceType, SavesHoldLocks
    <2>6. StampsAreMeant' /\ R!StampIsTrue'
      <3>1. \A s \in Refs : R!Unlinked(s)' <=> R!Unlinked(s)
        BY <1>1 DEF R!LockReference, R!Unlinked
      <3>2. \A s \in R!Rows : s \in Refs /\ recording'[s] = IF s = r THEN new ELSE recording[s]
        BY <1>0, <2>1 DEF ReferenceType, R!Rows
      <3> QED
        BY <1>0, <2>1, <2>3, <3>1, <3>2 DEF StampsAreMeant, R!StampIsTrue
    <2> QED
      BY <1>1, <1>f, <2>3, <2>4, <2>5, <2>6 DEF R!LockReference, ReferenceInv, LinkInv
  <1>2. ASSUME NEW from \in Holders, NEW h \in Holders, R!StartTake(q, from, h) PROVE ReferenceInv'
    <2>1. link[from] \in Refs /\ save' = [save EXCEPT ![q] = [pc |-> "rendering", holder |-> h, ref |-> link[from]]]
      BY <1>2 DEF R!StartTake, R!Rows
    <2>2. ReferenceType' /\ R!Rows' = R!Rows
      BY <1>0, <1>2, <2>1 DEF R!StartTake, ReferenceType, R!Rows
    <2>3. SavesHoldLocks'
      BY <1>0, <1>2, <2>1, <2>2 DEF R!StartTake, ReferenceType, SavesHoldLocks
    <2>4. LinksHaveRows' /\ StampsAreMeant' /\ R!StampIsTrue'
      BY <1>0, <1>2, <2>2
         DEF R!StartTake, LinksHaveRows, StampsAreMeant, R!StampIsTrue, R!Unlinked
    <2> QED
      BY <1>2, <1>f, <2>2, <2>3, <2>4 DEF R!StartTake, ReferenceInv, LinkInv
  <1>3. ASSUME NEW from \in Holders, NEW to \in Holders, R!CarrySong(q, from, to) PROVE ReferenceInv'
    <2>1. /\ link[from] \in Refs /\ song = None /\ song' = q
          /\ save' = [save EXCEPT ![q] = [pc |-> "carrying", holder |-> to, ref |-> link[from]]]
      BY <1>0, <1>3 DEF R!CarrySong, ReferenceType
    <2>2. ReferenceType' /\ R!Rows' = R!Rows
      BY <1>0, <1>3, <2>1 DEF R!CarrySong, ReferenceType, R!Rows
    <2>3. SavesHoldLocks'
      BY <1>0, <1>3, <1>c, <2>1, <2>2 DEF R!CarrySong, ReferenceType, SavesHoldLocks
    <2>4. LinksHaveRows' /\ StampsAreMeant' /\ R!StampIsTrue'
      BY <1>0, <1>3, <2>2
         DEF R!CarrySong, LinksHaveRows, StampsAreMeant, R!StampIsTrue, R!Unlinked
    <2> QED
      BY <1>3, <1>f, <2>2, <2>3, <2>4 DEF R!CarrySong, ReferenceInv, LinkInv
  <1>4. ASSUME R!TakeLocks(q) PROVE ReferenceInv'
    <2>1. save[q].holder \in Holders /\ save[q].ref \in Refs
      BY <1>0, <1>4 DEF R!TakeLocks, SavesHoldLocks
    <2> QED
      BY <1>1, <1>4, <2>1 DEF R!TakeLocks
  <1>5. ASSUME R!TakeRefused(q) PROVE ReferenceInv'
    <2>1. R!Idle \in [pc : {"idle", "locked", "rendering", "saving", "carrying"},
                      holder : Holders \cup {None}, ref : Refs \cup {None}] /\ R!Idle.pc = "idle"
      BY DEF R!Idle
    <2>2. ReferenceType' /\ R!Rows' = R!Rows
      BY <1>0, <1>5, <2>1 DEF R!TakeRefused, ReferenceType, R!Rows
    <2>3. SavesHoldLocks'
      BY <1>0, <1>5, <2>1, <2>2 DEF R!TakeRefused, ReferenceType, SavesHoldLocks
    <2>4. LinksHaveRows' /\ StampsAreMeant' /\ R!StampIsTrue'
      BY <1>0, <1>5, <2>2
         DEF R!TakeRefused, LinksHaveRows, StampsAreMeant, R!StampIsTrue, R!Unlinked
    <2> QED
      BY <1>5, <1>f, <2>2, <2>3, <2>4 DEF R!TakeRefused, ReferenceInv, LinkInv
  <1>6. ASSUME R!LockSong(q) PROVE ReferenceInv'
    <2>1. save' = [save EXCEPT ![q] = [save[q] EXCEPT !.pc = "saving"]]
      BY <1>0, <1>6 DEF R!LockSong, ReferenceType
    <2>2. ReferenceType' /\ R!Rows' = R!Rows
      BY <1>0, <1>6, <2>1 DEF R!LockSong, ReferenceType, R!Rows
    <2>3. SavesHoldLocks'
      BY <1>0, <1>6, <1>c, <2>1, <2>2 DEF R!LockSong, ReferenceType, SavesHoldLocks
    <2>4. LinksHaveRows' /\ StampsAreMeant' /\ R!StampIsTrue'
      BY <1>0, <1>6, <2>2
         DEF R!LockSong, LinksHaveRows, StampsAreMeant, R!StampIsTrue, R!Unlinked
    <2> QED
      BY <1>6, <1>f, <2>2, <2>3, <2>4 DEF R!LockSong, ReferenceInv, LinkInv
  <1>7. ASSUME R!CommitLink(q) PROVE ReferenceInv'
    <2>1. PICK h \in Holders, r \in R!Rows :
            /\ save[q].holder = h /\ save[q].ref = r /\ song = q
            /\ recording[r].lock = "link" /\ recording[r].by = q
      BY <1>0, <1>7 DEF R!CommitLink, SavesHoldLocks
    <2>2. r \in Refs /\ recording[r] \in R!Recording
      BY <1>0 DEF ReferenceType, R!Rows
    <2>3. PICK new \in R!Recording :
            /\ recording' = [recording EXCEPT ![r] = new]
            /\ new.unused = FALSE /\ new.kept = recording[r].kept /\ new.lock = None
      <3>1. [recording[r] EXCEPT !.unused = FALSE, !.lock = None, !.by = None] \in R!Recording
        BY <2>2 DEF R!Recording
      <3>2. recording' = [recording EXCEPT ![r] =
                            [recording[r] EXCEPT !.unused = FALSE, !.lock = None, !.by = None]]
        BY <1>7, <2>1 DEF R!CommitLink
      <3> QED
        BY <2>2, <3>1, <3>2 DEF R!Recording
    <2>4. /\ link' = [link EXCEPT ![h] = r] /\ save' = [save EXCEPT ![q] = R!Idle] /\ song' = None
          /\ pend' = IF link[h] \in {None, r} THEN pend ELSE pend \cup {link[h]}
      BY <1>7, <2>1 DEF R!CommitLink
    <2>5. ReferenceType' /\ R!Rows' = R!Rows
      <3>1. R!Idle \in [pc : {"idle", "locked", "rendering", "saving", "carrying"},
                        holder : Holders \cup {None}, ref : Refs \cup {None}]
        BY DEF R!Idle
      <3>2. recording' \in [Refs -> R!Recording \cup {None}] /\ R!Rows' = R!Rows
        BY <1>0, <1>c, <2>1, <2>2, <2>3 DEF ReferenceType, R!Rows
      <3>3. pend' \in SUBSET Refs /\ link' \in [Holders -> Refs \cup {None}]
        BY <1>0, <2>2, <2>4 DEF ReferenceType
      <3> QED
        BY <1>0, <1>7, <2>4, <3>1, <3>2, <3>3 DEF R!CommitLink, ReferenceType
    <2>6. LinksHaveRows'
      BY <1>0, <2>1, <2>4, <2>5 DEF ReferenceType, LinksHaveRows
    <2>7. SavesHoldLocks'
      <3>1. R!Idle.pc = "idle"
        BY DEF R!Idle
      <3> QED
        BY <1>0, <2>1, <2>2, <2>3, <2>4, <2>5, <3>1 DEF ReferenceType, SavesHoldLocks
    <2>8. StampsAreMeant' /\ R!StampIsTrue'
      <3>1. \A s \in Refs \ {r} : R!Unlinked(s) => R!Unlinked(s)'
        BY <1>0, <2>4 DEF ReferenceType, R!Unlinked
      <3>2. \A s \in R!Rows : s \in Refs /\ recording'[s] = IF s = r THEN new ELSE recording[s]
        BY <1>0, <2>3 DEF ReferenceType, R!Rows
      <3> QED
        BY <1>0, <1>c, <2>3, <2>5, <3>1, <3>2 DEF StampsAreMeant, R!StampIsTrue
    <2> QED
      BY <1>7, <1>f, <2>5, <2>6, <2>7, <2>8 DEF R!CommitLink, ReferenceInv, LinkInv
  <1>8. ASSUME R!CommitCarry(q) PROVE ReferenceInv'
    <2>1. PICK h \in Holders, from \in Holders, r \in R!Rows :
            save[q].holder = h /\ save[q].ref = r /\ song = q /\ link[from] = r
      BY <1>0, <1>8 DEF R!CommitCarry, R!MayShareKey, SavesHoldLocks
    <2>2. link' = [link EXCEPT ![h] = r] /\ save' = [save EXCEPT ![q] = R!Idle] /\ song' = None
      BY <1>8, <2>1 DEF R!CommitCarry
    <2>3. R!Idle \in [pc : {"idle", "locked", "rendering", "saving", "carrying"},
                      holder : Holders \cup {None}, ref : Refs \cup {None}] /\ R!Idle.pc = "idle"
      BY DEF R!Idle
    <2>4. ReferenceType' /\ R!Rows' = R!Rows
      BY <1>0, <1>8, <2>1, <2>2, <2>3 DEF R!CommitCarry, ReferenceType, R!Rows
    <2>5. LinksHaveRows'
      BY <1>0, <2>1, <2>2, <2>4 DEF ReferenceType, LinksHaveRows
    <2>6. SavesHoldLocks'
      BY <1>0, <1>8, <2>1, <2>2, <2>3, <2>4 DEF R!CommitCarry, ReferenceType, SavesHoldLocks
    <2>7. StampsAreMeant' /\ R!StampIsTrue'
      <3>1. ~recording[r].unused
        BY <1>0, <2>1 DEF R!StampIsTrue, R!Unlinked
      <3>2. \A s \in Refs \ {r} : R!Unlinked(s) => R!Unlinked(s)'
        BY <1>0, <2>2 DEF ReferenceType, R!Unlinked
      <3> QED
        BY <1>0, <1>8, <2>4, <3>1, <3>2 DEF R!CommitCarry, R!Rows, StampsAreMeant, R!StampIsTrue
    <2> QED
      BY <1>8, <1>f, <2>4, <2>5, <2>6, <2>7 DEF R!CommitCarry, ReferenceInv, LinkInv
  <1>9. ASSUME R!Rollback(q) PROVE ReferenceInv'
    <2>1. \A r \in R!Rows : r \in Refs /\ recording[r] \in R!Recording
      BY <1>0 DEF ReferenceType, R!Rows
    <2>2. ASSUME NEW r \in R!Rows
          PROVE  /\ recording'[r] \in R!Recording
                 /\ recording'[r].unused = recording[r].unused /\ recording'[r].kept = recording[r].kept
                 /\ recording'[r].lock \in {None, recording[r].lock}
                 /\ recording[r].by # q => recording'[r] = recording[r]
      <3>1. recording'[r] = IF recording[r].by = q THEN [recording[r] EXCEPT !.lock = None, !.by = None]
                            ELSE recording[r]
        BY <1>9, <2>1 DEF R!Rollback
      <3>2. /\ [recording[r] EXCEPT !.lock = None, !.by = None] \in R!Recording
            /\ [recording[r] EXCEPT !.lock = None, !.by = None].unused = recording[r].unused
            /\ [recording[r] EXCEPT !.lock = None, !.by = None].kept = recording[r].kept
            /\ [recording[r] EXCEPT !.lock = None, !.by = None].lock = None
        BY <2>1 DEF R!Recording
      <3>3. recording[r] \in R!Recording
        BY <2>1
      <3> QED
        BY <3>1, <3>2, <3>3
    <2>3. \A r \in Refs \ R!Rows : recording'[r] = None
      BY <1>9 DEF R!Rollback, R!Rows
    <2>4. R!Rows' = R!Rows
      BY <1>c, <2>1, <2>2, <2>3 DEF R!Rows
    <2>5. song' \in {song, None} /\ (song # q => song' = song) /\ save' = [save EXCEPT ![q] = R!Idle]
      BY <1>9 DEF R!Rollback
    <2>6. R!Idle \in [pc : {"idle", "locked", "rendering", "saving", "carrying"},
                      holder : Holders \cup {None}, ref : Refs \cup {None}] /\ R!Idle.pc = "idle"
      BY DEF R!Idle
    <2>7. ReferenceType'
      <3>1. recording' \in [Refs -> R!Recording \cup {None}]
        <4>1. recording' = [r \in Refs |-> recording'[r]]
          BY <1>9, Zenon DEF R!Rollback
        <4> QED
          BY <2>2, <2>3, <4>1
      <3> QED
        BY <1>0, <1>9, <2>5, <2>6, <3>1 DEF R!Rollback, ReferenceType
    <2>8. SavesHoldLocks'
      <3>1. \A p \in Requests : save'[p] = IF p = q THEN R!Idle ELSE save[p]
        BY <1>0, <2>5 DEF ReferenceType
      <3>2. link' = link
        BY <1>9 DEF R!Rollback
      <3>3. ASSUME NEW p \in Requests, p # q, save[p].pc \in {"locked", "saving"}
            PROVE  /\ save[p].ref \in R!Rows'
                   /\ recording'[save[p].ref].lock = "link" /\ recording'[save[p].ref].by = p
        <4>1. PICK r \in R!Rows : save[p].ref = r /\ recording[r].lock = "link" /\ recording[r].by = p
          BY <1>0, <3>3 DEF SavesHoldLocks
        <4>2. recording'[r] = recording[r]
          BY <2>2, <3>3, <4>1
        <4> QED
          BY <2>4, <4>1, <4>2
      <3> QED
        BY <1>0, <2>5, <2>6, <3>1, <3>2, <3>3 DEF SavesHoldLocks
    <2>9. LinksHaveRows' /\ StampsAreMeant' /\ R!StampIsTrue'
      <3>1. link' = link /\ \A r \in Refs : R!Unlinked(r)' <=> R!Unlinked(r)
        BY <1>9 DEF R!Rollback, R!Unlinked
      <3>2. R!Rows \subseteq Refs
        BY DEF R!Rows
      <3> QED
        BY <1>0, <1>c, <2>2, <2>4, <3>1, <3>2 DEF LinksHaveRows, StampsAreMeant, R!StampIsTrue
    <2> QED
      BY <1>9, <1>f, <2>4, <2>7, <2>8, <2>9 DEF R!Rollback, ReferenceInv, LinkInv
  <1> QED
    BY <1>1, <1>2, <1>3, <1>4, <1>5, <1>6, <1>7, <1>8, <1>9 DEF R!OfRequest, R!AttachReference

\* Every step keeps the invariant.
LEMMA ReferenceNext ==
    ASSUME R!ReferenceConstants PROVE ReferenceInv /\ [R!Next]_(R!vars) => ReferenceInv'
  <1> SUFFICES ASSUME ReferenceInv, [R!Next]_(R!vars) PROVE ReferenceInv'
    OBVIOUS
  <1>0. ReferenceType /\ LinkInv /\ OwnerLockHeld /\ RowsAreStored /\ R!RowHasFile
    BY DEF ReferenceInv, FileInv
  <1>1. ASSUME NEW h \in Holders, R!Detach(h) PROVE ReferenceInv'
    <2>1. ReferenceType' /\ R!Rows' = R!Rows
      BY <1>0, <1>1 DEF R!Detach, ReferenceType, R!Rows
    <2>2. LinksHaveRows'
      BY <1>0, <1>1, <2>1 DEF R!Detach, ReferenceType, LinkInv, LinksHaveRows
    <2>3. SavesHoldLocks'
      BY <1>0, <1>1, <2>1 DEF R!Detach, R!ReferenceConstants, ReferenceType, LinkInv, SavesHoldLocks
    <2>4. \A s \in Refs : R!Unlinked(s) => R!Unlinked(s)'
      BY <1>0, <1>1 DEF R!Detach, R!ReferenceConstants, ReferenceType, R!Unlinked
    <2>5. StampsAreMeant' /\ R!StampIsTrue'
      BY <1>0, <1>1, <2>1, <2>4 DEF R!Detach, R!Rows, LinkInv, StampsAreMeant, R!StampIsTrue
    <2> QED
      BY <1>1, <2>1, <2>2, <2>3, <2>5, FilesUntouched DEF R!Detach, ReferenceInv, LinkInv
  <1>2. ASSUME R!BeginRemnants \/ R!RemoveRemnant \/ R!EndRemnants PROVE ReferenceInv'
    <2>1. ReferenceType' /\ R!Rows' = R!Rows
      <3>1. named' \in (SUBSET Refs) \cup {None} /\ owner' \in Refs \cup {"remnants", None}
        BY <1>0, <1>2 DEF R!BeginRemnants, R!RemoveRemnant, R!EndRemnants, ReferenceType, R!Rows
      <3> QED
        BY <1>0, <1>2, <3>1 DEF R!BeginRemnants, R!RemoveRemnant, R!EndRemnants, ReferenceType, R!Rows
    <2>2. OwnerLockHeld' /\ RowsAreStored' /\ R!RowHasFile'
      BY <1>0, <1>2, <2>1
         DEF R!BeginRemnants, R!RemoveRemnant, R!EndRemnants, R!ReferenceConstants, ReferenceType,
             OwnerLockHeld, RowsAreStored, R!RowHasFile
    <2>3. Cardinality(R!Rows)' = Cardinality(R!Rows)
      BY <2>1, Zenon
    <2>4. RoomForUpload' /\ (Cardinality(R!Rows) <= Quota)'
      BY <1>2, <2>3 DEF R!BeginRemnants, R!RemoveRemnant, R!EndRemnants, ReferenceInv, FileInv, RoomForUpload
    <2> QED
      BY <1>2, <2>1, <2>2, <2>4, LinksUntouched
         DEF R!BeginRemnants, R!RemoveRemnant, R!EndRemnants, ReferenceInv, FileInv
  <1>3. ASSUME UNCHANGED R!vars PROVE ReferenceInv'
    <2>1. ReferenceType' /\ R!Rows' = R!Rows
      BY <1>0, <1>3 DEF R!vars, ReferenceType, R!Rows
    <2> QED
      BY <1>3, <2>1, LinksUntouched, FilesUntouched DEF R!vars, ReferenceInv
  <1> QED
    BY <1>1, <1>2, <1>3, RefStep, RequestStep DEF R!Next

\* A recording that counts down is linked nowhere and not kept, a row has its
\* file, and concurrent uploads never pass the owner's quota (reference_api.py,
\* the unused stamps and the remnant run).
THEOREM FilesStayTrue == ReferenceSpec => []FilesAreTrue
  <1>1. R!ReferenceConstants
    BY PartConstants
  <1>2. R!Init => ReferenceInv
    BY <1>1, ReferenceInit
  <1>3. ReferenceInv /\ [R!Next]_(R!vars) => ReferenceInv'
    BY <1>1, ReferenceNext
  <1>4. [R!Next /\ UNCHANGED coverVars]_<<coverVars, referenceVars>> => [R!Next]_(R!vars)
    BY DEF referenceVars, R!vars
  <1>5. ReferenceInv => FilesAreTrue
    <2>1. R!Cardinality(R!Rows) = Cardinality(R!Rows)
      BY FileSets
    <2> QED
      BY <2>1 DEF ReferenceInv, FileInv, LinkInv, FilesAreTrue, R!QuotaHolds
  <1> QED
    BY <1>2, <1>3, <1>4, <1>5, PTL DEF ReferenceSpec
-----------------------------------------------------------------------------
(***************************************************************************)
(* Covers.                                                                 *)
(***************************************************************************)

\* Files, the request, the jobs and the runner, which is idle or has a job.
CoverType ==
    /\ key \in C!Formats \cup {None} /\ final \in C!Formats \cup {None} /\ old \in C!Formats \cup {None}
    /\ req \in [step : {"idle", "staged", "aside", "moved", "commit", "remove"}, fmt : C!Formats \cup {None}]
    /\ job \in [Jobs -> {"none", "queued", "running", "completed", "failed", "cancelled"}]
    /\ runner \in [job : Jobs, phase : {"start", "loaded", "registered", "drawing", "staged", "moved"}]
                 \cup {C!Idle}
    /\ today \in SUBSET Jobs /\ cancelling \in SUBSET Jobs
    /\ row \in SUBSET Jobs /\ png \in SUBSET Jobs /\ staged \in SUBSET Jobs /\ doomed \in SUBSET Jobs
    /\ crashes \in Nat

\* From the second rename on there is a cover in place; only then is the old one
\* dropped and the key written.  Files are removed for an item without a key.
CoverFiles ==
    /\ req.step \in {"moved", "commit"} => final # None
    /\ req.step \in {"staged", "aside", "moved", "commit"} => req.fmt \in C!Formats
    /\ req.step = "remove" => key = None
    /\ C!CoverSurvives

\* The run whose suggestion is published or about to be.
Publishing == {j \in Jobs : runner.job = j /\ runner.phase = "moved"}
Staging == {j \in Jobs : runner.job = j /\ runner.phase \in {"staged", "moved"}}

\* A publication holds its job row; without a crash every file on disk belongs to
\* a row, to a removal under way or to the publication.
Suggestions ==
    /\ \A j \in Publishing : job[j] = "running" /\ j \in png
    /\ C!SuggestionIsBacked
    /\ \A j \in doomed : job[j] = "completed" /\ j \notin row
    /\ crashes = 0 => png = row \cup doomed \cup Publishing /\ staged \subseteq Staging
    /\ C!CancelReachesPicture

\* One job at a time is under way, and its day still has room for it.
Done == {j \in today : job[j] = "completed"}
DailyRoom ==
    /\ \A i, j \in Jobs : job[i] \in C!Active /\ job[j] \in C!Active => i = j
    /\ IsFiniteSet(today)
    /\ \A j \in today : job[j] \in C!Active => Cardinality(Done) < DailyLimit
    /\ Cardinality(Done) <= DailyLimit

\* The inductive invariant of the covers.
CoverInv == CoverType /\ CoverFiles /\ Suggestions /\ DailyRoom

\* There is no cover and no job at first.
LEMMA CoverInit == ASSUME C!CoverConstants PROVE C!Init => CoverInv
  <1> SUFFICES ASSUME C!Init PROVE CoverInv
    OBVIOUS
  <1>1. CoverType
    <2>1. job \in [Jobs -> {"none", "queued", "running", "completed", "failed", "cancelled"}]
      BY DEF C!Init
    <2>2. req \in [step : {"idle", "staged", "aside", "moved", "commit", "remove"}, fmt : C!Formats \cup {None}]
      BY DEF C!Init, C!NoRequest
    <2> QED
      BY <2>1, <2>2 DEF C!Init, CoverType
  <1>2. CoverFiles
    BY DEF C!Init, C!NoRequest, CoverFiles, C!CoverSurvives
  <1>3. Suggestions
    BY DEF C!Init, C!Idle, Suggestions, Publishing, Staging, C!SuggestionIsBacked, C!CancelReachesPicture
  <1>4. DailyRoom
    <2>1. today = {} /\ Done = {} /\ \A j \in Jobs : job[j] \notin C!Active
      BY DEF C!Init, C!Active, Done
    <2>2. IsFiniteSet(today) /\ Cardinality(Done) = 0
      BY <2>1, FS_EmptySet
    <2> QED
      BY <2>1, <2>2 DEF DailyRoom, C!CoverConstants
  <1> QED
    BY <1>1, <1>2, <1>3, <1>4 DEF CoverInv

\* Done is counted as a finite set.
LEMMA DoneFacts == ASSUME DailyRoom PROVE IsFiniteSet(Done) /\ Cardinality(Done) \in Nat
  <1>1. IsFiniteSet(today) /\ Done \in SUBSET today
    BY DEF DailyRoom, Done
  <1> QED
    BY <1>1, FS_Subset, FS_CardinalityType

\* Jobs that end without a suggestion take no room.
LEMMA RoomStays ==
    ASSUME CoverType, CoverType', DailyRoom, UNCHANGED today,
           \A j \in Jobs : (job'[j] = "completed") = (job[j] = "completed"),
           \A j \in Jobs : job'[j] \in C!Active => job[j] \in C!Active
    PROVE  DailyRoom'
  <1>0. today' = today /\ \A j \in today : j \in Jobs
    BY DEF CoverType
  <1>1. Done' = Done
    <2>1. \A j \in today : (job'[j] = "completed") <=> (job[j] = "completed")
      BY <1>0
    <2> QED
      BY <1>0, <2>1 DEF Done
  <1>2. Cardinality(Done)' = Cardinality(Done)
    BY <1>1, Zenon
  <1>3. (\A i, j \in Jobs : job[i] \in C!Active /\ job[j] \in C!Active => i = j)'
    BY DEF DailyRoom, C!Active
  <1>4. (\A j \in today : job[j] \in C!Active => Cardinality(Done) < DailyLimit)'
    BY <1>0, <1>2 DEF DailyRoom, C!Active
  <1>5. (IsFiniteSet(today) /\ Cardinality(Done) <= DailyLimit)'
    BY <1>0, <1>2 DEF DailyRoom
  <1> QED
    BY <1>3, <1>4, <1>5 DEF DailyRoom

\* Steps that touch neither jobs nor suggestions.
LEMMA SuggestionsStay ==
    ASSUME Suggestions, DailyRoom, UNCHANGED <<job, today, runner, cancelling, row, png, staged, doomed, crashes>>
    PROVE  Suggestions' /\ DailyRoom'
  <1>1. Publishing' = Publishing /\ Staging' = Staging /\ Done' = Done
    BY DEF Publishing, Staging, Done
  <1>2. Suggestions'
    BY <1>1 DEF Suggestions, C!SuggestionIsBacked, C!CancelReachesPicture
  <1>3. Cardinality(Done)' = Cardinality(Done)
    BY <1>1, Zenon
  <1> QED
    BY <1>2, <1>3 DEF DailyRoom

\* The cover endpoints: a request goes step by step, whatever fails.
LEMMA CoverStepKeeps == ASSUME C!CoverConstants, CoverInv, C!CoverStep PROVE CoverInv'
  <1>0. CoverType /\ CoverFiles /\ Suggestions /\ DailyRoom
    BY DEF CoverInv
  <1>c. None \notin C!Formats /\ "png" \in C!Formats
    BY DEF C!CoverConstants, C!Formats
  <1> DEFINE files == <<job, today, runner, cancelling, row, png, staged, doomed, crashes>>
  <1>1. ASSUME NEW f \in C!Formats, C!BeginWrite(f) PROVE CoverType' /\ CoverFiles' /\ UNCHANGED files
    <2>1. req' = [step |-> "staged", fmt |-> f] /\ final' \in {final, old} /\ old' \in {old, None}
          /\ (final = None => final' = old) /\ (final # None => final' = final /\ old' = old) /\ key' = key
      BY <1>1 DEF C!BeginWrite, C!Restored, C!OldAfterRestore
    <2>2. UNCHANGED files
      BY <1>1 DEF C!BeginWrite, C!jobVars, C!fileVars
    <2>3. CoverType'
      BY <1>0, <2>1, <2>2 DEF CoverType
    <2>4. CoverFiles'
      BY <1>0, <1>c, <2>1 DEF CoverFiles, C!CoverSurvives, C!Resolved
    <2> QED
      BY <2>2, <2>3, <2>4
  <1>2. ASSUME C!SaveFails \/ C!SetAside \/ C!MoveIn \/ C!MoveInFails \/ C!DropOld \/ C!SetCoverKey
        PROVE  CoverType' /\ CoverFiles' /\ UNCHANGED files
    <2>1. UNCHANGED files
      BY <1>2 DEF C!SaveFails, C!SetAside, C!MoveIn, C!MoveInFails, C!DropOld, C!SetCoverKey, C!jobVars, C!fileVars
    <2>2. /\ C!NoRequest \in [step : {"idle", "staged", "aside", "moved", "commit", "remove"},
                             fmt : C!Formats \cup {None}]
          /\ C!NoRequest.step = "idle"
      BY DEF C!NoRequest
    <2>3. CASE C!SaveFails
      BY <1>0, <2>1, <2>2, <2>3 DEF C!SaveFails, CoverType, CoverFiles, C!CoverSurvives, C!Resolved
    <2>4. CASE C!SetAside
      BY <1>0, <2>1, <2>4 DEF C!SetAside, CoverType, CoverFiles, C!CoverSurvives, C!Resolved
    <2>5. CASE C!MoveIn
      BY <1>0, <1>c, <2>1, <2>5 DEF C!MoveIn, CoverType, CoverFiles, C!CoverSurvives, C!Resolved
    <2>6. CASE C!MoveInFails
      BY <1>0, <2>1, <2>2, <2>6
         DEF C!MoveInFails, C!Restored, C!OldAfterRestore, CoverType, CoverFiles, C!CoverSurvives, C!Resolved
    <2>7. CASE C!DropOld
      BY <1>0, <2>1, <2>7 DEF C!DropOld, CoverType, CoverFiles, C!CoverSurvives, C!Resolved
    <2>8. CASE C!SetCoverKey
      BY <1>0, <1>c, <2>1, <2>2, <2>8 DEF C!SetCoverKey, CoverType, CoverFiles, C!CoverSurvives, C!Resolved
    <2> QED
      BY <1>2, <2>1, <2>3, <2>4, <2>5, <2>6, <2>7, <2>8
  <1>3. ASSUME C!DeleteCover \/ C!DeletePlaylist \/ C!RemoveCoverFiles \/ C!Trash \/ C!Restore
        PROVE  CoverType' /\ CoverFiles' /\ UNCHANGED files
    <2>1. UNCHANGED files
      BY <1>3 DEF C!DeleteCover, C!DeletePlaylist, C!RemoveCoverFiles, C!Trash, C!Restore, C!jobVars, C!fileVars
    <2>2. /\ C!NoRequest \in [step : {"idle", "staged", "aside", "moved", "commit", "remove"},
                             fmt : C!Formats \cup {None}]
          /\ C!NoRequest.step = "idle"
      BY DEF C!NoRequest
    <2>3. CASE C!DeleteCover \/ C!DeletePlaylist
      BY <1>0, <2>1, <2>3 DEF C!DeleteCover, C!DeletePlaylist, CoverType, CoverFiles, C!CoverSurvives, C!Resolved
    <2>4. CASE C!RemoveCoverFiles
      BY <1>0, <2>1, <2>2, <2>4 DEF C!RemoveCoverFiles, CoverType, CoverFiles, C!CoverSurvives, C!Resolved
    <2>5. CASE C!Trash \/ C!Restore
      BY <1>0, <2>1, <2>5 DEF C!Trash, C!Restore, C!coverVars, CoverType, CoverFiles, C!CoverSurvives, C!Resolved
    <2> QED
      BY <1>3, <2>1, <2>3, <2>4, <2>5
  <1>4. ASSUME C!Purge PROVE CoverInv'
    <2>1. UNCHANGED <<job, today, runner, cancelling, png, staged, crashes>>
          /\ row' = {} /\ doomed' = doomed \cup row /\ key' = None /\ runner.phase # "moved"
      BY <1>4 DEF C!Purge, C!jobVars
    <2>2. CoverType' /\ CoverFiles'
      BY <1>0, <1>4, <2>1 DEF C!Purge, CoverType, CoverFiles, C!CoverSurvives
    <2>3. Publishing = {} /\ Publishing' = {} /\ Staging' = Staging
      BY <2>1 DEF Publishing, Staging
    <2>4. Suggestions'
      BY <1>0, <2>1, <2>3 DEF Suggestions, C!SuggestionIsBacked, C!CancelReachesPicture
    <2>5. DailyRoom'
      BY <1>0, <2>1, <2>2, RoomStays
    <2> QED
      BY <2>2, <2>4, <2>5 DEF CoverInv
  <1>5. ASSUME CoverType', CoverFiles', UNCHANGED files PROVE CoverInv'
    BY <1>0, <1>5, SuggestionsStay DEF CoverInv
  <1> HIDE DEF files
  <1> QED
    BY <1>1, <1>2, <1>3, <1>4, <1>5, <1>c
       DEF C!CoverStep, C!UploadAlbumCover, C!UploadSongCover, C!UploadPlaylistCover, C!SelectSuggestion,
           C!DeleteAlbumCover, C!DeleteSongCover, C!DeletePlaylistCover

\* A runner that is not idle has a job.
LEMMA RunnerFacts ==
    ASSUME C!CoverConstants, CoverType
    PROVE  /\ runner.phase # "idle" =>
                /\ runner.job \in Jobs
                /\ runner.phase \in {"start", "loaded", "registered", "drawing", "staged", "moved"}
                /\ runner \in [job : Jobs, phase : {"start", "loaded", "registered", "drawing", "staged", "moved"}]
           /\ runner.phase = "idle" <=> runner = C!Idle
           /\ C!Idle.phase = "idle" /\ C!Idle.job = None /\ None \notin Jobs
           /\ runner.phase = "moved" <=> Publishing # {}
  <1>1. C!Idle.phase = "idle" /\ C!Idle.job = None /\ None \notin Jobs
    BY DEF C!Idle, C!CoverConstants
  <1>2. CASE runner = C!Idle
    BY <1>1, <1>2 DEF Publishing
  <1>3. CASE runner \in [job : Jobs, phase : {"start", "loaded", "registered", "drawing", "staged", "moved"}]
    BY <1>1, <1>3 DEF Publishing
  <1> QED
    BY <1>2, <1>3 DEF CoverType

\* Steps that leave the files and the publication alone.
LEMMA SuggestionsKept ==
    ASSUME CoverType, Suggestions, UNCHANGED <<row, png, doomed, staged, crashes>>,
           Publishing' = Publishing, Staging' = Staging,
           \A j \in Jobs : job[j] = "completed" => job'[j] = "completed",
           \A j \in Publishing : job'[j] = "running",
           C!CancelReachesPicture'
    PROVE  Suggestions'
  <1>1. C!SuggestionIsBacked'
    BY DEF CoverType, Suggestions, C!SuggestionIsBacked
  <1>2. (\A j \in doomed : job[j] = "completed" /\ j \notin row)'
    BY DEF CoverType, Suggestions
  <1>3. (crashes = 0 => png = row \cup doomed \cup Publishing /\ staged \subseteq Staging)'
    BY DEF Suggestions
  <1>4. (\A j \in Publishing : job[j] = "running" /\ j \in png)'
    BY DEF Suggestions
  <1> QED
    BY <1>1, <1>2, <1>3, <1>4 DEF Suggestions

\* A failed run leaves every terminal row as it is.
LEMMA EndedFacts ==
    ASSUME CoverType, NEW j \in Jobs
    PROVE  /\ C!Ended(j, "failed") \in [Jobs -> {"none", "queued", "running", "completed", "failed", "cancelled"}]
           /\ \A i \in Jobs : (C!Ended(j, "failed")[i] = "completed") = (job[i] = "completed")
           /\ \A i \in Jobs : (C!Ended(j, "failed")[i] = "cancelled") = (job[i] = "cancelled")
           /\ \A i \in Jobs : C!Ended(j, "failed")[i] \in C!Active => job[i] \in C!Active
           /\ \A i \in Jobs \ {j} : C!Ended(j, "failed")[i] = job[i]
  <1>1. PICK s \in {"completed", "failed", "cancelled"} :
          /\ C!Ended(j, "failed") = [job EXCEPT ![j] = s]
          /\ (s = "completed") = (job[j] = "completed")
          /\ (s = "cancelled") = (job[j] = "cancelled")
    <2>1. CASE job[j] \in C!Terminal
      BY <2>1 DEF C!Ended, C!Terminal, CoverType
    <2>2. CASE job[j] \notin C!Terminal
      BY <2>2 DEF C!Ended, C!Terminal, CoverType
    <2> QED
      BY <2>1, <2>2
  <1> QED
    BY <1>1 DEF C!Active, CoverType

\* The runner: one job at a time, and its row is read before every step.
LEMMA RunnerStepKeeps == ASSUME C!CoverConstants, CoverInv, C!RunnerStep PROVE CoverInv'
  <1>0. CoverType /\ CoverFiles /\ Suggestions /\ DailyRoom
    BY DEF CoverInv
  <1> DEFINE r == runner.job
  <1>r. /\ r \in Jobs /\ runner.phase # "idle" /\ C!Idle.phase = "idle" /\ C!Idle.job = None /\ None \notin Jobs
        /\ runner.phase \in {"start", "loaded", "registered", "drawing", "staged", "moved"}
        /\ runner \in [job : Jobs, phase : {"start", "loaded", "registered", "drawing", "staged", "moved"}]
    BY <1>0, RunnerFacts
       DEF C!RunnerStep, C!LoadStart, C!RegisterPicture, C!AskGateway, C!Drawn, C!NoPicture, C!BeginPublish,
           C!CommitPublish
  <1> DEFINE failed == C!Ended(r, "failed")
  <1>e. /\ failed \in [Jobs -> {"none", "queued", "running", "completed", "failed", "cancelled"}]
        /\ \A i \in Jobs : (failed[i] = "completed") = (job[i] = "completed")
        /\ \A i \in Jobs : (failed[i] = "cancelled") = (job[i] = "cancelled")
        /\ \A i \in Jobs : failed[i] \in C!Active => job[i] \in C!Active
    BY <1>0, <1>r, EndedFacts
  <1>f. CoverFiles' /\ UNCHANGED <<key, final, old, req, crashes>>
    <2>1. UNCHANGED <<key, final, old, req, crashes>>
      BY DEF C!RunnerStep, C!LoadStart, C!RegisterPicture, C!AskGateway, C!Drawn, C!NoPicture, C!BeginPublish,
             C!CommitPublish, C!coverVars
    <2> QED
      BY <1>0, <2>1 DEF CoverFiles, C!CoverSurvives, C!Resolved
  <1>1. ASSUME job' = job \/ job' = failed, UNCHANGED today, CoverType' PROVE DailyRoom'
    BY <1>0, <1>1, <1>e, RoomStays
  <1> HIDE DEF failed
  <1>2. ASSUME C!LoadStart \/ C!RegisterPicture \/ C!AskGateway \/ C!NoPicture PROVE CoverInv'
    <2>1. /\ runner' = C!Idle \/ \E p \in {"loaded", "registered", "drawing"} : runner' = [runner EXCEPT !.phase = p]
          /\ job' = job \/ job' = failed
          /\ UNCHANGED <<today, cancelling, row, png, staged, doomed>>
          /\ runner.phase \in {"start", "loaded", "registered", "drawing"}
          /\ runner'.phase = "drawing" => job'[r] = "running"
      BY <1>2, <1>r
         DEF failed, C!LoadStart, C!RegisterPicture, C!AskGateway, C!NoPicture, C!fileVars
    <2>2. CoverType'
      BY <1>0, <1>f, <1>r, <1>e, <2>1 DEF CoverType
    <2>3. Publishing = {} /\ Publishing' = {} /\ Staging = {} /\ Staging' = {}
      BY <1>r, <2>1 DEF Publishing, Staging
    <2>4. C!CancelReachesPicture'
      BY <1>r, <2>1 DEF C!CancelReachesPicture
    <2>5. Suggestions'
      BY <1>0, <1>e, <1>f, <2>1, <2>3, <2>4, SuggestionsKept
    <2> QED
      BY <1>f, <1>1, <2>1, <2>2, <2>5 DEF CoverInv
  <1>3. ASSUME C!Drawn PROVE CoverInv'
    <2>1. /\ runner.phase = "drawing" /\ runner' = [runner EXCEPT !.phase = "staged"] /\ staged' = staged \cup {r}
          /\ UNCHANGED <<job, today, cancelling, row, png, doomed>>
      BY <1>3 DEF C!Drawn
    <2>2. CoverType'
      BY <1>0, <1>f, <1>r, <2>1 DEF CoverType
    <2>3. Publishing = {} /\ Publishing' = {} /\ Staging = {} /\ Staging' = {r}
      BY <1>r, <2>1 DEF Publishing, Staging
    <2>4. Suggestions'
      BY <1>0, <1>f, <1>r, <2>1, <2>3 DEF Suggestions, C!SuggestionIsBacked, C!CancelReachesPicture
    <2> QED
      BY <1>f, <1>1, <2>1, <2>2, <2>4 DEF CoverInv
  <1>4. ASSUME C!BeginPublish PROVE CoverInv'
    <2>1. CASE job[r] = "running"
      <3>1. /\ runner.phase = "staged" /\ runner' = [runner EXCEPT !.phase = "moved"] /\ png' = png \cup {r}
            /\ UNCHANGED <<job, today, cancelling, row, staged, doomed>>
        BY <1>4, <2>1 DEF C!BeginPublish
      <3>2. CoverType'
        BY <1>0, <1>f, <1>r, <3>1 DEF CoverType
      <3>3. Publishing = {} /\ Publishing' = {r} /\ Staging = {r} /\ Staging' = {r}
        BY <1>r, <3>1 DEF Publishing, Staging
      <3>4. Suggestions'
        BY <1>0, <1>f, <1>r, <2>1, <3>1, <3>3 DEF Suggestions, C!SuggestionIsBacked, C!CancelReachesPicture
      <3> QED
        BY <1>f, <1>1, <3>1, <3>2, <3>4 DEF CoverInv
    <2>2. CASE job[r] # "running"
      <3>1. /\ runner.phase = "staged" /\ runner' = C!Idle /\ staged' = staged \ {r} /\ job' = failed
            /\ UNCHANGED <<today, cancelling, row, png, doomed>>
        BY <1>4, <2>2 DEF C!BeginPublish, C!RunFails, failed
      <3>2. CoverType'
        BY <1>0, <1>e, <1>f, <1>r, <3>1 DEF CoverType
      <3>3. Publishing = {} /\ Publishing' = {} /\ Staging = {r} /\ Staging' = {}
        BY <1>r, <3>1 DEF Publishing, Staging
      <3>4. Suggestions'
        BY <1>0, <1>e, <1>f, <1>r, <3>1, <3>3
           DEF CoverType, Suggestions, C!SuggestionIsBacked, C!CancelReachesPicture
      <3> QED
        BY <1>f, <1>1, <3>1, <3>2, <3>4 DEF CoverInv
    <2> QED
      BY <2>1, <2>2
  <1>5. ASSUME C!CommitPublish PROVE CoverInv'
    <2>0. /\ runner.phase = "moved" /\ runner' = C!Idle /\ staged' = staged \ {r}
          /\ UNCHANGED <<today, cancelling, doomed>>
      BY <1>5 DEF C!CommitPublish, C!RunFails
    <2>1. /\ Publishing = {r} /\ Publishing' = {} /\ Staging = {r} /\ Staging' = {}
          /\ job[r] = "running" /\ r \in png /\ r \notin row /\ r \notin doomed
      <3>1. Publishing = {r} /\ Publishing' = {} /\ Staging = {r} /\ Staging' = {}
        BY <1>r, <2>0 DEF Publishing, Staging
      <3> QED
        BY <1>0, <3>1 DEF Suggestions, C!SuggestionIsBacked
    <2>2. CASE job' = [job EXCEPT ![r] = "completed"] /\ row' = row \cup {r} /\ UNCHANGED png
      <3>1. CoverType'
        BY <1>0, <1>f, <1>r, <2>0, <2>2 DEF CoverType
      <3>2. Suggestions'
        BY <1>0, <1>f, <1>r, <2>0, <2>1, <2>2
           DEF CoverType, Suggestions, C!SuggestionIsBacked, C!CancelReachesPicture
      <3>3. \A i \in Jobs : job'[i] \notin C!Active
        BY <1>0, <1>r, <2>1, <2>2 DEF CoverType, DailyRoom, C!Active
      <3>4. Done' \subseteq Done \cup {r} /\ (r \notin today => Done' = Done)
        BY <1>0, <2>0, <2>2 DEF CoverType, Done
      <3>5. (Cardinality(Done) <= DailyLimit)'
        <4>1. IsFiniteSet(Done) /\ Cardinality(Done) \in Nat /\ DailyLimit \in Nat
          BY <1>0, DoneFacts DEF C!CoverConstants
        <4>2. CASE r \in today
          <5>1. Cardinality(Done) < DailyLimit
            BY <1>0, <2>1, <4>2 DEF DailyRoom, C!Active
          <5>2. r \notin Done
            BY <2>1 DEF Done
          <5>3. IsFiniteSet(Done \cup {r}) /\ Cardinality(Done \cup {r}) = Cardinality(Done) + 1
            BY <4>1, <5>2, FS_AddElement, Zenon
          <5>4. Cardinality(Done') <= Cardinality(Done \cup {r}) /\ Cardinality(Done') \in Nat
            <6>1. Done' \in SUBSET (Done \cup {r})
              BY <3>4
            <6> QED
              BY <5>3, <6>1, FS_Subset, FS_CardinalityType
          <5> QED
            BY <4>1, <5>1, <5>3, <5>4
        <4>3. CASE r \notin today
          <5>1. Cardinality(Done)' = Cardinality(Done)
            BY <3>4, <4>3, Zenon
          <5> QED
            BY <1>0, <5>1 DEF DailyRoom
        <4> QED
          BY <4>2, <4>3
      <3>6. DailyRoom'
        BY <1>0, <2>0, <3>1, <3>3, <3>5 DEF CoverType, DailyRoom
      <3> QED
        BY <1>f, <3>1, <3>2, <3>6 DEF CoverInv
    <2>3. CASE job' = failed /\ png' = png \ {r} /\ UNCHANGED row
      <3>1. CoverType'
        BY <1>0, <1>e, <1>f, <1>r, <2>0, <2>3 DEF CoverType
      <3>2. Suggestions'
        BY <1>0, <1>e, <1>f, <1>r, <2>0, <2>1, <2>3
           DEF CoverType, Suggestions, C!SuggestionIsBacked, C!CancelReachesPicture
      <3> QED
        BY <1>f, <1>1, <2>0, <2>3, <3>1, <3>2 DEF CoverInv
    <2> QED
      BY <1>5, <2>2, <2>3 DEF C!CommitPublish, C!RunFails, failed
  <1> QED
    BY <1>2, <1>3, <1>4, <1>5 DEF C!RunnerStep

\* Requests, claims, cancels, the reaper, removals.
LEMMA JobStepKeeps == ASSUME C!CoverConstants, CoverInv, C!JobStep PROVE CoverInv'
  <1>0. CoverType /\ CoverFiles /\ Suggestions /\ DailyRoom
    BY DEF CoverInv
  <1>r. /\ C!Idle.phase = "idle" /\ C!Idle.job = None /\ None \notin Jobs
        /\ runner.phase = "idle" <=> runner = C!Idle
    BY <1>0, RunnerFacts
  <1>f. CoverFiles' /\ UNCHANGED <<key, final, old, req, crashes>>
    <2>1. UNCHANGED <<key, final, old, req, crashes>>
      BY DEF C!JobStep, C!RequestSuggestion, C!Claim, C!CancelJob, C!AbortPicture, C!Reap, C!Discard,
             C!RemoveSuggestionFiles, C!EndSession, C!NewDay, C!coverVars
    <2> QED
      BY <1>0, <2>1 DEF CoverFiles, C!CoverSurvives, C!Resolved
  <1>p. \A j \in Jobs : j \in Publishing <=> runner.job = j /\ runner.phase = "moved"
    BY DEF Publishing
  <1>1. ASSUME NEW j \in Jobs, C!RequestSuggestion(j) PROVE CoverInv'
    <2>1. /\ job[j] = "none" /\ \A i \in Jobs : job[i] \notin C!Active
          /\ job' = [job EXCEPT ![j] = "queued"] /\ today' = today \cup {j}
          /\ C!Cardinality(Done) < DailyLimit
          /\ UNCHANGED <<runner, cancelling, row, png, staged, doomed>>
      BY <1>1 DEF C!RequestSuggestion, C!MayRequest, C!fileVars, Done
    <2>2. CoverType'
      BY <1>0, <1>f, <2>1 DEF CoverType
    <2>3. Publishing' = Publishing /\ Staging' = Staging
      BY <2>1 DEF Publishing, Staging
    <2>4. C!CancelReachesPicture'
      BY <1>0, <2>1 DEF CoverType, Suggestions, C!CancelReachesPicture
    <2>5. \A i \in Publishing : i \in Jobs /\ i # j /\ job[i] = "running"
      BY <1>0, <2>1 DEF Suggestions, Publishing
    <2>6. Suggestions'
      BY <1>0, <1>f, <2>1, <2>3, <2>4, <2>5, SuggestionsKept DEF CoverType
    <2>7. Done' = Done /\ Cardinality(Done) < DailyLimit
      BY <1>0, <2>1, FileSets DEF CoverType, Done
    <2>8. Cardinality(Done)' = Cardinality(Done)
      BY <2>7, Zenon
    <2>9. IsFiniteSet(today')
      BY <1>0, <2>1, FS_AddElement, Zenon DEF DailyRoom
    <2>10. \A i \in Jobs : job'[i] \in C!Active => i = j
      BY <1>0, <2>1 DEF CoverType
    <2>11. Cardinality(Done) \in Nat /\ DailyLimit \in Nat
      BY <1>0, DoneFacts DEF C!CoverConstants
    <2>12. DailyRoom'
      <3>1. (\A i, k \in Jobs : job[i] \in C!Active /\ job[k] \in C!Active => i = k)'
        BY <2>10 DEF C!Active
      <3>2. (\A k \in today : job[k] \in C!Active => Cardinality(Done) < DailyLimit)'
        BY <2>7, <2>8
      <3>3. (Cardinality(Done) <= DailyLimit)'
        BY <2>7, <2>8, <2>11
      <3> QED
        BY <2>9, <3>1, <3>2, <3>3 DEF DailyRoom
    <2> QED
      BY <1>f, <2>2, <2>6, <2>12 DEF CoverInv
  <1>2. ASSUME NEW j \in Jobs, C!Claim(j) PROVE CoverInv'
    <2>1. /\ runner = C!Idle /\ job[j] = "queued" /\ job' = [job EXCEPT ![j] = "running"]
          /\ runner' = [job |-> j, phase |-> "start"]
          /\ UNCHANGED <<today, cancelling, row, png, staged, doomed>>
      BY <1>2 DEF C!Claim, C!fileVars
    <2>2. CoverType'
      BY <1>0, <1>f, <2>1 DEF CoverType
    <2>3. Publishing = {} /\ Publishing' = {} /\ Staging = {} /\ Staging' = {}
      BY <1>r, <2>1 DEF Publishing, Staging
    <2>4. C!CancelReachesPicture'
      BY <2>1 DEF C!CancelReachesPicture
    <2>5. Suggestions'
      BY <1>0, <1>f, <2>1, <2>3, <2>4, SuggestionsKept DEF CoverType
    <2>6. DailyRoom'
      BY <1>0, <2>1, <2>2, RoomStays DEF CoverType, C!Active
    <2> QED
      BY <1>f, <2>2, <2>5, <2>6 DEF CoverInv
  <1>3. ASSUME NEW j \in Jobs, C!CancelJob(j) \/ C!Reap(j) PROVE CoverInv'
    <2>1. PICK s \in {"cancelled", "failed"} :
            /\ job[j] \in C!Active /\ ~(runner.job = j /\ runner.phase = "moved")
            /\ job' = [job EXCEPT ![j] = s]
            /\ cancelling' \in {cancelling, cancelling \cup {j}} /\ (s = "cancelled" => j \in cancelling')
            /\ UNCHANGED <<today, runner, row, png, staged, doomed>>
      BY <1>3 DEF C!CancelJob, C!Reap, C!Active, C!fileVars
    <2>2. CoverType'
      BY <1>0, <1>f, <2>1 DEF CoverType
    <2>3. Publishing' = Publishing /\ Staging' = Staging /\ j \notin Publishing
      BY <2>1 DEF Publishing, Staging
    <2>4. C!CancelReachesPicture'
      <3>1. ASSUME runner.phase = "drawing" PROVE runner.job \in Jobs
        BY <1>0, <3>1, RunnerFacts
      <3> QED
        BY <1>0, <2>1, <3>1 DEF CoverType, Suggestions, C!CancelReachesPicture
    <2>5. /\ \A i \in Publishing : i \in Jobs /\ job'[i] = "running"
          /\ \A i \in Jobs : job[i] = "completed" => job'[i] = "completed"
          /\ \A i \in Jobs : (job'[i] = "completed") = (job[i] = "completed")
          /\ \A i \in Jobs : job'[i] \in C!Active => job[i] \in C!Active
      BY <1>0, <2>1, <2>3 DEF CoverType, Suggestions, Publishing, C!Active
    <2>6. Suggestions'
      BY <1>0, <1>f, <2>1, <2>3, <2>4, <2>5, SuggestionsKept
    <2>7. DailyRoom'
      BY <1>0, <2>1, <2>2, <2>5, RoomStays
    <2> QED
      BY <1>f, <2>2, <2>6, <2>7 DEF CoverInv
  <1>4. ASSUME NEW j \in Jobs, C!AbortPicture(j) PROVE CoverInv'
    <2>1. /\ cancelling' = cancelling \ {j} /\ UNCHANGED <<job, today, row, png, staged, doomed>>
          /\ runner' = IF C!PictureOf(j) THEN C!Idle ELSE runner
      BY <1>4 DEF C!AbortPicture, C!fileVars
    <2>2. CoverType'
      BY <1>0, <1>f, <2>1 DEF CoverType
    <2>3. Publishing' = Publishing /\ Staging' = Staging
      BY <1>r, <2>1 DEF Publishing, Staging, C!PictureOf
    <2>4. C!CancelReachesPicture'
      BY <1>0, <1>r, <2>1 DEF Suggestions, C!CancelReachesPicture, C!PictureOf
    <2>5. \A i \in Publishing : i \in Jobs /\ job'[i] = "running"
      BY <1>0, <2>1 DEF Suggestions, Publishing
    <2>6. Suggestions'
      BY <1>0, <1>f, <2>1, <2>3, <2>4, <2>5, SuggestionsKept
    <2>7. DailyRoom'
      BY <1>0, <2>1, <2>2, RoomStays
    <2> QED
      BY <1>f, <2>2, <2>6, <2>7 DEF CoverInv
  <1>5. ASSUME NEW T \in SUBSET Jobs, C!Discard(T) \/ C!RemoveSuggestionFiles PROVE CoverInv'
    <2>1. /\ UNCHANGED <<job, today, runner, cancelling, staged>>
          /\ \/ T \subseteq row /\ row' = row \ T /\ doomed' = doomed \cup T /\ png' = png
             \/ row' = row /\ doomed' = {} /\ png' = png \ doomed
      BY <1>5 DEF C!Discard, C!RemoveSuggestionFiles, C!jobVars
    <2>2. CoverType'
      BY <1>0, <1>f, <2>1 DEF CoverType
    <2>3. Publishing' = Publishing /\ Staging' = Staging
      BY <2>1 DEF Publishing, Staging
    <2>4. \A i \in Publishing : i \notin doomed /\ i \notin row
      BY <1>0 DEF Suggestions, C!SuggestionIsBacked
    <2>5. Suggestions'
      <3>1. (\A i \in Publishing : job[i] = "running" /\ i \in png)'
        BY <1>0, <2>1, <2>3, <2>4 DEF Suggestions
      <3>2. C!SuggestionIsBacked' /\ C!CancelReachesPicture'
        BY <1>0, <2>1 DEF Suggestions, C!SuggestionIsBacked, C!CancelReachesPicture
      <3>3. (\A i \in doomed : job[i] = "completed" /\ i \notin row)'
        BY <1>0, <2>1 DEF Suggestions, C!SuggestionIsBacked
      <3>4. (crashes = 0 => png = row \cup doomed \cup Publishing /\ staged \subseteq Staging)'
        <4>1. ASSUME crashes = 0 PROVE png = row \cup doomed \cup Publishing /\ staged \subseteq Staging
          BY <1>0, <4>1 DEF Suggestions
        <4>2. \A i \in doomed : i \notin row
          BY <1>0 DEF Suggestions
        <4>3. ASSUME crashes = 0 PROVE png' = row' \cup doomed' \cup Publishing
          BY <2>1, <2>4, <4>1, <4>2, <4>3
        <4> QED
          BY <1>f, <2>1, <2>3, <4>1, <4>3
      <3> QED
        BY <3>1, <3>2, <3>3, <3>4 DEF Suggestions
    <2>6. DailyRoom'
      BY <1>0, <2>1, <2>2, RoomStays
    <2> QED
      BY <1>f, <2>2, <2>5, <2>6 DEF CoverInv
  <1>6. ASSUME C!EndSession \/ C!NewDay PROVE CoverInv'
    <2>1. UNCHANGED <<job, runner, cancelling, row, png, staged, doomed>> /\ today' \in {today, {}}
      BY <1>6 DEF C!EndSession, C!NewDay, C!jobVars, C!fileVars
    <2>2. CoverType'
      BY <1>0, <1>f, <2>1 DEF CoverType
    <2>3. Publishing' = Publishing /\ Staging' = Staging
      BY <2>1 DEF Publishing, Staging
    <2>4. Suggestions'
      BY <1>0, <1>f, <2>1, <2>3 DEF Suggestions, C!SuggestionIsBacked, C!CancelReachesPicture
    <2>5. DailyRoom'
      <3>1. CASE today' = today
        BY <1>0, <2>1, <2>2, <3>1, RoomStays
      <3>2. CASE today' = {}
        <4>1. Done' = {} /\ DailyLimit \in Nat
          BY <3>2 DEF Done, C!CoverConstants
        <4>2. Cardinality(Done)' = 0 /\ IsFiniteSet(today')
          BY <3>2, <4>1, FS_EmptySet, Zenon
        <4> QED
          BY <1>0, <2>1, <3>2, <4>1, <4>2 DEF DailyRoom
      <3> QED
        BY <2>1, <3>1, <3>2
    <2> QED
      BY <1>f, <2>2, <2>4, <2>5 DEF CoverInv
  <1> QED
    BY <1>1, <1>2, <1>3, <1>4, <1>5, <1>6 DEF C!JobStep

\* A process that dies leaves the files of a publication, but no row of a job it
\* interrupted.
LEMMA CrashKeeps == ASSUME C!CoverConstants, CoverInv, C!CrashAndRestart PROVE CoverInv'
  <1>0. CoverType /\ CoverFiles /\ Suggestions /\ DailyRoom
    BY DEF CoverInv
  <1>1. /\ crashes' = crashes + 1 /\ req' = C!NoRequest /\ runner' = C!Idle /\ cancelling' = {} /\ doomed' = {}
        /\ UNCHANGED <<key, final, old, today, png>>
        /\ job' = [j \in Jobs |-> IF job[j] = "running" THEN "failed" ELSE job[j]]
        /\ row' \subseteq row /\ staged' \subseteq staged
    BY DEF C!CrashAndRestart, C!Recover
  <1>2. /\ C!NoRequest \in [step : {"idle", "staged", "aside", "moved", "commit", "remove"},
                           fmt : C!Formats \cup {None}]
        /\ C!NoRequest.step = "idle" /\ C!Idle.phase = "idle"
    BY DEF C!NoRequest, C!Idle
  <1>3. crashes' \in Nat /\ crashes' # 0
    BY <1>0, <1>1 DEF CoverType
  <1>4. CoverType'
    BY <1>0, <1>1, <1>2, <1>3 DEF CoverType
  <1>5. CoverFiles'
    BY <1>0, <1>1, <1>2 DEF CoverFiles, C!CoverSurvives, C!Resolved
  <1>6. Suggestions'
    BY <1>0, <1>1, <1>2, <1>3
       DEF CoverType, Suggestions, Publishing, C!SuggestionIsBacked, C!CancelReachesPicture
  <1>7. DailyRoom'
    <2>1. \A j \in Jobs : (job'[j] = "completed") = (job[j] = "completed")
      BY <1>1
    <2>2. \A j \in Jobs : job'[j] \in C!Active => job[j] \in C!Active
      BY <1>1 DEF C!Active
    <2> QED
      BY <1>0, <1>1, <1>4, <2>1, <2>2, RoomStays
  <1> QED
    BY <1>4, <1>5, <1>6, <1>7 DEF CoverInv

\* Every step keeps the invariant.
LEMMA CoverNext == ASSUME C!CoverConstants PROVE CoverInv /\ [C!Next]_(C!vars) => CoverInv'
  <1> SUFFICES ASSUME CoverInv, [C!Next]_(C!vars) PROVE CoverInv'
    OBVIOUS
  <1>1. ASSUME UNCHANGED C!vars PROVE CoverInv'
    <2>1. UNCHANGED <<key, final, old, req, job, today, runner, cancelling, row, png, staged, doomed, crashes>>
      BY <1>1 DEF C!vars, C!coverVars, C!jobVars, C!fileVars
    <2>2. CoverType' /\ CoverFiles'
      BY <2>1 DEF CoverInv, CoverType, CoverFiles, C!CoverSurvives, C!Resolved
    <2> QED
      BY <2>1, <2>2, SuggestionsStay DEF CoverInv
  <1> QED
    BY <1>1, CoverStepKeeps, RunnerStepKeeps, JobStepKeeps, CrashKeeps DEF C!Next

\* Whatever fails or dies between two renames, an item with a cover keeps a whole
\* one; a suggestion has its picture and a completed job; without a crash nothing
\* is left on disk; concurrent requests never pass the day's limit; and no picture
\* is drawn for a job whose cancel request is over (covers.py, cover_suggestions.py).
THEOREM CoversKeepStanding == CoverSpec => []CoversStand
  <1>1. C!CoverConstants
    BY PartConstants
  <1>2. C!Init => CoverInv
    BY <1>1, CoverInit
  <1>3. CoverInv /\ [C!Next]_(C!vars) => CoverInv'
    BY <1>1, CoverNext
  <1>4. [C!Next /\ UNCHANGED referenceVars]_<<coverVars, referenceVars>> => [C!Next]_(C!vars)
    BY DEF coverVars, C!vars, C!coverVars, C!jobVars, C!fileVars
  <1>5. CoverInv => CoversStand
    <2> SUFFICES ASSUME CoverInv PROVE CoversStand
      OBVIOUS
    <2>1. CoverType /\ CoverFiles /\ Suggestions /\ DailyRoom
      BY DEF CoverInv
    <2>2. C!NoSuggestionLitter
      <3>1. C!Idle.phase = "idle"
        BY DEF C!Idle
      <3> QED
        BY <2>1, <3>1 DEF Suggestions, Publishing, Staging, C!NoSuggestionLitter
    <2>3. C!DailyLimitHolds
      BY <2>1, FileSets DEF DailyRoom, Done, C!DailyLimitHolds
    <2> QED
      BY <2>1, <2>2, <2>3 DEF CoverFiles, Suggestions, CoversStand
  <1> QED
    BY <1>2, <1>3, <1>4, <1>5, PTL DEF CoverSpec
=============================================================================
