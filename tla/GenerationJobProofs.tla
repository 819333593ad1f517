------------------------ MODULE GenerationJobProofs ------------------------
(***************************************************************************)
(* Proofs about GenerationJob, for any number of slots, reapers, takes,    *)
(* kills and restarts.                                                     *)
(***************************************************************************)
EXTENDS GenerationJob, FiniteSetTheorems, TLAPS
-----------------------------------------------------------------------------
(***************************************************************************)
(* The type invariant, and how far a run is in its series.                 *)
(***************************************************************************)

\* The types of the job's row and of its reapers.
RowType ==
    /\ status \in {"none"} \cup Active \cup Terminal
    /\ errorType \in ErrorTypes
    /\ progress \in 0 .. TakeUnits * Count
    /\ stale \in BOOLEAN
    /\ aged \in BOOLEAN
    /\ seenSame \in [Reapers -> BOOLEAN]

\* The types of the runs of the job.
SlotType ==
    /\ run \in [Slots -> RunStates]
    /\ index \in [Slots -> 0 .. Count]
    /\ completed \in [Slots -> 0 .. Count]
    /\ failure \in [Slots -> {"none", "gpu_out_of_memory", "generation_error"}]
    /\ phase \in [Slots -> {-1} \cup Phases]
    /\ reached \in [Slots -> 0 .. TakeUnits * Count]
    /\ thread \in [Slots -> {"none", "encoding", "written"}]

\* The types of the request, the queue and the process.
OtherType ==
    /\ api \in {"none", "created", "done"}
    /\ takes \in Nat
    /\ orphans \in Nat
    /\ entries \in Nat
    /\ proc \in {"up", "draining", "down"}
    /\ recovery \in {"none", "startup", "shutdown"}
    /\ recoverySaw \in BOOLEAN
    /\ lock \in BOOLEAN
    /\ seenStatus \in [Reapers -> {"none"} \cup Active]
    /\ crashes \in 0 .. MaxCrashes
    /\ restarts \in 0 .. MaxRestarts

\* A run in its series.
InSeries == {"loop", "render", "saving"}

\* A run attempts no take beyond its count, counts no take it did not attempt,
\* has a failure for every take it does not count, and reports no progress
\* beyond the saving of its current take; its thread runs while it waits for it.
SeriesOrder(s) ==
    /\ completed[s] <= index[s]
    /\ run[s] \in {"render", "saving"} => index[s] < Count
    /\ run[s] \in {"render", "saving"} => reached[s] <= TakeUnits * index[s] + StartsAt[SavingTake]
    /\ run[s] = "loop" => reached[s] <= TakeUnits * index[s]
    /\ run[s] \in InSeries /\ completed[s] < index[s] => failure[s] # "none"
    /\ run[s] = "saving" => thread[s] # "none"
    /\ run[s] \notin {"idle", "finish", "saving"} => thread[s] = "none"

\* The inductive type invariant.
SeriesInv == RowType /\ SlotType /\ OtherType /\ \A s \in Slots : SeriesOrder(s)

\* The three parts are the type invariant.
LEMMA TypeParts == TypeOK <=> RowType /\ SlotType /\ OtherType
  BY DEF TypeOK, RowType, SlotType, OtherType

\* Where a take's phases begin and end, in twentieths of the take.
LEMMA PhaseShares ==
    \A p \in Phases : /\ StartsAt[p] \in Nat /\ Weight[p] \in Nat
                      /\ StartsAt[p] + Weight[p] <= TakeUnits
                      /\ p # SavingTake => StartsAt[p] + Weight[p] <= StartsAt[SavingTake]
                      /\ StartsAt[SavingTake] = 14
  BY DEF Phases, StartsAt, Weight, TakeUnits, SavingTake

\* A status write leaves a row a row, and a terminal status as it is.
LEMMA RowWritten ==
    ASSUME RowType, NEW st \in Active \cup Terminal, NEW e \in ErrorTypes,
           NEW p \in 0 .. TakeUnits * Count, UpdateJobStatus(st, e, p)
    PROVE  /\ RowType'
           /\ status \in Terminal => UNCHANGED rowVars
           /\ status \notin Terminal => status' = st /\ errorType' = e /\ progress' = p
  BY DEF RowType, UpdateJobStatus, WriteRefused, Beat, rowVars

\* A step that leaves the row alone leaves it a row.
LEMMA RowLeft == ASSUME RowType, UNCHANGED rowVars PROVE RowType'
  BY DEF RowType, rowVars

\* A new run, and the row before the request, are in order.
LEMMA SeriesInit == Init => SeriesInv
  <1> SUFFICES ASSUME Init PROVE SeriesInv
    OBVIOUS
  <1> USE GenerationJobAssumption
  <1>1. RowType
    <2>1. stale \in BOOLEAN /\ aged \in BOOLEAN /\ seenSame \in [Reapers -> BOOLEAN]
      BY Zenon DEF Init
    <2>2. status = "none" /\ errorType \in ErrorTypes /\ progress \in 0 .. TakeUnits * Count
      BY DEF Init, ErrorTypes, TakeUnits
    <2> QED
      BY <2>1, <2>2, Zenon DEF RowType
  <1>4. OtherType
    <2>1. recoverySaw \in BOOLEAN /\ lock \in BOOLEAN
      BY Zenon DEF Init
    <2>2. /\ api = "none" /\ takes = 0 /\ orphans = 0 /\ entries = 0 /\ proc = "up" /\ recovery = "none"
          /\ seenStatus \in [Reapers -> {"none"} \cup Active]
          /\ crashes \in 0 .. MaxCrashes /\ restarts \in 0 .. MaxRestarts
      BY DEF Init
    <2> QED
      BY <2>1, <2>2 DEF OtherType
  <1>2. SlotType
    BY DEF Init, SlotType, RunStates, TakeUnits
  <1>3. \A s \in Slots : SeriesOrder(s)
    BY DEF Init, SeriesOrder, InSeries
  <1> QED
    BY <1>1, <1>2, <1>3, <1>4 DEF SeriesInv

\* A step that does not touch the runs leaves them in order.
LEMMA RunsLeft ==
    ASSUME SeriesInv, UNCHANGED <<run, trackerVars, thread>>
    PROVE  SlotType' /\ \A s \in Slots : SeriesOrder(s)'
  BY DEF SeriesInv, SlotType, SeriesOrder, trackerVars

\* A report of the tracker stays within the take and is written as it is.
LEMMA Reported ==
    ASSUME RowType, SlotType, NEW s \in Slots, index[s] < Count,
           reached[s] <= TakeUnits * index[s] + StartsAt[SavingTake],
           NEW p \in Phases, NEW f \in {0, 1}, p = SavingTake => f = 0, TrackReport(s, p, f)
    PROVE  /\ RowType'
           /\ reached'[s] \in 0 .. TakeUnits * Count
           /\ phase'[s] \in Phases
           /\ reached'[s] <= TakeUnits * index[s] + StartsAt[SavingTake]
  <1> USE GenerationJobAssumption
  <1> DEFINE v == TakeUnits * index[s] + StartsAt[p] + f * Weight[p]
  <1>1. v \in Nat /\ v <= TakeUnits * index[s] + StartsAt[SavingTake]
    <2>1. index[s] \in 0 .. Count /\ StartsAt[p] \in Nat /\ Weight[p] \in Nat
      BY PhaseShares DEF SlotType
    <2>2. StartsAt[p] + f * Weight[p] \in Nat /\ StartsAt[p] + f * Weight[p] <= StartsAt[SavingTake]
          /\ StartsAt[SavingTake] = 14
      <3>1. CASE f = 0
        BY <2>1, <3>1, PhaseShares DEF Phases, StartsAt, SavingTake
      <3>2. CASE f = 1
        BY <2>1, <3>2, PhaseShares
      <3> QED
        BY <3>1, <3>2
    <2> QED
      BY <2>1, <2>2 DEF TakeUnits
  <1>2. reached'[s] = Larger(reached[s], v) /\ phase'[s] = p
    BY DEF TrackReport, RaiseTo, SlotType
  <1>3. reached'[s] \in 0 .. TakeUnits * Count /\ reached'[s] <= TakeUnits * index[s] + StartsAt[SavingTake]
    BY <1>1, <1>2, PhaseShares DEF Larger, SlotType, TakeUnits, Phases
  <1>4. RunningPair(s) \in ErrorTypes
    BY DEF RunningPair, SlotType, ErrorTypes
  <1>5. RowType'
    BY <1>3, <1>4, RowWritten, RowLeft DEF TrackReport, Active
  <1> QED
    BY <1>2, <1>3, <1>5

\* Every step keeps the runs in order.
LEMMA SeriesNext == SeriesInv /\ [Next]_vars => SeriesInv'
  <1> SUFFICES ASSUME SeriesInv, [Next]_vars PROVE SeriesInv'
    OBVIOUS
  <1>0. RowType /\ SlotType /\ OtherType /\ \A s \in Slots : SeriesOrder(s)
    BY DEF SeriesInv
  <1> USE GenerationJobAssumption DEF takeVars, runVars, procVars
  <1>1. CASE CreateJob \/ EnqueueJob \/ EnqueueRefused \/ EnqueueAbandoned \/ CancelJob
    <2>1. RowType'
      BY <1>0, <1>1, RowWritten, RowLeft DEF CreateJob, EnqueueJob, EnqueueRefused, EnqueueAbandoned,
         CancelJob, RowType, rowVars, Active, Terminal, ErrorTypes, TakeUnits
    <2>2. OtherType' /\ UNCHANGED <<run, trackerVars, thread>>
      BY <1>0, <1>1 DEF CreateJob, EnqueueJob, EnqueueRefused, EnqueueAbandoned, CancelJob, OtherType
    <2> QED
      BY <2>1, <2>2, RunsLeft DEF SeriesInv
  <1>2. ASSUME NEW s \in Slots, RunStep(s) \/ Report(s) \/ Heartbeat(s) \/ RunRaises(s) \/ CancelRun(s)
        PROVE SeriesInv'
    <2> DEFINE Safe == RowType' /\ SlotType' /\ OtherType' /\ \A r \in Slots : SeriesOrder(r)'
    <2> SUFFICES Safe
      BY DEF SeriesInv
    <2> USE DEF SetRun, trackerVars
    <2>1. CASE StartRun(s) \/ Admit(s) \/ EnqueueAgain(s) \/ RunRaises(s) \/ FinishRun(s)
      <3>1. RowType'
        BY <1>0, <2>1, RowLeft DEF StartRun, Admit, EnqueueAgain, RunRaises, FinishRun
      <3>2. SlotType' /\ OtherType' /\ \A r \in Slots : SeriesOrder(r)'
        BY <1>0, <2>1 DEF StartRun, Admit, EnqueueAgain, RunRaises, FinishRun, SlotType, OtherType,
           SeriesOrder, RunStates, InSeries
      <3> QED
        BY <3>1, <3>2
    <2>2. CASE Requeue(s) \/ SetupFails(s) \/ FailRun(s) \/ CancelRun(s)
      <3>1. RowType'
        BY <1>0, <2>2, RowWritten, RowLeft DEF Requeue, SetupFails, FailRun, CancelRun, UpdateLost, Active, Terminal,
           ErrorTypes, TakeUnits
      <3>2. SlotType' /\ OtherType' /\ \A r \in Slots : SeriesOrder(r)'
        BY <1>0, <2>2 DEF Requeue, SetupFails, FailRun, CancelRun, SlotType, OtherType,
           SeriesOrder, RunStates, InSeries
      <3> QED
        BY <3>1, <3>2
    <2>3. CASE MarkRunning(s)
      <3>1. RowType'
        BY <1>0, <2>3, RowWritten DEF MarkRunning, Active, Terminal, ErrorTypes, TakeUnits
      <3>2. SlotType' /\ OtherType' /\ \A r \in Slots : SeriesOrder(r)'
        BY <1>0, <2>3 DEF MarkRunning, SlotType, OtherType, SeriesOrder, RunStates, InSeries, TakeUnits
      <3> QED
        BY <3>1, <3>2
    <2>4. CASE StartTake(s)
      <3>0. /\ RowType'
            /\ status \notin Terminal => reached'[s] <= TakeUnits * index[s] /\ reached'[s] \in 0 .. TakeUnits * Count
        <4>1. CASE status \in Terminal
          BY <1>0, <2>4, <4>1, RowLeft DEF StartTake
        <4>2. CASE status \notin Terminal
          <5>1. reached'[s] \in 0 .. TakeUnits * Count /\ reached'[s] <= TakeUnits * index[s]
            BY <1>0, <2>4, <4>2 DEF StartTake, RaiseTo, Larger, MoreTakes, SlotType, SeriesOrder, TakeUnits
          <5>2. RunningPair(s) \in ErrorTypes
            BY <1>0 DEF RunningPair, SlotType, ErrorTypes
          <5> QED
            BY <1>0, <2>4, <4>2, <5>1, <5>2, RowWritten DEF StartTake, Active
        <4> QED
          BY <4>1, <4>2
      <3>1. SlotType' /\ OtherType'
        BY <1>0, <2>4, <3>0 DEF StartTake, SlotType, OtherType, RunStates, Phases
      <3>2. \A r \in Slots : SeriesOrder(r)'
        BY <1>0, <2>4, <3>0, PhaseShares DEF StartTake, MoreTakes, SlotType, SeriesOrder, InSeries, Phases,
           SavingTake, TakeUnits
      <3> QED
        BY <3>0, <3>1, <3>2
    <2>5. CASE Finalize(s)
      <3>1. RowType'
        <4>1. completed[s] \in 0 .. Count /\ failure[s] \in ErrorTypes
          BY <1>0 DEF SlotType, ErrorTypes
        <4>2. TakeUnits * completed[s] \in 0 .. TakeUnits * Count /\ TakeUnits * Count \in 0 .. TakeUnits * Count
              /\ 0 \in 0 .. TakeUnits * Count
          BY <4>1 DEF TakeUnits
        <4>3. {"completed", "partial", "failed"} \subseteq Active \cup Terminal /\ "none" \in ErrorTypes
          BY DEF Terminal, ErrorTypes
        <4> QED
          BY <1>0, <2>5, <4>1, <4>2, <4>3, RowWritten DEF Finalize
      <3>2. SlotType' /\ OtherType' /\ \A r \in Slots : SeriesOrder(r)'
        BY <1>0, <2>5 DEF Finalize, SlotType, OtherType, SeriesOrder, RunStates, InSeries
      <3> QED
        BY <3>1, <3>2
    <2>6. CASE Report(s)
      <3>1. RowType' /\ reached'[s] \in 0 .. TakeUnits * Count /\ phase'[s] \in Phases
            /\ reached'[s] <= TakeUnits * index[s] + StartsAt[SavingTake]
        <4>1. PICK p \in Phases \ {SavingTake}, f \in {0, 1} : TrackReport(s, p, f)
          BY <2>6 DEF Report
        <4> QED
          BY <1>0, <2>6, <4>1, Reported DEF SeriesOrder, Report
      <3>2. /\ reached' = [reached EXCEPT ![s] = reached'[s]]
            /\ phase' = [phase EXCEPT ![s] = phase'[s]]
        BY <1>0, <2>6 DEF Report, TrackReport, SlotType
      <3>3. SlotType' /\ OtherType' /\ \A r \in Slots : SeriesOrder(r)'
        BY <1>0, <2>6, <3>1, <3>2 DEF Report, SlotType, OtherType, SeriesOrder, InSeries
      <3> QED
        BY <3>1, <3>3
    <2>7. CASE TakeRendered(s)
      <3>1. CASE status \in Terminal
        <4>1. RowType'
          BY <1>0, <2>7, <3>1, RowLeft DEF TakeRendered, Active, Terminal
        <4>2. SlotType' /\ OtherType'
          BY <1>0, <2>7, <3>1 DEF TakeRendered, TakeDone, SlotType, OtherType, SeriesOrder, RunStates, Active, Terminal
        <4>3. \A r \in Slots : SeriesOrder(r)'
          BY <1>0, <2>7, <3>1, PhaseShares DEF TakeRendered, TakeDone, SlotType, SeriesOrder, InSeries, Active,
             Terminal, TakeUnits, SavingTake, Phases
        <4> QED
          BY <4>1, <4>2, <4>3
      <3>2. CASE status \notin Terminal
        <4>0. TrackReport(s, SavingTake, 0) /\ SavingTake \in Phases
          BY <2>7, <3>2 DEF TakeRendered, SavingTake, Phases
        <4>1. RowType' /\ reached'[s] \in 0 .. TakeUnits * Count /\ phase'[s] \in Phases
              /\ reached'[s] <= TakeUnits * index[s] + StartsAt[SavingTake]
          BY <1>0, <2>7, <4>0, Reported DEF SeriesOrder, TakeRendered
        <4>2. /\ reached' = [reached EXCEPT ![s] = reached'[s]]
              /\ phase' = [phase EXCEPT ![s] = phase'[s]]
          BY <1>0, <4>0 DEF TrackReport, SlotType
        <4>3. SlotType' /\ OtherType'
          BY <1>0, <2>7, <3>2, <4>1, <4>2 DEF TakeRendered, SlotType, OtherType, RunStates
        <4>4. \A r \in Slots : SeriesOrder(r)'
          BY <1>0, <2>7, <3>2, <4>1, <4>2 DEF TakeRendered, SlotType, SeriesOrder, InSeries
        <4> QED
          BY <4>1, <4>3, <4>4
      <3> QED
        BY <3>1, <3>2
    <2>8. CASE TakeFails(s)
      <3>1. RowType'
        BY <1>0, <2>8, RowLeft DEF TakeFails
      <3>2. SlotType' /\ OtherType'
        BY <1>0, <2>8 DEF TakeFails, TakeFailed, SelectFailure, SlotType, OtherType, SeriesOrder, RunStates
      <3>3. \A r \in Slots : SeriesOrder(r)'
        BY <1>0, <2>8, PhaseShares DEF TakeFails, TakeFailed, SelectFailure, SlotType, SeriesOrder, InSeries,
           TakeUnits, SavingTake, Phases
      <3> QED
        BY <3>1, <3>2, <3>3
    <2>9. CASE Encode(s) \/ EncodeFails(s) \/ Persist(s) \/ PersistFails(s) \/ ReferenceDeleted(s)
      <3>1. RowType'
        BY <1>0, <2>9, RowLeft DEF Encode, EncodeFails, Persist, PersistFails, ReferenceDeleted
      <3>2. OtherType'
        BY <1>0, <2>9 DEF Encode, EncodeFails, Persist, PersistFails, ReferenceDeleted, OtherType
      <3>3. SlotType'
        BY <1>0, <2>9 DEF Encode, EncodeFails, Persist, PersistFails, ReferenceDeleted, AfterThread,
           TakeDone, TakeFailed, SelectFailure, SlotType, SeriesOrder, RunStates
      <3>4. \A r \in Slots : SeriesOrder(r)'
        BY <1>0, <2>9, PhaseShares DEF Encode, EncodeFails, Persist, PersistFails, ReferenceDeleted, AfterThread,
           TakeDone, TakeFailed, SelectFailure, SlotType, SeriesOrder, InSeries, TakeUnits, SavingTake, Phases
      <3> QED
        BY <3>1, <3>2, <3>3, <3>4
    <2>10. CASE Heartbeat(s)
      BY <1>0, <2>10, RunsLeft DEF Heartbeat, Beat, RowType, OtherType, trackerVars
    <2> QED
      BY <1>2, <2>1, <2>2, <2>3, <2>4, <2>5, <2>6, <2>7, <2>8, <2>9, <2>10 DEF RunStep
  <1>3. CASE GoStale \/ Age
    BY <1>0, <1>3, RunsLeft DEF GoStale, Age, SeriesInv, RowType, OtherType, trackerVars
  <1>4. ASSUME NEW w \in Reapers, ReaperStep(w) PROVE SeriesInv'
    <2>1. RowType'
      BY <1>0, <1>4 DEF ReaperStep, ReaperRead, ReaperWrite, RowType, Terminal, ErrorTypes
    <2>2. OtherType'
      BY <1>0, <1>4 DEF ReaperStep, ReaperRead, ReaperWrite, StaleVerdict, OtherType, Active
    <2>3. UNCHANGED <<run, trackerVars, thread>>
      BY <1>4 DEF ReaperStep, ReaperRead, ReaperWrite
    <2> QED
      BY <2>1, <2>2, <2>3, RunsLeft DEF SeriesInv
  <1>5. CASE Drain \/ ProcStep \/ ExpireLock
    <2>1. RowType'
      BY <1>0, <1>5 DEF Drain, ProcStep, RecoverySkipped, RecoveryRead, RecoveryWrite, ExpireLock, RowType,
         Terminal, ErrorTypes, rowVars
    <2>2. OtherType'
      <3>1. CASE Drain
        BY <1>0, <3>1 DEF Drain, OtherType
      <3>2. CASE RecoverySkipped
        BY <1>0, <3>2 DEF RecoverySkipped, AfterRecovery, OtherType
      <3>3. CASE RecoveryRead
        <4>1. (status = "running") \in BOOLEAN
          OBVIOUS
        <4> QED
          BY <1>0, <3>3, <4>1 DEF RecoveryRead, OtherType
      <3>4. CASE RecoveryWrite
        BY <1>0, <3>4 DEF RecoveryWrite, AfterRecovery, OtherType
      <3>5. CASE ExpireLock
        BY <1>0, <3>5 DEF ExpireLock, OtherType
      <3> QED
        BY <1>5, <3>1, <3>2, <3>3, <3>4, <3>5 DEF ProcStep
    <2>3. UNCHANGED <<run, trackerVars, thread>>
      BY <1>5 DEF Drain, ProcStep, RecoverySkipped, RecoveryRead, RecoveryWrite, ExpireLock
    <2> QED
      BY <2>1, <2>2, <2>3, RunsLeft DEF SeriesInv
  <1>6. CASE Crash
    <2>1. Cardinality({s \in Slots : run[s] # "idle"}) \in Nat
      BY FS_Subset, FS_CardinalityType
    <2>2. \A partial \in SUBSET Threads("encoding") : Cardinality(Threads("written") \cup partial) \in Nat
      <3>1. Threads("written") \subseteq Slots /\ Threads("encoding") \subseteq Slots
        BY DEF Threads
      <3> QED
        BY <3>1, FS_Subset, FS_CardinalityType
    <2>3. RowType'
      BY <1>0, <1>6, RowLeft DEF Crash
    <2>4. OtherType'
      <3>1. entries' \in Nat
        BY <1>0, <1>6, <2>1 DEF Crash, OtherType
      <3>2. orphans' \in Nat
        BY <1>0, <1>6, <2>2 DEF Crash, OtherType
      <3> QED
        <4>1. recoverySaw' \in BOOLEAN /\ lock' = lock
          BY <1>6, Zenon DEF Crash
        <4>2. /\ UNCHANGED <<api, takes, restarts, seenStatus>>
              /\ proc' = "down" /\ recovery' = "none" /\ crashes' \in 0 .. MaxCrashes
          BY <1>0, <1>6 DEF Crash, OtherType
        <4> QED
          BY <1>0, <3>1, <3>2, <4>1, <4>2 DEF OtherType
    <2>5. SlotType' /\ \A s \in Slots : SeriesOrder(s)'
      BY <1>0, <1>6 DEF Crash, SlotType, SeriesOrder, RunStates, InSeries, trackerVars
    <2> QED
      BY <2>3, <2>4, <2>5 DEF SeriesInv
  <1>7. CASE UNCHANGED vars
    BY <1>0, <1>7, RowLeft, RunsLeft DEF vars, SeriesInv, OtherType
  <1> QED
    BY <1>1, <1>2, <1>3, <1>4, <1>5, <1>6, <1>7 DEF Next

\* So every run is in order in every reachable state.
LEMMA SeriesCorrect == Spec => []SeriesInv
  BY SeriesInit, SeriesNext, PTL DEF Spec

\* Type correctness of the row, the runs and the worker process.
THEOREM TypeCorrect == Spec => []TypeOK
  BY SeriesCorrect, TypeParts, PTL DEF SeriesInv

\* expect_present in _finalize_generation_job never fails: a series that ends
\* with fewer takes than asked for has recorded a failure.
THEOREM FailureKnown == Spec => []FailureIsKnown
  <1>1. SeriesInv => FailureIsKnown
    BY GenerationJobAssumption DEF SeriesInv, SeriesOrder, SlotType, InSeries, FailureIsKnown
  <1> QED
    BY <1>1, SeriesCorrect, PTL
-----------------------------------------------------------------------------
(***************************************************************************)
(* The reaper.                                                             *)
(***************************************************************************)

\* A heartbeat a reaper found old, and nobody has renewed since, is old.
StaleSeen == \A w \in Reapers : seenStatus[w] = "running" /\ seenSame[w] => stale

\* update_job_status writes the status it is asked to, unless the job has ended.
LEMMA StatusWritten ==
    ASSUME NEW st, NEW e, NEW p, UpdateJobStatus(st, e, p)
    PROVE  /\ status' = (IF status \in Terminal THEN status ELSE st)
           /\ status \in Terminal => errorType' = errorType
           /\ status \notin Terminal => errorType' = e
  BY DEF UpdateJobStatus, WriteRefused, rowVars

\* ... and touches the heartbeat only to renew it.
LEMMA WriteKeepsStaleSeen ==
    ASSUME StaleSeen, NEW st, NEW e, NEW p, UpdateJobStatus(st, e, p), UNCHANGED seenStatus
    PROVE  StaleSeen'
  BY DEF StaleSeen, UpdateJobStatus, WriteRefused, Beat, rowVars

\* A step that leaves the heartbeat and the reapers alone keeps StaleSeen.
LEMMA LeftStaleSeen == ASSUME StaleSeen, UNCHANGED <<stale, seenSame, seenStatus>> PROVE StaleSeen'
  BY DEF StaleSeen

\* StaleSeen is preserved by every step.
LEMMA StaleSeenNext == SeriesInv /\ StaleSeen /\ [Next]_vars => StaleSeen'
  <1> SUFFICES ASSUME SeriesInv, StaleSeen, [Next]_vars PROVE StaleSeen'
    OBVIOUS
  <1>1. CASE CreateJob \/ EnqueueJob \/ EnqueueRefused \/ EnqueueAbandoned \/ CancelJob
    BY <1>1, WriteKeepsStaleSeen, LeftStaleSeen
    DEF CreateJob, EnqueueJob, EnqueueRefused, EnqueueAbandoned, CancelJob, rowVars
  <1>2. ASSUME NEW s \in Slots, RunStep(s) \/ RunRaises(s) \/ CancelRun(s) PROVE StaleSeen'
    <2>1. CASE UNCHANGED rowVars /\ UNCHANGED seenStatus
      BY <2>1, LeftStaleSeen DEF rowVars
    <2>2. CASE UNCHANGED seenStatus /\ \E st, e, p : UpdateJobStatus(st, e, p)
      BY <2>2, WriteKeepsStaleSeen
    <2>3. ASSUME StartRun(s) \/ Admit(s) \/ EnqueueAgain(s) \/ RunRaises(s) \/ FinishRun(s) \/ TakeFails(s)
                 \/ Encode(s) \/ EncodeFails(s) \/ Persist(s) \/ PersistFails(s) \/ ReferenceDeleted(s)
          PROVE  UNCHANGED rowVars /\ UNCHANGED seenStatus
      BY <2>3 DEF StartRun, Admit, EnqueueAgain, RunRaises, FinishRun, TakeFails, Encode, EncodeFails,
         Persist, PersistFails, ReferenceDeleted
    <2>4. ASSUME Requeue(s) \/ SetupFails(s) \/ MarkRunning(s)
          PROVE  UNCHANGED seenStatus /\ \E st, e, p : UpdateJobStatus(st, e, p)
      BY <2>4 DEF Requeue, SetupFails, MarkRunning
    <2>5. ASSUME StartTake(s) \/ TakeRendered(s) \/ Finalize(s) \/ FailRun(s) \/ CancelRun(s)
          PROVE  UNCHANGED seenStatus /\ (UNCHANGED rowVars \/ \E st, e, p : UpdateJobStatus(st, e, p))
      BY <2>5 DEF StartTake, TakeRendered, TrackReport, Finalize, FailRun, CancelRun, UpdateLost
    <2> QED
      BY <1>2, <2>1, <2>2, <2>3, <2>4, <2>5 DEF RunStep
  <1>3. ASSUME NEW s \in Slots, Report(s) PROVE StaleSeen'
    BY <1>3, WriteKeepsStaleSeen, LeftStaleSeen DEF Report, TrackReport, rowVars
  <1>4. ASSUME NEW s \in Slots, Heartbeat(s) PROVE StaleSeen'
    BY <1>4 DEF Heartbeat, Beat, StaleSeen
  <1>5. CASE GoStale \/ Age
    BY <1>5 DEF GoStale, Age, StaleSeen
  <1>6. ASSUME NEW w \in Reapers, ReaperRead(w) PROVE StaleSeen'
    BY <1>6 DEF ReaperRead, StaleVerdict, StaleSeen, SeriesInv, RowType, OtherType
  <1>7. ASSUME NEW w \in Reapers, ReaperWrite(w) PROVE StaleSeen'
    BY <1>7 DEF ReaperWrite, StaleSeen, SeriesInv, OtherType
  <1>8. CASE Drain \/ ProcStep \/ ExpireLock \/ Crash \/ UNCHANGED vars
    BY <1>8, LeftStaleSeen DEF Drain, ProcStep, RecoverySkipped, RecoveryRead, RecoveryWrite, ExpireLock, Crash,
       vars, rowVars
  <1> QED
    BY <1>1, <1>2, <1>3, <1>4, <1>5, <1>6, <1>7, <1>8 DEF Next, ReaperStep

\* Only a reaper's conditional update fails a job for a lost heartbeat.
LEMMA ReaperOnly ==
    ASSUME SeriesInv, [Next]_vars, status' = "failed", errorType' = "heartbeat_lost", status # "failed"
    PROVE  \E w \in Reapers : ReaperWrite(w) /\ Unchanged(w) /\ seenStatus[w] = "running"
  <1>1. \A s \in Slots : failure[s] # "heartbeat_lost" /\ RunningPair(s) # "heartbeat_lost"
    BY DEF SeriesInv, SlotType, RunningPair
  <1>2. CASE CreateJob \/ EnqueueJob \/ EnqueueRefused \/ EnqueueAbandoned \/ CancelJob
    BY <1>2, StatusWritten
    DEF CreateJob, EnqueueJob, EnqueueRefused, EnqueueAbandoned, CancelJob, rowVars
  <1>3. ASSUME NEW s \in Slots, RunStep(s) \/ Report(s) \/ Heartbeat(s) \/ RunRaises(s) \/ CancelRun(s)
        PROVE  FALSE
    <2>1. ASSUME NEW st, NEW e, NEW p, UpdateJobStatus(st, e, p), e # "heartbeat_lost" PROVE FALSE
      BY <2>1, StatusWritten
    <2>2. CASE UNCHANGED rowVars \/ Heartbeat(s)
      BY <2>2 DEF rowVars, Heartbeat
    <2>3. ASSUME StartRun(s) \/ Admit(s) \/ EnqueueAgain(s) \/ RunRaises(s) \/ FinishRun(s) \/ TakeFails(s)
                 \/ Encode(s) \/ EncodeFails(s) \/ Persist(s) \/ PersistFails(s) \/ ReferenceDeleted(s)
          PROVE  FALSE
      BY <2>2, <2>3 DEF StartRun, Admit, EnqueueAgain, RunRaises, FinishRun, TakeFails, Encode, EncodeFails,
         Persist, PersistFails, ReferenceDeleted
    <2>4. ASSUME Requeue(s) \/ SetupFails(s) \/ MarkRunning(s) \/ FailRun(s) \/ CancelRun(s) PROVE FALSE
      BY <2>1, <2>2, <2>4 DEF Requeue, SetupFails, MarkRunning, FailRun, CancelRun, UpdateLost
    <2>5. ASSUME StartTake(s) \/ TakeRendered(s) \/ Report(s) PROVE FALSE
      BY <1>1, <2>1, <2>2, <2>5 DEF StartTake, TakeRendered, Report, TrackReport
    <2>6. ASSUME Finalize(s) PROVE FALSE
      BY <1>1, <2>1, <2>6 DEF Finalize
    <2> QED
      BY <1>3, <2>2, <2>3, <2>4, <2>5, <2>6 DEF RunStep
  <1>4. CASE GoStale \/ Age \/ Drain \/ ProcStep \/ ExpireLock \/ Crash \/ UNCHANGED vars
    BY <1>4 DEF GoStale, Age, Drain, ProcStep, RecoverySkipped, RecoveryRead, RecoveryWrite, ExpireLock, Crash,
       vars, rowVars
  <1>5. ASSUME NEW w \in Reapers, ReaperStep(w)
        PROVE  ReaperWrite(w) /\ Unchanged(w) /\ seenStatus[w] = "running"
    BY <1>5 DEF ReaperStep, ReaperRead, ReaperWrite, SeriesInv, OtherType, Active
  <1> QED
    BY <1>2, <1>3, <1>4, <1>5 DEF Next

\* A concurrent heartbeat wins: the reaper fails a running job only if its
\* heartbeat is still old when the conditional update executes
\* (_recover_stale_job_if_unchanged).
THEOREM HeartbeatIsRespected == Spec => HeartbeatWins
  <1>1. Init => StaleSeen
    BY DEF Init, StaleSeen
  <1>2. SeriesInv /\ StaleSeen /\ [Next]_vars
        => [status' = "failed" /\ errorType' = "heartbeat_lost" /\ status # "failed"
              => status = "running" /\ stale]_vars
    BY ReaperOnly DEF StaleSeen, Unchanged
  <1> QED
    BY <1>1, <1>2, StaleSeenNext, SeriesCorrect, PTL DEF Spec, HeartbeatWins
-----------------------------------------------------------------------------
(***************************************************************************)
(* The takes.                                                              *)
(***************************************************************************)

\* Only a persisted take of an active job changes the library, by one.
LEMMA TakesGrow ==
    ASSUME SeriesInv, [Next]_vars
    PROVE  \/ takes' = takes
           \/ /\ takes' = takes + 1 /\ status \in Active
              /\ \E s \in Slots : Persist(s)
  <1>1. ASSUME NEW s \in Slots, RunStep(s) \/ Report(s) \/ Heartbeat(s) \/ RunRaises(s) \/ CancelRun(s), ~Persist(s)
        PROVE  takes' = takes
    BY <1>1 DEF RunStep, Report, Heartbeat, RunRaises, CancelRun, StartRun, Admit, Requeue, EnqueueAgain,
       SetupFails, MarkRunning, StartTake, TakeRendered, TakeFails, Encode, EncodeFails, PersistFails,
       ReferenceDeleted, Finalize, FailRun, FinishRun, takeVars
  <1>2. ASSUME NEW s \in Slots, Persist(s) PROVE takes' = takes \/ (takes' = takes + 1 /\ status \in Active)
    BY <1>2 DEF Persist, PersistAllowed
  <1>3. CASE CreateJob \/ EnqueueJob \/ EnqueueRefused \/ EnqueueAbandoned \/ CancelJob \/ GoStale \/ Age
             \/ (\E w \in Reapers : ReaperStep(w)) \/ Drain \/ ProcStep \/ ExpireLock \/ Crash \/ UNCHANGED vars
    BY <1>3 DEF CreateJob, EnqueueJob, EnqueueRefused, EnqueueAbandoned, CancelJob, GoStale, Age, ReaperStep,
       ReaperRead, ReaperWrite, Drain, ProcStep, RecoverySkipped, RecoveryRead, RecoveryWrite, ExpireLock,
       Crash, vars, takeVars
  <1> QED
    BY <1>1, <1>2, <1>3 DEF Next

\* No take enters the library after the job reached its end (lock_active_job).
THEOREM NoLateTake == Spec => NoTakeAfterTheEnd
  <1>1. SeriesInv /\ [Next]_vars => [takes' # takes => status \in Active]_vars
    BY TakesGrow
  <1> QED
    BY <1>1, SeriesCorrect, PTL DEF Spec, NoTakeAfterTheEnd

\* Before the request nothing exists, and while the job is active a run counts
\* no take that is not in the library.
Backed ==
    /\ status = "none" <=> api = "none"
    /\ status = "none" => entries = 0 /\ \A s \in Slots : run[s] = "idle" /\ thread[s] = "none"
    /\ recoverySaw => status # "none"
    /\ status \in Active => \A s \in Slots : run[s] \in InSeries => completed[s] <= takes
    /\ OutcomeIsBacked

\* A step that writes no outcome, counts no take and starts nothing before the
\* request keeps Backed.
LEMMA BackedLeft ==
    ASSUME SeriesInv, Backed, takes' \in Nat, takes' >= takes,
           status' = status \/ (status \in Active /\ status' \in {"queued", "running", "failed", "cancelled"})
             \/ (status \in Terminal /\ status' = "failed"),
           status # "none", api # "none" => api' # "none",
           status' \in Active =>
               \A s \in Slots : run'[s] \in InSeries => completed'[s] <= takes'
    PROVE  Backed'
  BY GenerationJobAssumption
  DEF Backed, OutcomeIsBacked, Active, Terminal, InSeries, SeriesInv, SlotType, OtherType

\* Backed is preserved by every step.
LEMMA BackedNext == SeriesInv /\ Backed /\ [Next]_vars => Backed'
  <1> SUFFICES ASSUME SeriesInv, Backed, [Next]_vars PROVE Backed'
    OBVIOUS
  <1>0. /\ takes' \in Nat /\ takes' >= takes /\ takes \in Nat
        /\ run \in [Slots -> RunStates] /\ completed \in [Slots -> 0 .. Count]
        /\ status \in {"none"} \cup Active \cup Terminal
    BY TakesGrow DEF SeriesInv, RowType, OtherType, SlotType
  <1> USE DEF trackerVars, takeVars, runVars, procVars
  <1>1. CASE CreateJob
    BY <1>0, <1>1 DEF CreateJob, Backed, OutcomeIsBacked, InSeries, Active
  <1>2. CASE EnqueueJob \/ EnqueueRefused \/ EnqueueAbandoned \/ CancelJob
    <2>1. status # "none"
      BY <1>2 DEF EnqueueJob, EnqueueRefused, EnqueueAbandoned, CancelJob, Backed, Active
    <2>2. UNCHANGED <<run, completed, takes>> /\ (api # "none" => api' # "none")
      BY <1>2 DEF EnqueueJob, EnqueueRefused, EnqueueAbandoned, CancelJob
    <2>3. status' = status \/ (status \in Active /\ status' \in {"queued", "running", "failed", "cancelled"})
      BY <1>0, <1>2, <2>1, StatusWritten DEF EnqueueJob, EnqueueRefused, EnqueueAbandoned, CancelJob, rowVars
    <2>4. status' \in Active => status \in Active
      BY <2>3
    <2> QED
      BY <1>0, <2>1, <2>2, <2>3, <2>4, BackedLeft DEF Backed
  <1>3. ASSUME NEW s \in Slots, RunStep(s) \/ Report(s) \/ Heartbeat(s) \/ RunRaises(s) \/ CancelRun(s)
        PROVE  Backed'
    <2>0. status # "none" /\ UNCHANGED api
      BY <1>3 DEF RunStep, Report, Heartbeat, RunRaises, CancelRun, StartRun, Admit, Requeue, EnqueueAgain,
         SetupFails, MarkRunning, StartTake, TakeRendered, TakeFails, Encode, EncodeFails, Persist, PersistFails,
         ReferenceDeleted, Finalize, FailRun, FinishRun, Backed
    <2> DEFINE Series == \A r \in Slots : run'[r] \in InSeries => completed'[r] <= takes'
               Quiet == /\ status' = status \/ (status \in Active /\ status' \in {"queued", "running", "failed", "cancelled"})
                        /\ status' \in Active => Series
    <2>1. ASSUME Quiet PROVE Backed'
      BY <1>0, <2>0, <2>1, BackedLeft
    <2>2. ASSUME StartRun(s) \/ Admit(s) \/ EnqueueAgain(s) \/ RunRaises(s) \/ FinishRun(s) \/ TakeFails(s)
                 \/ Encode(s) \/ EncodeFails(s) \/ PersistFails(s) \/ ReferenceDeleted(s) \/ Heartbeat(s)
          PROVE  Quiet
      <3>1. status' = status /\ takes' = takes /\ completed' = completed
        BY <2>2 DEF StartRun, Admit, EnqueueAgain, RunRaises, FinishRun, TakeFails, TakeFailed, Encode, EncodeFails,
           PersistFails, ReferenceDeleted, AfterThread, Heartbeat, rowVars
      <3>2. \A r \in Slots : run'[r] \in InSeries => run[r] \in InSeries
        BY <1>0, <2>2 DEF StartRun, Admit, EnqueueAgain, RunRaises, FinishRun, TakeFails, TakeFailed, Encode,
           EncodeFails, PersistFails, ReferenceDeleted, AfterThread, Heartbeat, SetRun, InSeries
      <3> QED
        BY <3>1, <3>2 DEF Backed
    <2>3. ASSUME Requeue(s) \/ SetupFails(s) \/ FailRun(s) \/ CancelRun(s) PROVE Quiet
      <3>1. takes' = takes /\ completed' = completed
        BY <2>3 DEF Requeue, SetupFails, FailRun, CancelRun
      <3>2. status' = status \/ (status \in Active /\ status' \in {"queued", "running", "failed", "cancelled"})
        BY <1>0, <2>0, <2>3, StatusWritten DEF Requeue, SetupFails, FailRun, CancelRun, UpdateLost, rowVars
      <3>3. \A r \in Slots : run'[r] \in InSeries => run[r] \in InSeries
        BY <1>0, <2>3 DEF Requeue, SetupFails, FailRun, CancelRun, SetRun, InSeries
      <3> QED
        BY <3>1, <3>2, <3>3 DEF Backed, Active, Terminal
    <2>4. ASSUME MarkRunning(s) PROVE Quiet
      <3>1. takes' = takes /\ completed' = [completed EXCEPT ![s] = 0] /\ (\A r \in Slots \ {s} : run'[r] = run[r])
        BY <1>0, <2>4 DEF MarkRunning, SetRun
      <3>2. status' = status \/ (status \in Active /\ status' \in {"queued", "running", "failed", "cancelled"})
        BY <1>0, <2>0, <2>4, StatusWritten DEF MarkRunning
      <3> QED
        BY <1>0, <3>1, <3>2 DEF Backed, Active, Terminal
    <2>5. ASSUME StartTake(s) \/ Report(s) PROVE Quiet
      <3>1. takes' = takes /\ completed' = completed /\ (\A r \in Slots : run'[r] \in InSeries => run[r] \in InSeries)
        BY <1>0, <2>5 DEF StartTake, Report, TrackReport, SetRun, InSeries
      <3>2. status' = status \/ (status \in Active /\ status' \in {"queued", "running", "failed", "cancelled"})
        BY <1>0, <2>0, <2>5, StatusWritten DEF StartTake, Report, TrackReport, rowVars
      <3> QED
        BY <3>1, <3>2 DEF Backed, Active, Terminal
    <2>6. ASSUME TakeRendered(s) PROVE Quiet
      <3>1. CASE status \in Terminal
        BY <2>6, <3>1 DEF TakeRendered, Active, Terminal, rowVars
      <3>2. CASE status \notin Terminal
        <4>1. takes' = takes /\ completed' = completed /\ (\A r \in Slots : run'[r] \in InSeries => run[r] \in InSeries)
          BY <1>0, <2>6, <3>2 DEF TakeRendered, SetRun, InSeries
        <4>2. status' = status \/ (status \in Active /\ status' \in {"queued", "running", "failed", "cancelled"})
          BY <1>0, <2>0, <2>6, <3>2, StatusWritten DEF TakeRendered, TrackReport, rowVars
        <4> QED
          BY <4>1, <4>2 DEF Backed, Active, Terminal
      <3> QED
        BY <3>1, <3>2
    <2>7. ASSUME Persist(s) PROVE Quiet
      <3>1. status' = status
        BY <2>7 DEF Persist, rowVars
      <3>2. CASE status \in Active
        <4>1. takes' = takes + 1
          BY <2>7, <3>2 DEF Persist, PersistAllowed
        <4>2. \A r \in Slots : run'[r] \in InSeries => run[r] \in InSeries /\ completed'[r] <= completed[r] + 1
          BY <1>0, <2>7 DEF Persist, AfterThread, TakeDone, SetRun, InSeries
        <4>3. \A r \in Slots : completed'[r] \in Int
          BY <1>0, <2>7 DEF Persist, AfterThread, TakeDone
        <4> QED
          BY <1>0, <3>1, <3>2, <4>1, <4>2, <4>3 DEF Backed
      <3> QED
        BY <3>1, <3>2
    <2>8. ASSUME Finalize(s) PROVE Backed'
      <3>1. takes' = takes /\ completed' = completed /\ run' = [run EXCEPT ![s] = "finish"] /\ run[s] \in InSeries
        BY <2>8 DEF Finalize, SetRun, InSeries
      <3>2. CASE status \in Terminal
        <4>1. status' = status
          BY <2>8, <3>2, StatusWritten DEF Finalize
        <4> QED
          BY <1>0, <2>0, <3>2, <4>1, <2>1 DEF Active, Terminal
      <3>3. CASE status \in Active
        <4>1. completed[s] <= takes /\ completed[s] \in 0 .. Count
          BY <1>0, <3>1, <3>3 DEF Backed
        <4>2. \/ completed[s] = Count /\ status' = "completed"
              \/ completed[s] >= 1 /\ status' = "partial"
              \/ status' = "failed"
          <5>1. status \notin Terminal
            BY <3>3 DEF Active, Terminal
          <5> QED
            BY <2>8, <4>1, <5>1, StatusWritten, GenerationJobAssumption DEF Finalize
        <4> QED
          BY <1>0, <2>0, <3>1, <4>1, <4>2 DEF Backed, OutcomeIsBacked, Active
      <3> QED
        BY <1>0, <2>0, <3>2, <3>3
    <2> QED
      BY <1>3, <2>1, <2>2, <2>3, <2>4, <2>5, <2>6, <2>7, <2>8 DEF RunStep
  <1>4. CASE \/ GoStale \/ Age \/ Drain \/ ProcStep \/ ExpireLock \/ UNCHANGED vars
             \/ \E w \in Reapers : ReaperStep(w)
    <2>1. UNCHANGED <<run, completed, takes, api, entries, thread>>
      BY <1>4 DEF GoStale, Age, Drain, ProcStep, RecoverySkipped, RecoveryRead, RecoveryWrite, ExpireLock, vars,
         ReaperStep, ReaperRead, ReaperWrite
    <2>2. status' = status \/ status' = "failed"
      BY <1>4 DEF GoStale, Age, Drain, ProcStep, RecoverySkipped, RecoveryRead, RecoveryWrite, ExpireLock, vars,
         ReaperStep, ReaperRead, ReaperWrite, rowVars
    <2>3. status' = "failed" => status # "none"
      BY <1>4 DEF GoStale, Age, Drain, ProcStep, RecoverySkipped, RecoveryRead, RecoveryWrite, ExpireLock, vars,
         ReaperStep, ReaperRead, ReaperWrite, Unchanged, rowVars, Backed
    <2>4. recoverySaw' => status' # "none"
      BY <1>4, <2>2 DEF GoStale, Age, Drain, ProcStep, RecoverySkipped, RecoveryRead, RecoveryWrite, ExpireLock, vars,
         ReaperStep, ReaperRead, ReaperWrite, rowVars, Backed
    <2> QED
      BY <1>0, <2>1, <2>2, <2>3, <2>4, BackedLeft DEF Backed, OutcomeIsBacked, Active, Terminal
  <1>5. CASE Crash
    <2>1. UNCHANGED <<status, api, takes>> /\ \A s \in Slots : run'[s] = "idle" /\ thread'[s] = "none"
      BY <1>5 DEF Crash, rowVars
    <2>3. ~recoverySaw'
      BY <1>5, Zenon DEF Crash
    <2>2. status = "none" => entries' = 0
      <3>1. ASSUME status = "none" PROVE {s \in Slots : run[s] # "idle"} = {}
        BY <3>1 DEF Backed
      <3>2. ASSUME status = "none" PROVE Cardinality({s \in Slots : run[s] # "idle"}) = 0
        BY <3>1, <3>2, FS_EmptySet, Zenon
      <3>3. status = "none" => entries = 0
        BY Zenon DEF Backed
      <3>4. entries' = entries + Cardinality({s \in Slots : run[s] # "idle"})
        BY <1>5, Zenon DEF Crash
      <3> QED
        BY <3>2, <3>3, <3>4
    <2> QED
      BY <2>1, <2>2, <2>3 DEF Backed, OutcomeIsBacked, InSeries
  <1> QED
    BY <1>1, <1>2, <1>3, <1>4, <1>5 DEF Next

\* A completed job has a row for every take it asked for and a partial one has at
\* least one, although a take of a job that turned terminal meanwhile is
\* counted without a row (_finalize_generation_job).
THEOREM OutcomeBacked == Spec => []OutcomeIsBacked
  <1>1. Init => Backed
    BY DEF Init, Backed, OutcomeIsBacked, Active, InSeries
  <1>2. Backed => OutcomeIsBacked
    BY DEF Backed
  <1> QED
    BY <1>1, <1>2, BackedNext, SeriesCorrect, PTL DEF Spec
-----------------------------------------------------------------------------
(***************************************************************************)
(* A job whose worker is neither killed nor restarted.                     *)
(***************************************************************************)

\* No worker has been killed and none has restarted.
Calm == crashes + restarts = 0
\* The states of a run before its series, and those of a run that can still end the job.
Early == {"admit", "held", "requeue", "setup"}
Live == Early \cup InSeries \cup {"fail"}

\* One delivery of the job exists at most, and it ends where a series begins:
\* a run that has it is the only one, and no take is saved before its series.
Alone ==
    /\ proc = "up" /\ recovery = "none"
    /\ api # "done" => entries = 0
    /\ entries \in {0, 1}
    /\ api # "done" \/ entries = 1 =>
         takes = 0 /\ \A s \in Slots : run[s] \notin Live /\ thread[s] = "none"
    /\ \A s, r \in Slots :
         /\ run[s] \in Live /\ (run[r] \in Live \/ thread[r] # "none") => r = s
         /\ thread[s] # "none" /\ thread[r] # "none" => r = s
    /\ \A s \in Slots :
         /\ run[s] \in Early => takes = 0
         /\ run[s] \in InSeries => takes <= index[s]
         /\ thread[s] # "none" => takes < Count
    /\ takes <= Count

\* Kills and restarts are counted: a calm state comes after a calm one.
LEMMA CalmBefore ==
    ASSUME SeriesInv, [Next]_vars
    PROVE  Calm' => Calm /\ ~Crash /\ ~Drain
  <1>1. crashes \in Nat /\ restarts \in Nat
    BY GenerationJobAssumption DEF SeriesInv, OtherType
  <1>2. CASE Crash \/ Drain
    BY <1>1, <1>2 DEF Crash, Drain, Calm
  <1>3. CASE ~Crash /\ ~Drain
    <2>1. crashes' = crashes /\ restarts' = restarts
      <3>1. ASSUME NEW s \in Slots, RunStep(s) \/ Report(s) \/ Heartbeat(s) \/ RunRaises(s) \/ CancelRun(s)
            PROVE  crashes' = crashes /\ restarts' = restarts
        BY <3>1 DEF RunStep, Report, Heartbeat, RunRaises, CancelRun, StartRun, Admit, Requeue, EnqueueAgain,
           SetupFails, MarkRunning, StartTake, TakeRendered, TakeFails, Encode, EncodeFails, Persist, PersistFails,
           ReferenceDeleted, Finalize, FailRun, FinishRun, procVars
      <3>2. CASE CreateJob \/ EnqueueJob \/ EnqueueRefused \/ EnqueueAbandoned \/ CancelJob \/ GoStale \/ Age
                 \/ (\E w \in Reapers : ReaperStep(w)) \/ ProcStep \/ ExpireLock \/ UNCHANGED vars
        BY <3>2 DEF CreateJob, EnqueueJob, EnqueueRefused, EnqueueAbandoned, CancelJob, GoStale, Age, ReaperStep,
           ReaperRead, ReaperWrite, ProcStep, RecoverySkipped, RecoveryRead, RecoveryWrite, ExpireLock, vars,
           procVars
      <3> QED
        BY <1>3, <3>1, <3>2 DEF Next
    <2> QED
      BY <1>3, <2>1 DEF Calm
  <1> QED
    BY <1>2, <1>3

\* Alone is preserved by every step that is neither a kill nor a restart.
LEMMA AloneNext == ASSUME SeriesInv, Alone, [Next]_vars, ~Crash, ~Drain PROVE Alone'
  <1>0. /\ run \in [Slots -> RunStates] /\ index \in [Slots -> 0 .. Count]
        /\ thread \in [Slots -> {"none", "encoding", "written"}]
        /\ takes \in Nat /\ entries \in Nat /\ Count \in Nat /\ Count > 0
        /\ \A s \in Slots : SeriesOrder(s)
    BY GenerationJobAssumption DEF SeriesInv, SlotType, OtherType
  <1> USE DEF trackerVars, takeVars, runVars, procVars
  <1>1. CASE CreateJob \/ EnqueueJob \/ EnqueueRefused \/ EnqueueAbandoned \/ CancelJob
    BY <1>0, <1>1 DEF CreateJob, EnqueueJob, EnqueueRefused, EnqueueAbandoned, CancelJob, Alone
  <1>2. ASSUME NEW s \in Slots, RunStep(s) \/ Report(s) \/ Heartbeat(s) \/ RunRaises(s) \/ CancelRun(s)
        PROVE  Alone'
    <2> USE DEF SetRun
    <2>1. CASE StartRun(s)
      BY <1>0, <2>1 DEF StartRun, Alone, Live, Early, InSeries
    <2>2. CASE Admit(s) \/ Requeue(s) \/ SetupFails(s) \/ RunRaises(s) \/ FailRun(s) \/ FinishRun(s) \/ Finalize(s)
      BY <1>0, <2>2 DEF Admit, Requeue, SetupFails, RunRaises, FailRun, FinishRun, Finalize, Alone, Live, Early,
         InSeries
    <2>3. CASE EnqueueAgain(s)
      BY <1>0, <2>3 DEF EnqueueAgain, Alone, Live, Early, InSeries, SeriesOrder
    <2>4. CASE MarkRunning(s)
      BY <1>0, <2>4 DEF MarkRunning, Alone, Live, Early, InSeries
    <2>5. CASE StartTake(s) \/ Report(s) \/ Heartbeat(s)
      BY <1>0, <2>5 DEF StartTake, Report, Heartbeat, Alone, Live, Early, InSeries
    <2>6. CASE TakeRendered(s)
      BY <1>0, <2>6 DEF TakeRendered, TakeDone, Alone, Live, Early, InSeries, SeriesOrder
    <2>7. CASE TakeFails(s)
      BY <1>0, <2>7 DEF TakeFails, TakeFailed, Alone, Live, Early, InSeries, SeriesOrder
    <2>8. CASE Encode(s) \/ EncodeFails(s) \/ PersistFails(s) \/ ReferenceDeleted(s)
      BY <1>0, <2>8 DEF Encode, EncodeFails, PersistFails, ReferenceDeleted, AfterThread, TakeFailed, Alone, Live,
         Early, InSeries, SeriesOrder
    <2>9. CASE Persist(s)
      BY <1>0, <2>9 DEF Persist, AfterThread, TakeDone, Alone, Live, Early, InSeries, SeriesOrder
    <2>10. CASE CancelRun(s)
      BY <1>0, <2>10 DEF CancelRun, Alone, Live, Early, InSeries
    <2> QED
      BY <1>2, <2>1, <2>2, <2>3, <2>4, <2>5, <2>6, <2>7, <2>8, <2>9, <2>10 DEF RunStep
  <1>3. CASE GoStale \/ Age \/ ExpireLock \/ UNCHANGED vars \/ \E w \in Reapers : ReaperStep(w)
    BY <1>3 DEF GoStale, Age, ExpireLock, vars, ReaperStep, ReaperRead, ReaperWrite, Alone
  <1>4. CASE ProcStep
    BY <1>4 DEF ProcStep, RecoverySkipped, RecoveryRead, RecoveryWrite, RecoveryDue, Alone
  <1> QED
    BY <1>1, <1>2, <1>3, <1>4 DEF Next


\* What a running job shows belongs to the one run of its series: no run is
\* about to begin another series, the progress is not beyond what the run has
\* reached and short of the end, and a GPU-memory failure shown is the run's.
Shown ==
    status = "running" =>
        /\ api = "done" /\ entries = 0 /\ \A s \in Slots : run[s] \notin Early
        /\ progress < TakeUnits * Count
        /\ \A s \in Slots : run[s] \in InSeries =>
             /\ progress <= reached[s]
             /\ errorType = "gpu_out_of_memory" => failure[s] = "gpu_out_of_memory"
             /\ run[s] = "render" /\ failure[s] = "gpu_out_of_memory" => errorType = "gpu_out_of_memory"

\* One step of a job whose worker is neither killed nor restarted.
Steady ==
    /\ status = "running" /\ status' = "running"
         => progress' >= progress /\ progress' < TakeUnits * Count
    /\ status = "running" /\ errorType = "gpu_out_of_memory" /\ status' \in {"running", "partial"}
         => errorType' = "gpu_out_of_memory"

\* A write of the tracker: the progress it has reached, and the failure it shows.
LEMMA TrackerWrites ==
    ASSUME SeriesInv, Alone, Shown, NEW s \in Slots, run[s] \in InSeries,
           \/ run[s] = "render" /\ UNCHANGED rowVars
           \/ UpdateJobStatus("running", RunningPair(s), reached'[s]),
           reached'[s] \in Nat, reached'[s] >= reached[s], reached'[s] < TakeUnits * Count,
           run'[s] \in {"render", "saving"}, \A r \in Slots \ {s} : run'[r] = run[r],
           UNCHANGED <<api, entries, failure>>
    PROVE  Shown' /\ Steady
  <1>0. /\ status \in {"none"} \cup Active \cup Terminal /\ progress \in Nat /\ reached[s] \in Nat
        /\ failure[s] \in {"none", "gpu_out_of_memory", "generation_error"}
    BY GenerationJobAssumption DEF SeriesInv, RowType, SlotType, TakeUnits
  <1>1. /\ api = "done" /\ entries = 0 /\ \A r \in Slots \ {s} : run[r] \notin Live
    BY DEF Alone, Live
  <1>2. \A r \in Slots : run'[r] \notin Early /\ (run'[r] \in InSeries => r = s)
    BY <1>1 DEF Early, InSeries, Live
  <1>3. CASE run[s] = "render" /\ UNCHANGED rowVars
    BY <1>0, <1>1, <1>2, <1>3 DEF Shown, Steady, rowVars, InSeries
  <1>4. CASE UpdateJobStatus("running", RunningPair(s), reached'[s]) /\ status \notin Terminal
    <2>1. status' = "running" /\ errorType' = RunningPair(s) /\ progress' = reached'[s]
      BY <1>4 DEF UpdateJobStatus, WriteRefused
    <2> QED
      BY <1>0, <1>1, <1>2, <2>1 DEF Shown, Steady, RunningPair, InSeries
  <1>5. CASE UpdateJobStatus("running", RunningPair(s), reached'[s]) /\ status \in Terminal
    BY <1>5, StatusWritten DEF Shown, Steady, Terminal
  <1> QED
    BY <1>3, <1>4, <1>5

\* A report raises the progress, to less than the whole job.
LEMMA ReportRaises ==
    ASSUME SeriesInv, NEW s \in Slots, run[s] = "render",
           NEW p \in Phases, NEW f \in {0, 1}, p = SavingTake => f = 0, TrackReport(s, p, f)
    PROVE  reached'[s] \in Nat /\ reached'[s] >= reached[s] /\ reached'[s] < TakeUnits * Count
  <1>1. /\ index[s] \in 0 .. Count /\ index[s] < Count /\ reached[s] \in Nat
        /\ reached[s] <= TakeUnits * index[s] + StartsAt[SavingTake]
    BY GenerationJobAssumption DEF SeriesInv, SlotType, SeriesOrder, TakeUnits
  <1>2. reached'[s] \in 0 .. TakeUnits * Count /\ reached'[s] <= TakeUnits * index[s] + StartsAt[SavingTake]
    BY <1>1, Reported DEF SeriesInv
  <1>3. reached'[s] >= reached[s]
    <2>1. TakeUnits * index[s] + StartsAt[p] + f * Weight[p] \in Int
      <3>1. StartsAt[p] \in Nat /\ Weight[p] \in Nat
        BY PhaseShares
      <3>2. f * Weight[p] \in Nat
        BY <3>1
      <3> QED
        BY <1>1, <3>1, <3>2 DEF TakeUnits
    <2> QED
      BY <1>1, <2>1 DEF TrackReport, RaiseTo, Larger, SeriesInv, SlotType
  <1> QED
    BY <1>1, <1>2, <1>3, PhaseShares, GenerationJobAssumption DEF TakeUnits, Phases

\* Shown is preserved, and the step is steady.
LEMMA ShownNext == ASSUME SeriesInv, Alone, Shown, [Next]_vars, ~Crash, ~Drain PROVE Shown' /\ Steady
  <1>0. /\ run \in [Slots -> RunStates] /\ index \in [Slots -> 0 .. Count]
        /\ reached \in [Slots -> 0 .. TakeUnits * Count]
        /\ failure \in [Slots -> {"none", "gpu_out_of_memory", "generation_error"}]
        /\ progress \in 0 .. TakeUnits * Count /\ Count \in Nat /\ Count > 0
        /\ status \in {"none"} \cup Active \cup Terminal
        /\ \A s \in Slots : SeriesOrder(s)
    BY GenerationJobAssumption DEF SeriesInv, SlotType, RowType
  <1> USE DEF trackerVars, takeVars, runVars, procVars
  <1>1. CASE CreateJob \/ EnqueueJob \/ EnqueueRefused \/ EnqueueAbandoned \/ CancelJob
    BY <1>0, <1>1, StatusWritten DEF CreateJob, EnqueueJob, EnqueueRefused, EnqueueAbandoned, CancelJob, Shown,
       Steady, rowVars, Active, Terminal
  <1>2. ASSUME NEW s \in Slots, RunStep(s) \/ Report(s) \/ Heartbeat(s) \/ RunRaises(s) \/ CancelRun(s)
        PROVE  Shown' /\ Steady
    <2> USE DEF SetRun
    <2>1. CASE StartRun(s) \/ Admit(s) \/ EnqueueAgain(s) \/ RunRaises(s) \/ FinishRun(s)
      BY <1>0, <2>1 DEF StartRun, Admit, EnqueueAgain, RunRaises, FinishRun, Shown, Steady, rowVars, Early, InSeries
    <2>2. CASE Requeue(s) \/ SetupFails(s) \/ FailRun(s) \/ CancelRun(s)
      <3>1. status' \in {"running", "partial"} => UNCHANGED rowVars
        BY <2>2 DEF Requeue, SetupFails, FailRun, CancelRun, UpdateLost, UpdateJobStatus, WriteRefused
      <3> QED
        BY <1>0, <2>2, <3>1 DEF Requeue, SetupFails, FailRun, CancelRun, Alone, Shown, Steady, rowVars, Early, InSeries
    <2>3. CASE MarkRunning(s)
      <3>1. status # "running" /\ api = "done" /\ entries = 0 /\ \A r \in Slots \ {s} : run[r] \notin Live
        BY <2>3 DEF MarkRunning, Shown, Alone, Live, Early
      <3>2. status' = "running" => progress' = 0 /\ errorType' = "none"
        BY <2>3, <3>1 DEF MarkRunning, UpdateJobStatus, WriteRefused, rowVars
      <3>3. UNCHANGED <<api, entries>> /\ reached'[s] = 0 /\ run'[s] \in {"loop", "finish"}
            /\ \A r \in Slots \ {s} : run'[r] = run[r]
        BY <1>0, <2>3 DEF MarkRunning
      <3> QED
        BY <1>0, <3>1, <3>2, <3>3 DEF Shown, Steady, Live, Early, InSeries, TakeUnits
    <2>4. CASE StartTake(s)
      <3>1. CASE status \in Terminal
        BY <2>4, <3>1 DEF StartTake, Shown, Steady, rowVars, Terminal
      <3>2. CASE status \notin Terminal
        <4>1. reached'[s] = RaiseTo(s, TakeUnits * index[s]) /\ index[s] < Count
          BY <1>0, <2>4, <3>2 DEF StartTake, MoreTakes
        <4>2. reached'[s] \in Nat /\ reached'[s] >= reached[s] /\ reached'[s] < TakeUnits * Count
          BY <1>0, <2>4, <4>1 DEF StartTake, SeriesOrder, RaiseTo, Larger, TakeUnits
        <4>3. UpdateJobStatus("running", RunningPair(s), reached'[s])
          BY <2>4, <3>2 DEF StartTake
        <4>5. run[s] = "loop" /\ run'[s] = "render" /\ UNCHANGED <<api, entries, failure>>
              /\ \A r \in Slots \ {s} : run'[r] = run[r]
          BY <1>0, <2>4, <3>2 DEF StartTake
        <4> QED
          BY <3>2, <4>2, <4>3, <4>5, TrackerWrites DEF InSeries
      <3> QED
        BY <3>1, <3>2
    <2>5. CASE Report(s)
      <3>1. PICK p \in Phases \ {SavingTake}, f \in {0, 1} : TrackReport(s, p, f)
        BY <2>5 DEF Report
      <3>2. run[s] = "render" /\ UNCHANGED <<api, entries, failure, run>>
        BY <2>5 DEF Report
      <3>3. reached'[s] \in Nat /\ reached'[s] >= reached[s] /\ reached'[s] < TakeUnits * Count
        BY <3>1, <3>2, ReportRaises DEF SeriesInv
      <3> QED
        BY <3>1, <3>2, <3>3, TrackerWrites DEF TrackReport, InSeries
    <2>6. CASE TakeRendered(s)
      <3>1. CASE status \in Terminal
        BY <2>6, <3>1 DEF TakeRendered, Shown, Steady, rowVars, Active, Terminal
      <3>2. CASE status \notin Terminal
        <4>1. TrackReport(s, SavingTake, 0) /\ SavingTake \in Phases
          BY <2>6, <3>2 DEF TakeRendered, SavingTake, Phases
        <4>2. run[s] = "render" /\ run'[s] = "saving" /\ UNCHANGED <<api, entries, failure>>
              /\ \A r \in Slots \ {s} : run'[r] = run[r]
          BY <1>0, <2>6, <3>2 DEF TakeRendered
        <4>3. reached'[s] \in Nat /\ reached'[s] >= reached[s] /\ reached'[s] < TakeUnits * Count
          BY <4>1, <4>2, ReportRaises DEF SeriesInv
        <4> QED
          BY <4>1, <4>2, <4>3, TrackerWrites DEF TrackReport, InSeries
      <3> QED
        BY <3>1, <3>2
    <2>7. CASE TakeFails(s)
      BY <1>0, <2>7 DEF TakeFails, TakeFailed, SelectFailure, Shown, Steady, rowVars, Early, InSeries
    <2>8. CASE Encode(s) \/ EncodeFails(s) \/ Persist(s) \/ PersistFails(s) \/ ReferenceDeleted(s)
      BY <1>0, <2>8 DEF Encode, EncodeFails, Persist, PersistFails, ReferenceDeleted, AfterThread, TakeDone,
         TakeFailed, SelectFailure, Shown, Steady, rowVars, Early, InSeries
    <2>9. CASE Finalize(s)
      <3>1. status' # "running"
        BY <2>9, StatusWritten DEF Finalize, Terminal
      <3>2. status = "running" /\ status' = "partial" => errorType' = failure[s]
        BY <2>9, StatusWritten DEF Finalize, Terminal
      <3> QED
        BY <2>9, <3>1, <3>2 DEF Finalize, Shown, Steady, InSeries
    <2>10. CASE Heartbeat(s)
      BY <1>0, <2>10 DEF Heartbeat, Shown, Steady
    <2> QED
      BY <1>2, <2>1, <2>2, <2>3, <2>4, <2>5, <2>6, <2>7, <2>8, <2>9, <2>10 DEF RunStep
  <1>3. CASE GoStale \/ Age \/ ExpireLock \/ UNCHANGED vars \/ ProcStep \/ \E w \in Reapers : ReaperStep(w)
    <2>1. UNCHANGED <<run, trackerVars, api, entries, progress>>
      BY <1>3 DEF GoStale, Age, ExpireLock, vars, ReaperStep, ReaperRead, ReaperWrite, rowVars, ProcStep,
         RecoverySkipped, RecoveryRead, RecoveryWrite
    <2>2. status' = "failed" \/ (status' = status /\ errorType' = errorType)
      BY <1>3 DEF GoStale, Age, ExpireLock, vars, ReaperStep, ReaperRead, ReaperWrite, rowVars, ProcStep,
         RecoverySkipped, RecoveryRead, RecoveryWrite
    <2> QED
      BY <1>0, <2>1, <2>2 DEF Shown, Steady
  <1> QED
    BY <1>1, <1>2, <1>3 DEF Next

\* Both hold as long as the worker was neither killed nor restarted.
CalmInv == Calm => Alone /\ Shown

\* CalmInv holds in every reachable state.
LEMMA CalmCorrect == Spec => []CalmInv
  <1>1. Init => CalmInv
    BY GenerationJobAssumption DEF CalmInv, Init, Alone, Shown, Live, Early, InSeries
  <1>2. SeriesInv /\ CalmInv /\ [Next]_vars => CalmInv'
    BY CalmBefore, AloneNext, ShownNext DEF CalmInv
  <1> QED
    BY <1>1, <1>2, SeriesCorrect, PTL DEF Spec

\* Without a kill or a restart the job delivers no more takes than it asked for,
\* across requeues, cancelled runs and threads that outlive their run.
THEOREM TakesBounded == Spec => []TakesWithinCount
  <1>1. CalmInv => TakesWithinCount
    BY DEF CalmInv, Calm, Alone, TakesWithinCount
  <1> QED
    BY <1>1, CalmCorrect, PTL

\* Without a kill or a restart, a running job's progress never falls and stays
\* short of the end (GenerationProgressTracker).
THEOREM ProgressRises == Spec => ProgressNeverFalls
  <1>1. SeriesInv /\ CalmInv /\ [Next]_vars
        => [status = "running" /\ status' = "running" /\ crashes + restarts = 0
              => progress' >= progress /\ progress' < TakeUnits * Count]_vars
    <2> SUFFICES ASSUME SeriesInv, Alone, Shown, Next, Calm, status = "running", status' = "running"
                 PROVE  progress' >= progress /\ progress' < TakeUnits * Count
      BY DEF Calm, CalmInv
    <2>1. CASE Crash \/ Drain
      BY <2>1, GenerationJobAssumption DEF Crash, Drain, rowVars, Shown, SeriesInv, RowType, TakeUnits
    <2>2. CASE ~Crash /\ ~Drain
      BY <2>2, ShownNext DEF Steady
    <2> QED
      BY <2>1, <2>2
  <1> QED
    BY <1>1, SeriesCorrect, CalmCorrect, PTL DEF Spec, ProgressNeverFalls

\* Without a kill or a restart, a GPU-memory failure is shown from the next take
\* on and stays until the job leaves RUNNING, and a partial job names it
\* (running_failure_pair, select_generation_failure).
THEOREM OomIsShown == Spec => OomStaysVisible
  <1>1. SeriesInv /\ CalmInv /\ [Next]_vars
        => [crashes + restarts = 0 =>
             /\ status = "running" /\ errorType = "gpu_out_of_memory" /\ status' \in {"running", "partial"}
                  => errorType' = "gpu_out_of_memory"
             /\ \A s \in Slots :
                  run'[s] = "render" /\ status' = "running" /\ failure'[s] = "gpu_out_of_memory"
                      => errorType' = "gpu_out_of_memory"]_vars
    <2> SUFFICES ASSUME SeriesInv, Alone, Shown, Next, Calm
                 PROVE  /\ status = "running" /\ errorType = "gpu_out_of_memory" /\ status' \in {"running", "partial"}
                             => errorType' = "gpu_out_of_memory"
                        /\ \A s \in Slots :
                             run'[s] = "render" /\ status' = "running" /\ failure'[s] = "gpu_out_of_memory"
                                 => errorType' = "gpu_out_of_memory"
      BY DEF Calm, CalmInv
    <2>1. CASE Crash
      BY <2>1 DEF Crash, rowVars
    <2>2. CASE Drain
      BY <2>2 DEF Drain, rowVars, runVars, trackerVars, Shown, InSeries
    <2>3. CASE ~Crash /\ ~Drain
      BY <2>3, ShownNext DEF Steady, Shown, InSeries
    <2> QED
      BY <2>1, <2>2, <2>3
  <1> QED
    BY <1>1, SeriesCorrect, CalmCorrect, PTL DEF Spec, OomStaysVisible
=============================================================================
