------------------------------ MODULE JobsProofs ------------------------------
(***************************************************************************)
(* Three parts of MCJobs.  TakeDelivery, for any number of takes, reports, *)
(* chunks, reconnects, drops, crashes and disk errors: type correctness,   *)
(* that a fetched take is whole and a failed dispatch leaves no file, that *)
(* no subscriber misses the terminal event, that nothing follows it, and   *)
(* that TakePromise is implemented.                                        *)
(* A voice in training (LoraTraining), for any number of reconcilers and   *)
(* deaths.  The verdict on a queued job (StaleJobs), for any number of     *)
(* signals and restarts, and any grace and bounds.                         *)
(***************************************************************************)
EXTENDS MCJobs, TLAPS

\* The states of the client in which the music worker has a take file.
HasFile == {"get", "read", "torn", "release", "fetched"}

\* The take file exists exactly while it is filled and once it is whole.
FileInv ==
    \A t \in Takes :
        /\ local[t] <=> client[t] \in HasFile
        /\ client[t] \in {"release", "fetched"} => got[t] = Chunks

\* A record that no runner works on is terminal.
RunnerInv ==
    \A t \in Takes : runner[t] = "none" /\ state[t] # "absent" => state[t] \in Terminal

\* The record of a take that was not submitted is blank; a record is absent or
\* terminal only when its runner has ended, and terminal only when every report is
\* written; until then its progress is that of the last report written.
RecordInv ==
    \A t \in Takes :
        /\ client[t] = "idle" =>
              /\ state[t] = "absent" /\ progress[t] = 0 /\ queue[t] = <<>>
              /\ reported[t] = 0 /\ written[t] = 0
        /\ state[t] \in Terminal \cup {"absent"} => runner[t] = "none"
        /\ state[t] \in Terminal \/ runner[t] \in {"write", "complete", "fail"} => written[t] = reported[t]
        /\ expired[t] => state[t] \in Terminal
        /\ state[t] \in {"pending", "running"} => progress[t] = written[t]

\* A stream that holds the event the subscriber waits for.
HoldsTerminal(q) == \E i \in DOMAIN q : q[i].type \in Terminal

\* The events of a stream tell of progress up to n and of an end at the end only.
Orderly(q, n) ==
    /\ \A i \in DOMAIN q : q[i].progress <= n
    /\ \A i, j \in DOMAIN q : i < j => q[i].type = "progress" /\ q[i].progress <= q[j].progress

\* So do the streams of the takes; the terminal event comes when the task has ended.
StreamInv ==
    \A t \in Takes :
        /\ Orderly(queue[t], progress[t])
        /\ HoldsTerminal(queue[t]) => state[t] \in Terminal \cup {"absent"}

\* The inductive invariant.
IInv == TypeOK /\ FileInv /\ RunnerInv /\ NoTerminalEventMissed /\ RecordInv /\ StreamInv
-----------------------------------------------------------------------------
\* The states of a record.
TaskStates == {"absent", "pending", "running"} \cup Terminal

\* What an update of a record leaves typed ...
UpdateTyped ==
    /\ state' \in [Takes -> TaskStates]
    /\ progress' \in [Takes -> 0 .. Full]
    /\ recorded' \in [Takes -> BOOLEAN]
    /\ queue' \in [Takes -> Seq(Events)]
    /\ UNCHANGED <<expired, reconnects>>

\* ... and a new connection of the stream.
ReconnectTyped ==
    /\ queue' \in [Takes -> Seq(Events)]
    /\ reconnects' \in [Takes -> 0 .. MaxReconnects]
    /\ client' \in [Takes -> {"idle", "opening", "discarding"} \cup Following \cup Fetching
                                \cup Ended]

\* The progress of a finished task is beyond every report.
LEMMA FullType ==
    /\ Full \in Nat
    /\ Full \in 0 .. Full
    /\ \A n \in 0 .. MaxReports : n \in 0 .. Full /\ n < Full
  BY TakeDeliveryAssumption DEF Full

\* What the store sends is an event.
LEMMA EventType ==
    ASSUME NEW s \in TaskStates, NEW p \in 0 .. Full
    PROVE  Event(s, p) \in Events
  BY DEF Event, Events, TaskStates, Terminal

\* An update keeps the types of the record and of the stream.
LEMMA UpdateType ==
    ASSUME TypeOK, NEW t \in Takes, NEW s \in TaskStates, NEW p \in 0 .. Full,
           NEW f \in BOOLEAN, Update(t, s, p, f)
    PROVE  UpdateTyped
  <1>1. Append(queue[t], Event(s, p)) \in Seq(Events)
    BY EventType DEF TypeOK
  <1> QED
    BY <1>1 DEF TypeOK, Update, UpdateTyped, TaskStates

\* So does a new connection.
LEMMA ReconnectType ==
    ASSUME TypeOK, NEW t \in Takes, Reconnect(t)
    PROVE  ReconnectTyped
  <1>1. queue' \in [Takes -> Seq(Events)]
    BY DEF TypeOK, Reconnect
  <1>2. reconnects' \in [Takes -> 0 .. MaxReconnects]
    <2>1. CASE BudgetLeft(t)
      <3>1. reconnects[t] + 1 \in 0 .. MaxReconnects
        BY <2>1, TakeDeliveryAssumption DEF TypeOK, BudgetLeft
      <3>2. reconnects' = [reconnects EXCEPT ![t] = reconnects[t] + 1]
        BY <2>1 DEF Reconnect
      <3> QED
        BY <3>1, <3>2 DEF TypeOK
    <2>2. CASE ~BudgetLeft(t)
      BY <2>2 DEF TypeOK, Reconnect
    <2> QED
      BY <2>1, <2>2
  <1>3. client' \in [Takes -> {"idle", "opening", "discarding"} \cup Following \cup Fetching
                                \cup Ended]
    BY DEF TypeOK, Reconnect, SetClient, Following, Ended
  <1> QED
    BY <1>1, <1>2, <1>3 DEF ReconnectTyped

\* Every step keeps the types.
LEMMA NextTypeOK == TypeOK /\ [Next]_vars => TypeOK'
  <1> SUFFICES ASSUME TypeOK, [Next]_vars PROVE TypeOK'
    OBVIOUS
  <1> USE TakeDeliveryAssumption
  <1> USE DEF TypeOK, Terminal, Following, Fetching, Ended,
              recordVars, runVars, streamVars, copyVars, boundVars
  <1>1. ASSUME NEW t \in Takes, Submit(t) PROVE TypeOK'
    BY <1>1 DEF Submit, SetRunner, SetClient
  <1>2. ASSUME NEW t \in Takes, SubmitFails(t) PROVE TypeOK'
    BY <1>2 DEF SubmitFails, SetClient
  <1>3. ASSUME NEW t \in Takes, Cancel(t) PROVE TypeOK'
    BY <1>3 DEF Cancel, CancelTake, DiscardTake, SetClient
  <1>4. ASSUME NEW t \in Takes, MarkRunning(t) PROVE TypeOK'
    <2>1. Update(t, "running", progress[t], recorded[t])
      BY <1>4 DEF MarkRunning
    <2>2. "running" \in TaskStates /\ progress[t] \in 0 .. Full /\ recorded[t] \in BOOLEAN
      BY <1>4, FullType DEF MarkRunning, TaskStates
    <2>3. UpdateTyped
      BY <2>1, <2>2, UpdateType
    <2> QED
      BY <1>4, <2>3 DEF MarkRunning, SetRunner, UpdateTyped, TaskStates
  <1>5. ASSUME NEW t \in Takes, WriteProgress(t) PROVE TypeOK'
    <2>1. Update(t, state[t], written[t] + 1, recorded[t])
      BY <1>5 DEF WriteProgress
    <2>2. written[t] + 1 \in 0 .. MaxReports
      BY <1>5 DEF WriteProgress
    <2>3. state[t] \in TaskStates /\ recorded[t] \in BOOLEAN
      BY DEF TaskStates
    <2>4. written[t] + 1 \in 0 .. Full
      BY <2>2, FullType
    <2>5. UpdateTyped
      BY <2>1, <2>3, <2>4, UpdateType
    <2>6. written' \in [Takes -> 0 .. MaxReports]
      BY <1>5, <2>2 DEF WriteProgress
    <2> QED
      BY <1>5, <2>5, <2>6 DEF WriteProgress, UpdateTyped, TaskStates
  <1>6. ASSUME NEW t \in Takes, RenderEnds(t) PROVE TypeOK'
    BY <1>6 DEF RenderEnds, SetRunner
  <1>7. ASSUME NEW t \in Takes, Gather(t) PROVE TypeOK'
    BY <1>7 DEF Gather, SetRunner
  <1>8. ASSUME NEW t \in Takes, WriteFile(t) PROVE TypeOK'
    <2>1. file' \in [Takes -> BOOLEAN]
      BY <1>8 DEF WriteFile
    <2>2. runner' \in [Takes -> {"none", "start", "render", "rendered", "broken", "write",
                                 "complete", "fail"}]
      <3>1. PICK r \in {"complete", "fail"} : runner' = [runner EXCEPT ![t] = r]
        BY <1>8 DEF WriteFile, SetRunner
      <3> QED
        BY <3>1
    <2>3. diskErrors' \in 0 .. MaxDiskErrors
      BY <1>8 DEF WriteFile, DiskError
    <2> QED
      BY <1>8, <2>1, <2>2, <2>3 DEF WriteFile
  <1>9. ASSUME NEW t \in Takes, Complete(t) PROVE TypeOK'
    <2>1. Update(t, "done", Full, TRUE)
      BY <1>9 DEF Complete
    <2>2. "done" \in TaskStates /\ Full \in 0 .. Full /\ TRUE \in BOOLEAN
      BY <1>9, FullType DEF Complete, TaskStates
    <2>3. UpdateTyped
      BY <2>1, <2>2, UpdateType
    <2> QED
      BY <1>9, <2>3 DEF Complete, SetRunner, UpdateTyped, TaskStates
  <1>10. ASSUME NEW t \in Takes, Fail(t) PROVE TypeOK'
    <2>1. Update(t, "error", progress[t], recorded[t])
      BY <1>10 DEF Fail
    <2>2. "error" \in TaskStates /\ progress[t] \in 0 .. Full /\ recorded[t] \in BOOLEAN
      BY <1>10, FullType DEF Fail, TaskStates
    <2>3. UpdateTyped
      BY <2>1, <2>2, UpdateType
    <2> QED
      BY <1>10, <2>3 DEF Fail, SetRunner, UpdateTyped, TaskStates
  <1>11. ASSUME NEW t \in Takes, Report(t) PROVE TypeOK'
    BY <1>11 DEF Report
  <1>12. ASSUME NEW t \in Takes, CheckTask(t) PROVE TypeOK'
    BY <1>12 DEF CheckTask, SetClient, Answer
  <1>13. ASSUME NEW t \in Takes, Subscribe(t) PROVE TypeOK'
    <2>1. Event(state[t], progress[t]) \in Events
      BY EventType DEF TaskStates
    <2>2. Initial(t) \in Seq(Events)
      BY <2>1 DEF Initial
    <2> QED
      BY <1>13, <2>2 DEF Subscribe, SetClient
  <1>14. ASSUME NEW t \in Takes, Receive(t) PROVE TypeOK'
    <2>1. Tail(queue[t]) \in Seq(Events) /\ Head(queue[t]) \in Events
      BY <1>14 DEF Receive
    <2>2. AfterEvent[Head(queue[t]).type] \in {"stream", "opening", "failed"}
      BY <2>1 DEF Events, AfterEvent
    <2> QED
      BY <1>14, <2>1, <2>2 DEF Receive, SetClient
  <1>15. ASSUME NEW t \in Takes, Dropped(t) PROVE TypeOK'
    <2>1. Reconnect(t)
      BY <1>15 DEF Dropped
    <2>2. ReconnectTyped
      BY <2>1, ReconnectType
    <2> QED
      BY <1>15, <2>2 DEF Dropped, ReconnectTyped
  <1>16. ASSUME NEW t \in Takes, Silent(t) PROVE TypeOK'
    BY <1>16 DEF Silent, SetClient
  <1>17. ASSUME NEW t \in Takes, OpenTakeFile(t) PROVE TypeOK'
    BY <1>17 DEF OpenTakeFile, SetClient
  <1>18. ASSUME NEW t \in Takes, GetResult(t) PROVE TypeOK'
    BY <1>18 DEF GetResult, SetClient
  <1>19. ASSUME NEW t \in Takes, ReadChunk(t) PROVE TypeOK'
    BY <1>19 DEF ReadChunk, SetClient
  <1>20. ASSUME NEW t \in Takes, FetchFails(t) PROVE TypeOK'
    BY <1>20 DEF FetchFails, DiscardTake, SetClient
  <1>21. ASSUME NEW t \in Takes, Release(t) PROVE TypeOK'
    <2>1. file' \in [Takes -> BOOLEAN]
      <3>1. [file EXCEPT ![t] = @ /\ ~recorded[t]] \in [Takes -> BOOLEAN]
        BY ZenonT(20)
      <3> QED
        BY <1>21, <3>1 DEF Release
    <2>2. recorded' \in [Takes -> BOOLEAN]
      BY <1>21 DEF Release
    <2>3. drops' \in 0 .. MaxDrops
      BY <1>21 DEF Release
    <2>4. diskErrors' \in 0 .. MaxDiskErrors
      BY <1>21 DEF Release, DiskError
    <2> QED
      BY <1>21, <2>1, <2>2, <2>3, <2>4 DEF Release, SetClient
  <1>22. ASSUME NEW t \in Takes, NetworkDrop(t) PROVE TypeOK'
    <2>1. /\ UNCHANGED <<up, recordVars, runVars, file, got, crashes, diskErrors>>
          /\ drops' \in 0 .. MaxDrops
      BY <1>22 DEF NetworkDrop
    <2>2. ReconnectTyped /\ local' \in [Takes -> BOOLEAN]
      <3>1. CASE Reconnect(t) /\ UNCHANGED local
        BY <3>1, ReconnectType
      <3>2. CASE DiscardTake(t) /\ UNCHANGED streamVars
        BY <3>2 DEF DiscardTake, SetClient, ReconnectTyped
      <3> QED
        BY <1>22, <3>1, <3>2 DEF NetworkDrop
    <2> QED
      BY <2>1, <2>2 DEF ReconnectTyped
  <1>23. ASSUME NEW t \in Takes, Expire(t) PROVE TypeOK'
    BY <1>23 DEF Expire
  <1>24. ASSUME NEW t \in Takes, Sweep(t) PROVE TypeOK'
    <2>1. file' \in [Takes -> BOOLEAN]
      <3>1. [file EXCEPT ![t] = @ /\ ~recorded[t]] \in [Takes -> BOOLEAN]
        BY ZenonT(20)
      <3> QED
        BY <1>24, <3>1 DEF Sweep, KeepRecord
    <2>2. recorded' \in [Takes -> BOOLEAN] /\ expired' \in [Takes -> BOOLEAN]
      BY <1>24 DEF Sweep, KeepRecord
    <2>3. state' \in [Takes -> {"absent", "pending", "running"} \cup Terminal]
      BY <1>24 DEF Sweep, KeepRecord
    <2>4. diskErrors' \in 0 .. MaxDiskErrors
      BY <1>24 DEF Sweep, DiskError
    <2> QED
      BY <1>24, <2>1, <2>2, <2>3, <2>4 DEF Sweep
  <1>25. CASE Crash
    <2>1. queue' \in [Takes -> Seq(Events)]
      BY <1>25 DEF Crash
    <2>2. client' \in [Takes -> {"idle", "opening", "discarding"} \cup Following \cup Fetching
                                   \cup Ended]
      BY <1>25 DEF Crash
    <2>3. /\ state' \in [Takes -> {"absent", "pending", "running"} \cup Terminal]
          /\ recorded' \in [Takes -> BOOLEAN]
          /\ expired' \in [Takes -> BOOLEAN]
      BY <1>25 DEF Crash
    <2>4. crashes' \in 0 .. MaxCrashes
      BY <1>25 DEF Crash
    <2>5. up' \in BOOLEAN
      BY <1>25 DEF Crash
    <2> QED
      BY <1>25, <2>1, <2>2, <2>3, <2>4, <2>5 DEF Crash
  <1>26. CASE Restart
    BY <1>26 DEF Restart
  <1>27. CASE UNCHANGED vars
    BY <1>27 DEF vars
  <1> QED
    BY <1>1, <1>2, <1>3, <1>4, <1>5, <1>6, <1>7, <1>8, <1>9, <1>10, <1>11, <1>12, <1>13, <1>14,
       <1>15, <1>16, <1>17, <1>18, <1>19, <1>20, <1>21, <1>22, <1>23, <1>24, <1>25, <1>26, <1>27
    DEF Next, RunnerStep, ClientStep
-----------------------------------------------------------------------------
\* A step of a client that has no take file and gets none.
LEMMA WithoutFile ==
    ASSUME TypeOK, FileInv, NEW t \in Takes, NEW c, SetClient(t, c), client[t] \notin HasFile,
           c \notin HasFile, UNCHANGED copyVars
    PROVE  FileInv'
  BY DEF TypeOK, FileInv, HasFile, SetClient, copyVars

\* A failure removes the take file.
LEMMA FileDiscarded ==
    ASSUME TypeOK, FileInv, NEW t \in Takes, DiscardTake(t), UNCHANGED got
    PROVE  FileInv'
  <1> SUFFICES ASSUME NEW u \in Takes
               PROVE  /\ local'[u] <=> client'[u] \in HasFile
                      /\ client'[u] \in {"release", "fetched"} => got'[u] = Chunks
    BY DEF FileInv
  <1>1. CASE u = t
    BY <1>1 DEF TypeOK, DiscardTake, SetClient, HasFile
  <1>2. CASE u # t
    BY <1>2 DEF TypeOK, FileInv, DiscardTake, SetClient
  <1> QED
    BY <1>1, <1>2

\* Every step keeps the take file of the music worker accounted for.
LEMMA NextFileInv == TypeOK /\ FileInv /\ [Next]_vars => FileInv'
  <1> SUFFICES ASSUME TypeOK /\ FileInv, [Next]_vars PROVE FileInv'
    OBVIOUS
  <1> USE TakeDeliveryAssumption
  <1> USE DEF TypeOK, FileInv, HasFile, Terminal, Following, Fetching, Ended,
              recordVars, runVars, streamVars, copyVars, boundVars
  <1>1. ASSUME NEW t \in Takes, Submit(t) PROVE FileInv'
    BY <1>1 DEF Submit, SetRunner, SetClient
  <1>2. ASSUME NEW t \in Takes, SubmitFails(t) PROVE FileInv'
    BY <1>2 DEF SubmitFails, SetClient
  <1>3. ASSUME NEW t \in Takes, Cancel(t) PROVE FileInv'
    <2>1. CASE client[t] = "opening"
      BY <1>3, <2>1, WithoutFile DEF Cancel, CancelTake
    <2>2. CASE client[t] # "opening"
      BY <1>3, <2>2, FileDiscarded DEF Cancel, CancelTake
    <2> QED
      BY <2>1, <2>2
  <1>4. ASSUME NEW t \in Takes, MarkRunning(t) PROVE FileInv'
    BY <1>4 DEF MarkRunning, Update, SetRunner
  <1>5. ASSUME NEW t \in Takes, WriteProgress(t) PROVE FileInv'
    BY <1>5 DEF WriteProgress, Update
  <1>6. ASSUME NEW t \in Takes, RenderEnds(t) PROVE FileInv'
    BY <1>6 DEF RenderEnds, SetRunner
  <1>7. ASSUME NEW t \in Takes, Gather(t) PROVE FileInv'
    BY <1>7 DEF Gather, SetRunner
  <1>8. ASSUME NEW t \in Takes, WriteFile(t) PROVE FileInv'
    BY <1>8 DEF WriteFile, SetRunner, DiskError
  <1>9. ASSUME NEW t \in Takes, Complete(t) PROVE FileInv'
    BY <1>9 DEF Complete, Update, SetRunner
  <1>10. ASSUME NEW t \in Takes, Fail(t) PROVE FileInv'
    BY <1>10 DEF Fail, Update, SetRunner
  <1>11. ASSUME NEW t \in Takes, Report(t) PROVE FileInv'
    BY <1>11 DEF Report
  <1>12. ASSUME NEW t \in Takes, CheckTask(t) PROVE FileInv'
    BY <1>12 DEF CheckTask, SetClient, Answer
  <1>13. ASSUME NEW t \in Takes, Subscribe(t) PROVE FileInv'
    BY <1>13 DEF Subscribe, SetClient, Initial
  <1>14. ASSUME NEW t \in Takes, Receive(t) PROVE FileInv'
    <2>1. Head(queue[t]) \in Events
      BY <1>14 DEF Receive
    <2>2. AfterEvent[Head(queue[t]).type] \in {"stream", "opening", "failed"}
      BY <2>1 DEF Events, AfterEvent
    <2> QED
      BY <1>14, <2>2, WithoutFile DEF Receive
  <1>15. ASSUME NEW t \in Takes, Dropped(t) PROVE FileInv'
    <2>1. PICK c \in {"connect", "failed"} : SetClient(t, c)
      BY <1>15 DEF Dropped, Reconnect
    <2> QED
      BY <1>15, <2>1, WithoutFile DEF Dropped
  <1>16. ASSUME NEW t \in Takes, Silent(t) PROVE FileInv'
    BY <1>16 DEF Silent, SetClient
  <1>17. ASSUME NEW t \in Takes, OpenTakeFile(t) PROVE FileInv'
    <2>1. CASE client[t] = "discarding"
      BY <1>17, <2>1, WithoutFile DEF OpenTakeFile
    <2>2. CASE client[t] # "discarding"
      <3>1. /\ local' = [local EXCEPT ![t] = TRUE]
            /\ client' = [client EXCEPT ![t] = "get"]
            /\ UNCHANGED got
        BY <1>17, <2>2 DEF OpenTakeFile, SetClient
      <3>2. ASSUME NEW u \in Takes
            PROVE  /\ local'[u] <=> client'[u] \in HasFile
                   /\ client'[u] \in {"release", "fetched"} => got'[u] = Chunks
        <4>1. CASE u = t
          BY <3>1, <4>1
        <4>2. CASE u # t
          BY <3>1, <4>2
        <4> QED
          BY <4>1, <4>2
      <3> QED
        BY <3>2
    <2> QED
      BY <2>1, <2>2
  <1>18. ASSUME NEW t \in Takes, GetResult(t) PROVE FileInv'
    BY <1>18 DEF GetResult, SetClient
  <1>19. ASSUME NEW t \in Takes, ReadChunk(t) PROVE FileInv'
    BY <1>19 DEF ReadChunk, SetClient
  <1>20. ASSUME NEW t \in Takes, FetchFails(t) PROVE FileInv'
    BY <1>20 DEF FetchFails, DiscardTake, SetClient
  <1>21. ASSUME NEW t \in Takes, Release(t) PROVE FileInv'
    BY <1>21 DEF Release, SetClient, DiskError
  <1>22. ASSUME NEW t \in Takes, NetworkDrop(t) PROVE FileInv'
    <2>1. CASE client[t] \in Following
      <3>1. PICK c \in {"connect", "failed"} : SetClient(t, c)
        BY <1>22, <2>1 DEF NetworkDrop, Reconnect
      <3> QED
        BY <1>22, <2>1, <3>1, WithoutFile DEF NetworkDrop
    <2>2. CASE client[t] \notin Following
      BY <1>22, <2>2, FileDiscarded DEF NetworkDrop
    <2> QED
      BY <2>1, <2>2
  <1>23. ASSUME NEW t \in Takes, Expire(t) PROVE FileInv'
    BY <1>23 DEF Expire
  <1>24. ASSUME NEW t \in Takes, Sweep(t) PROVE FileInv'
    BY <1>24 DEF Sweep, KeepRecord, DiskError
  <1>25. CASE Crash
    BY <1>25 DEF Crash
  <1>26. CASE Restart
    BY <1>26 DEF Restart
  <1>27. CASE UNCHANGED vars
    BY <1>27 DEF vars
  <1> QED
    BY <1>1, <1>2, <1>3, <1>4, <1>5, <1>6, <1>7, <1>8, <1>9, <1>10, <1>11, <1>12, <1>13, <1>14,
       <1>15, <1>16, <1>17, <1>18, <1>19, <1>20, <1>21, <1>22, <1>23, <1>24, <1>25, <1>26, <1>27
    DEF Next, RunnerStep, ClientStep
-----------------------------------------------------------------------------
\* A runner ends by making its record terminal, or with the worker.
LEMMA NextRunnerInv == TypeOK /\ RunnerInv /\ [Next]_vars => RunnerInv'
  <1> SUFFICES ASSUME TypeOK /\ RunnerInv, [Next]_vars PROVE RunnerInv'
    OBVIOUS
  <1> USE TakeDeliveryAssumption
  <1> USE DEF TypeOK, RunnerInv, Terminal, Following, Fetching, Ended,
              recordVars, runVars, streamVars, copyVars, boundVars
  <1>1. ASSUME NEW t \in Takes, Submit(t) PROVE RunnerInv'
    BY <1>1 DEF Submit, SetRunner, SetClient
  <1>2. ASSUME NEW t \in Takes, SubmitFails(t) PROVE RunnerInv'
    BY <1>2 DEF SubmitFails, SetClient
  <1>3. ASSUME NEW t \in Takes, Cancel(t) PROVE RunnerInv'
    BY <1>3 DEF Cancel, CancelTake, DiscardTake, SetClient
  <1>4. ASSUME NEW t \in Takes, MarkRunning(t) PROVE RunnerInv'
    BY <1>4 DEF MarkRunning, Update, SetRunner
  <1>5. ASSUME NEW t \in Takes, WriteProgress(t) PROVE RunnerInv'
    BY <1>5 DEF WriteProgress, Update
  <1>6. ASSUME NEW t \in Takes, RenderEnds(t) PROVE RunnerInv'
    BY <1>6 DEF RenderEnds, SetRunner
  <1>7. ASSUME NEW t \in Takes, Gather(t) PROVE RunnerInv'
    BY <1>7 DEF Gather, SetRunner
  <1>8. ASSUME NEW t \in Takes, WriteFile(t) PROVE RunnerInv'
    BY <1>8 DEF WriteFile, SetRunner, DiskError
  <1>9. ASSUME NEW t \in Takes, Complete(t) PROVE RunnerInv'
    BY <1>9 DEF Complete, Update, SetRunner
  <1>10. ASSUME NEW t \in Takes, Fail(t) PROVE RunnerInv'
    BY <1>10 DEF Fail, Update, SetRunner
  <1>11. ASSUME NEW t \in Takes, Report(t) PROVE RunnerInv'
    BY <1>11 DEF Report
  <1>12. ASSUME NEW t \in Takes, CheckTask(t) PROVE RunnerInv'
    BY <1>12 DEF CheckTask, SetClient, Answer
  <1>13. ASSUME NEW t \in Takes, Subscribe(t) PROVE RunnerInv'
    BY <1>13 DEF Subscribe, SetClient, Initial
  <1>14. ASSUME NEW t \in Takes, Receive(t) PROVE RunnerInv'
    BY <1>14 DEF Receive, SetClient, AfterEvent
  <1>15. ASSUME NEW t \in Takes, Dropped(t) PROVE RunnerInv'
    BY <1>15 DEF Dropped, Reconnect, BudgetLeft, SetClient
  <1>16. ASSUME NEW t \in Takes, Silent(t) PROVE RunnerInv'
    BY <1>16 DEF Silent, SetClient
  <1>17. ASSUME NEW t \in Takes, OpenTakeFile(t) PROVE RunnerInv'
    BY <1>17 DEF OpenTakeFile, SetClient
  <1>18. ASSUME NEW t \in Takes, GetResult(t) PROVE RunnerInv'
    BY <1>18 DEF GetResult, SetClient
  <1>19. ASSUME NEW t \in Takes, ReadChunk(t) PROVE RunnerInv'
    BY <1>19 DEF ReadChunk, SetClient
  <1>20. ASSUME NEW t \in Takes, FetchFails(t) PROVE RunnerInv'
    BY <1>20 DEF FetchFails, DiscardTake, SetClient
  <1>21. ASSUME NEW t \in Takes, Release(t) PROVE RunnerInv'
    BY <1>21 DEF Release, SetClient, DiskError
  <1>22. ASSUME NEW t \in Takes, NetworkDrop(t) PROVE RunnerInv'
    BY <1>22 DEF NetworkDrop, Reconnect, BudgetLeft, DiscardTake, SetClient
  <1>23. ASSUME NEW t \in Takes, Expire(t) PROVE RunnerInv'
    BY <1>23 DEF Expire
  <1>24. ASSUME NEW t \in Takes, Sweep(t) PROVE RunnerInv'
    BY <1>24 DEF Sweep, KeepRecord, DiskError
  <1>25. CASE Crash
    BY <1>25 DEF Crash
  <1>26. CASE Restart
    BY <1>26 DEF Restart
  <1>27. CASE UNCHANGED vars
    BY <1>27 DEF vars
  <1> QED
    BY <1>1, <1>2, <1>3, <1>4, <1>5, <1>6, <1>7, <1>8, <1>9, <1>10, <1>11, <1>12, <1>13, <1>14,
       <1>15, <1>16, <1>17, <1>18, <1>19, <1>20, <1>21, <1>22, <1>23, <1>24, <1>25, <1>26, <1>27
    DEF Next, RunnerStep, ClientStep
-----------------------------------------------------------------------------
\* The store appends to a stream: what it held it still holds.
LEMMA AppendHolds ==
    ASSUME NEW q \in Seq(Events), NEW e \in Events, HoldsTerminal(q) \/ e.type \in Terminal
    PROVE  HoldsTerminal(Append(q, e))
  <1> DEFINE r == Append(q, e)
  <1>1. /\ DOMAIN r = 1 .. Len(q) + 1
        /\ \A i \in 1 .. Len(q) : r[i] = q[i]
        /\ r[Len(q) + 1] = e
        /\ DOMAIN q = 1 .. Len(q) /\ Len(q) \in Nat
    OBVIOUS
  <1>2. CASE e.type \in Terminal
    <2>1. Len(q) + 1 \in DOMAIN r
      BY <1>1
    <2> QED
      BY <1>1, <1>2, <2>1 DEF HoldsTerminal
  <1>3. CASE HoldsTerminal(q)
    <2>1. PICK i \in DOMAIN q : q[i].type \in Terminal
      BY <1>3 DEF HoldsTerminal
    <2>2. i \in DOMAIN r /\ r[i] = q[i]
      BY <1>1, <2>1
    <2> QED
      BY <2>1, <2>2 DEF HoldsTerminal
  <1> QED
    BY <1>2, <1>3

\* The client takes an event off: unless it was the terminal one, that is still
\* to come.
LEMMA TailHolds ==
    ASSUME NEW q \in Seq(Events), q # <<>>, HoldsTerminal(q), Head(q).type \notin Terminal
    PROVE  HoldsTerminal(Tail(q))
  <1>1. PICK i \in DOMAIN q : q[i].type \in Terminal
    BY DEF HoldsTerminal
  <1>2. i # 1 /\ i \in 1 .. Len(q)
    BY <1>1
  <1> DEFINE r == Tail(q)
  <1>3. DOMAIN r = 1 .. Len(q) - 1 /\ \A j \in 1 .. Len(q) - 1 : r[j] = q[j + 1]
    OBVIOUS
  <1> HIDE DEF r
  <1>4. i - 1 \in DOMAIN r /\ r[i - 1] = q[i]
    BY <1>2, <1>3
  <1>5. HoldsTerminal(r)
    BY <1>1, <1>4 DEF HoldsTerminal
  <1> QED
    BY <1>5 DEF r

\* An update of a record leaves the streams of the others alone, and its own
\* keeps what it held.
LEMMA UpdateHolds ==
    ASSUME TypeOK, NoTerminalEventMissed, NEW t \in Takes, NEW s \in TaskStates,
           NEW p \in 0 .. Full, NEW f, Update(t, s, p, f), UNCHANGED client,
           \A u \in Takes : u # t => runner'[u] = runner[u],
           s \in Terminal \/ runner'[t] # "none" \/ runner[t] = "none"
    PROVE  NoTerminalEventMissed'
  <1> SUFFICES ASSUME NEW u \in Takes, client'[u] = "stream", runner'[u] = "none"
               PROVE  HoldsTerminal(queue'[u])
    BY DEF NoTerminalEventMissed, HoldsTerminal
  <1>1. CASE u # t
    <2>1. queue'[u] = queue[u] /\ client[u] = "stream" /\ runner[u] = "none"
      BY <1>1 DEF TypeOK, Update
    <2> QED
      BY <2>1 DEF NoTerminalEventMissed, HoldsTerminal
  <1>2. CASE u = t
    <2>1. queue'[t] = Append(queue[t], Event(s, p))
      BY <1>2 DEF TypeOK, Update
    <2>2. queue[t] \in Seq(Events) /\ Event(s, p) \in Events
      BY EventType DEF TypeOK
    <2>3. HoldsTerminal(queue[t]) \/ Event(s, p).type \in Terminal
      <3>1. CASE s \in Terminal
        BY <3>1 DEF Event
      <3>2. CASE s \notin Terminal
        BY <1>2, <3>2 DEF NoTerminalEventMissed, HoldsTerminal
      <3> QED
        BY <3>1, <3>2
    <2> QED
      BY <1>2, <2>1, <2>2, <2>3, AppendHolds
  <1> QED
    BY <1>1, <1>2

\* Every step keeps the terminal event of a finished task in its stream.
LEMMA NextNoTerminalEventMissed ==
    TypeOK /\ RunnerInv /\ NoTerminalEventMissed /\ [Next]_vars => NoTerminalEventMissed'
  <1> SUFFICES ASSUME TypeOK /\ RunnerInv /\ NoTerminalEventMissed, [Next]_vars
               PROVE  NoTerminalEventMissed'
    OBVIOUS
  <1> USE TakeDeliveryAssumption
  <1> USE DEF TypeOK, RunnerInv, NoTerminalEventMissed, Terminal, Following, Fetching, Ended,
              recordVars, runVars, streamVars, copyVars, boundVars
  <1>1. ASSUME NEW t \in Takes, Submit(t) PROVE NoTerminalEventMissed'
    BY <1>1 DEF Submit, SetRunner, SetClient
  <1>2. ASSUME NEW t \in Takes, SubmitFails(t) PROVE NoTerminalEventMissed'
    BY <1>2 DEF SubmitFails, SetClient
  <1>3. ASSUME NEW t \in Takes, Cancel(t) PROVE NoTerminalEventMissed'
    BY <1>3 DEF Cancel, CancelTake, DiscardTake, SetClient
  <1>4. ASSUME NEW t \in Takes, MarkRunning(t) PROVE NoTerminalEventMissed'
    <2>1. Update(t, "running", progress[t], recorded[t]) /\ UNCHANGED client
      BY <1>4 DEF MarkRunning
    <2>2. "running" \in TaskStates /\ progress[t] \in 0 .. Full
      BY <1>4, FullType DEF MarkRunning, TaskStates
    <2>3. /\ \A u \in Takes : u # t => runner'[u] = runner[u]
          /\ "running" \in Terminal \/ runner'[t] # "none" \/ runner[t] = "none"
      BY <1>4 DEF MarkRunning, SetRunner
    <2> QED
      BY <2>1, <2>2, <2>3, UpdateHolds
  <1>5. ASSUME NEW t \in Takes, WriteProgress(t) PROVE NoTerminalEventMissed'
    <2>1. Update(t, state[t], written[t] + 1, recorded[t]) /\ UNCHANGED client
      BY <1>5 DEF WriteProgress
    <2>2. written[t] + 1 \in 0 .. MaxReports
      BY <1>5 DEF WriteProgress
    <2>3. written[t] + 1 \in 0 .. Full /\ state[t] \in TaskStates
      BY <2>2, FullType DEF TaskStates
    <2>4. /\ \A u \in Takes : u # t => runner'[u] = runner[u]
          /\ runner'[t] # "none" \/ runner[t] = "none"
      BY <1>5 DEF WriteProgress
    <2> QED
      BY <2>1, <2>3, <2>4, UpdateHolds
  <1>6. ASSUME NEW t \in Takes, RenderEnds(t) PROVE NoTerminalEventMissed'
    BY <1>6 DEF RenderEnds, SetRunner
  <1>7. ASSUME NEW t \in Takes, Gather(t) PROVE NoTerminalEventMissed'
    BY <1>7 DEF Gather, SetRunner
  <1>8. ASSUME NEW t \in Takes, WriteFile(t) PROVE NoTerminalEventMissed'
    BY <1>8 DEF WriteFile, SetRunner, DiskError
  <1>9. ASSUME NEW t \in Takes, Complete(t) PROVE NoTerminalEventMissed'
    <2>1. Update(t, "done", Full, TRUE) /\ UNCHANGED client
      BY <1>9 DEF Complete
    <2>2. "done" \in TaskStates /\ Full \in 0 .. Full
      BY <1>9, FullType DEF Complete, TaskStates
    <2>3. /\ \A u \in Takes : u # t => runner'[u] = runner[u]
          /\ "done" \in Terminal \/ runner'[t] # "none" \/ runner[t] = "none"
      BY <1>9 DEF Complete, SetRunner
    <2> QED
      BY <2>1, <2>2, <2>3, UpdateHolds
  <1>10. ASSUME NEW t \in Takes, Fail(t) PROVE NoTerminalEventMissed'
    <2>1. Update(t, "error", progress[t], recorded[t]) /\ UNCHANGED client
      BY <1>10 DEF Fail
    <2>2. "error" \in TaskStates /\ progress[t] \in 0 .. Full
      BY <1>10, FullType DEF Fail, TaskStates
    <2>3. /\ \A u \in Takes : u # t => runner'[u] = runner[u]
          /\ "error" \in Terminal \/ runner'[t] # "none" \/ runner[t] = "none"
      BY <1>10 DEF Fail, SetRunner
    <2> QED
      BY <2>1, <2>2, <2>3, UpdateHolds
  <1>11. ASSUME NEW t \in Takes, Report(t) PROVE NoTerminalEventMissed'
    BY <1>11 DEF Report
  <1>12. ASSUME NEW t \in Takes, CheckTask(t) PROVE NoTerminalEventMissed'
    BY <1>12 DEF CheckTask, SetClient, Answer
  <1>13. ASSUME NEW t \in Takes, Subscribe(t) PROVE NoTerminalEventMissed'
    <2> SUFFICES ASSUME NEW u \in Takes, client'[u] = "stream", runner'[u] = "none"
                 PROVE  HoldsTerminal(queue'[u])
      BY DEF HoldsTerminal
    <2>1. CASE u # t
      BY <1>13, <2>1 DEF Subscribe, SetClient, HoldsTerminal
    <2>2. CASE u = t
      <3>1. state[t] \in Terminal
        BY <1>13, <2>2 DEF Subscribe
      <3>2. Event(state[t], progress[t]).type \in Terminal
        BY <3>1 DEF Event
      <3>3. queue'[t] = <<Event(state[t], progress[t])>>
        BY <1>13 DEF Subscribe, Initial
      <3> QED
        BY <2>2, <3>2, <3>3 DEF HoldsTerminal
    <2> QED
      BY <2>1, <2>2
  <1>14. ASSUME NEW t \in Takes, Receive(t) PROVE NoTerminalEventMissed'
    <2> SUFFICES ASSUME NEW u \in Takes, client'[u] = "stream", runner'[u] = "none"
                 PROVE  HoldsTerminal(queue'[u])
      BY DEF HoldsTerminal
    <2>1. CASE u # t
      BY <1>14, <2>1 DEF Receive, SetClient, HoldsTerminal
    <2>2. CASE u = t
      <3>1. HoldsTerminal(queue[t]) /\ queue[t] # <<>> /\ queue[t] \in Seq(Events)
        BY <1>14, <2>2 DEF Receive, HoldsTerminal
      <3>2. AfterEvent[Head(queue[t]).type] = "stream"
        BY <1>14, <2>2 DEF Receive, SetClient
      <3>3. Head(queue[t]).type \notin Terminal
        BY <3>2 DEF AfterEvent
      <3>4. queue'[t] = Tail(queue[t])
        BY <1>14 DEF Receive
      <3> QED
        BY <2>2, <3>1, <3>3, <3>4, TailHolds
    <2> QED
      BY <2>1, <2>2
  <1>15. ASSUME NEW t \in Takes, Dropped(t) PROVE NoTerminalEventMissed'
    BY <1>15 DEF Dropped, Reconnect, BudgetLeft, SetClient
  <1>16. ASSUME NEW t \in Takes, Silent(t) PROVE NoTerminalEventMissed'
    BY <1>16 DEF Silent, SetClient
  <1>17. ASSUME NEW t \in Takes, OpenTakeFile(t) PROVE NoTerminalEventMissed'
    BY <1>17 DEF OpenTakeFile, SetClient
  <1>18. ASSUME NEW t \in Takes, GetResult(t) PROVE NoTerminalEventMissed'
    BY <1>18 DEF GetResult, SetClient
  <1>19. ASSUME NEW t \in Takes, ReadChunk(t) PROVE NoTerminalEventMissed'
    BY <1>19 DEF ReadChunk, SetClient
  <1>20. ASSUME NEW t \in Takes, FetchFails(t) PROVE NoTerminalEventMissed'
    BY <1>20 DEF FetchFails, DiscardTake, SetClient
  <1>21. ASSUME NEW t \in Takes, Release(t) PROVE NoTerminalEventMissed'
    BY <1>21 DEF Release, SetClient, DiskError
  <1>22. ASSUME NEW t \in Takes, NetworkDrop(t) PROVE NoTerminalEventMissed'
    <2>1. /\ UNCHANGED runner /\ client'[t] \in {"connect", "failed"}
          /\ \A u \in Takes : u # t => client'[u] = client[u] /\ queue'[u] = queue[u]
      <3>1. CASE Reconnect(t)
        BY <1>22, <3>1 DEF NetworkDrop, Reconnect, SetClient
      <3>2. CASE DiscardTake(t) /\ UNCHANGED streamVars
        BY <1>22, <3>2 DEF NetworkDrop, DiscardTake, SetClient
      <3> QED
        BY <1>22, <3>1, <3>2 DEF NetworkDrop
    <2> QED
      BY <2>1
  <1>23. ASSUME NEW t \in Takes, Expire(t) PROVE NoTerminalEventMissed'
    BY <1>23 DEF Expire
  <1>24. ASSUME NEW t \in Takes, Sweep(t) PROVE NoTerminalEventMissed'
    BY <1>24 DEF Sweep, KeepRecord, DiskError
  <1>25. CASE Crash
    BY <1>25 DEF Crash
  <1>26. CASE Restart
    BY <1>26 DEF Restart
  <1>27. CASE UNCHANGED vars
    BY <1>27 DEF vars
  <1> QED
    BY <1>1, <1>2, <1>3, <1>4, <1>5, <1>6, <1>7, <1>8, <1>9, <1>10, <1>11, <1>12, <1>13, <1>14,
       <1>15, <1>16, <1>17, <1>18, <1>19, <1>20, <1>21, <1>22, <1>23, <1>24, <1>25, <1>26, <1>27
    DEF Next, RunnerStep, ClientStep
-----------------------------------------------------------------------------
\* An event is appended to a stream that is not at its end.
LEMMA AppendOrderly ==
    ASSUME NEW q \in Seq(Events), NEW n \in Nat, NEW e \in Events, Orderly(q, n),
           ~HoldsTerminal(q), n <= e.progress
    PROVE  /\ Orderly(Append(q, e), e.progress)
           /\ HoldsTerminal(Append(q, e)) => e.type \in Terminal
  <1> DEFINE r == Append(q, e)
  <1>1. /\ DOMAIN r = 1 .. Len(q) + 1
        /\ \A i \in 1 .. Len(q) : r[i] = q[i]
        /\ r[Len(q) + 1] = e
        /\ DOMAIN q = 1 .. Len(q) /\ Len(q) \in Nat
    OBVIOUS
  <1>2. \A i \in 1 .. Len(q) : q[i] \in Events /\ q[i].type = "progress" /\ q[i].progress <= n
    <2>1. \A i \in 1 .. Len(q) : q[i] \in Events /\ q[i].type \notin Terminal /\ q[i].progress <= n
      BY <1>1 DEF Orderly, HoldsTerminal
    <2>2. \A d \in Events : d.type \notin Terminal => d.type = "progress"
      BY DEF Events, Terminal
    <2> QED
      BY <2>1, <2>2
  <1>3. \A d \in Events : d.progress \in Nat
    BY FullType DEF Events
  <1>4. \A i \in DOMAIN r : i \in 1 .. Len(q) \/ i = Len(q) + 1
    BY <1>1
  <1>5. \A i \in 1 .. Len(q) : r[i].type = "progress" /\ r[i].progress <= e.progress
    <2> SUFFICES ASSUME NEW i \in 1 .. Len(q)
                 PROVE  r[i].type = "progress" /\ r[i].progress <= e.progress
      OBVIOUS
    <2>1. r[i] = q[i] /\ q[i].progress \in Nat /\ e.progress \in Nat
      BY <1>1, <1>2, <1>3
    <2> HIDE DEF r
    <2> QED
      BY <1>2, <2>1
  <1>6. ASSUME NEW i \in DOMAIN r, NEW j \in DOMAIN r, i < j
        PROVE  r[i].type = "progress" /\ r[i].progress <= r[j].progress
    <2>1. i \in 1 .. Len(q)
      BY <1>1, <1>6
    <2>2. CASE j = Len(q) + 1
      <3> HIDE DEF r
      <3> QED
        BY <1>1, <1>5, <2>1, <2>2
    <2>3. CASE j \in 1 .. Len(q)
      <3>1. r[i] = q[i] /\ r[j] = q[j] /\ i \in DOMAIN q /\ j \in DOMAIN q
        BY <1>1, <2>1, <2>3
      <3> HIDE DEF r
      <3> QED
        BY <1>6, <3>1 DEF Orderly
    <2> QED
      BY <1>4, <2>2, <2>3
  <1>7. \A i \in DOMAIN r : r[i].progress <= e.progress
    <2> HIDE DEF r
    <2> QED
      BY <1>1, <1>3, <1>4, <1>5
  <1>8. HoldsTerminal(r) => e.type \in Terminal
    <2> HIDE DEF r
    <2>1. ASSUME NEW i \in DOMAIN r, r[i].type \in Terminal PROVE e.type \in Terminal
      BY <1>1, <1>4, <1>5, <2>1 DEF Terminal
    <2> QED
      BY <2>1 DEF HoldsTerminal
  <1> QED
    BY <1>6, <1>7, <1>8 DEF Orderly

\* An event is taken off.
LEMMA TailOrderly ==
    ASSUME NEW q \in Seq(Events), q # <<>>, NEW n, Orderly(q, n)
    PROVE  Orderly(Tail(q), n) /\ (HoldsTerminal(Tail(q)) => HoldsTerminal(q))
  <1> DEFINE r == Tail(q)
  <1>1. /\ DOMAIN r = 1 .. Len(q) - 1 /\ \A j \in 1 .. Len(q) - 1 : r[j] = q[j + 1]
        /\ DOMAIN q = 1 .. Len(q) /\ Len(q) \in Nat
    OBVIOUS
  <1> HIDE DEF r
  <1>2. \A j \in DOMAIN r : j + 1 \in DOMAIN q /\ r[j] = q[j + 1]
    BY <1>1
  <1>3. \A i \in DOMAIN r : r[i].progress <= n
    BY <1>2 DEF Orderly
  <1>4. ASSUME NEW i \in DOMAIN r, NEW j \in DOMAIN r, i < j
        PROVE  r[i].type = "progress" /\ r[i].progress <= r[j].progress
    <2>1. i + 1 < j + 1
      BY <1>1, <1>4
    <2> QED
      BY <1>2, <2>1 DEF Orderly
  <1>5. HoldsTerminal(r) => HoldsTerminal(q)
    BY <1>2 DEF HoldsTerminal
  <1>6. Orderly(r, n)
    BY <1>3, <1>4 DEF Orderly
  <1> QED
    BY <1>5, <1>6 DEF r

\* A stream without events, or with one.
LEMMA ShortOrderly ==
    ASSUME NEW n \in Nat
    PROVE  /\ Orderly(<<>>, n) /\ ~HoldsTerminal(<<>>)
           /\ \A e \in Events : e.progress = n => Orderly(<<e>>, n)
  <1>1. Orderly(<<>>, n) /\ ~HoldsTerminal(<<>>)
    BY DEF Orderly, HoldsTerminal
  <1>2. ASSUME NEW e \in Events, e.progress = n PROVE Orderly(<<e>>, n)
    BY <1>2 DEF Orderly
  <1> QED
    BY <1>1, <1>2

\* An update of a record that has not ended, with progress that does not fall.
LEMMA UpdateOrderly ==
    ASSUME TypeOK, StreamInv, NEW t \in Takes, NEW s \in TaskStates, NEW p \in 0 .. Full, NEW f,
           Update(t, s, p, f), state[t] \in {"pending", "running"}, progress[t] <= p
    PROVE  StreamInv'
  <1> SUFFICES ASSUME NEW u \in Takes
               PROVE  /\ Orderly(queue'[u], progress'[u])
                      /\ HoldsTerminal(queue'[u]) => state'[u] \in Terminal \cup {"absent"}
    BY DEF StreamInv
  <1>1. CASE u # t
    <2>1. queue'[u] = queue[u] /\ progress'[u] = progress[u] /\ state'[u] = state[u]
      BY <1>1 DEF TypeOK, Update
    <2> QED
      BY <2>1 DEF StreamInv
  <1>2. CASE u = t
    <2>1. /\ progress'[t] = p /\ state'[t] = s
          /\ queue'[t] = queue[t] \/ queue'[t] = Append(queue[t], Event(s, p))
      BY DEF TypeOK, Update
    <2>2. /\ Orderly(queue[t], progress[t]) /\ ~HoldsTerminal(queue[t])
          /\ queue[t] \in Seq(Events) /\ progress[t] \in Nat /\ p \in Nat
      <3>1. queue[t] \in Seq(Events) /\ progress[t] \in 0 .. Full
        BY DEF TypeOK
      <3>2. progress[t] \in Nat /\ p \in Nat
        BY <3>1, FullType
      <3>3. Orderly(queue[t], progress[t]) /\ ~HoldsTerminal(queue[t])
        BY DEF StreamInv, Terminal
      <3> QED
        BY <3>1, <3>2, <3>3
    <2>3. Event(s, p) \in Events /\ Event(s, p).progress = p
      BY EventType DEF Event
    <2>4. Event(s, p).type \in Terminal => s \in Terminal
      BY DEF Event, Terminal
    <2>5. CASE queue'[t] = Append(queue[t], Event(s, p))
      BY <1>2, <2>1, <2>2, <2>3, <2>4, <2>5, AppendOrderly
    <2>6. CASE queue'[t] = queue[t]
      <3>1. \A i \in DOMAIN queue[t] : queue[t][i].progress \in Nat
        <4>1. \A e \in Events : e.progress \in Nat
          BY FullType DEF Events
        <4>2. \A i \in DOMAIN queue[t] : queue[t][i] \in Events
          BY <2>2
        <4> QED
          BY <4>1, <4>2
      <3>2. Orderly(queue[t], p)
        BY <2>2, <3>1 DEF Orderly
      <3> QED
        BY <1>2, <2>1, <2>2, <2>6, <3>2
    <2> QED
      BY <2>1, <2>5, <2>6
  <1> QED
    BY <1>1, <1>2

\* A step that leaves every stream as it was, or empties it or takes its first event
\* off, and ends no record but by dropping it.
LEMMA ReadOrderly ==
    ASSUME TypeOK, StreamInv, UNCHANGED progress,
           \A u \in Takes : \/ queue'[u] \in {queue[u], <<>>}
                            \/ queue[u] # <<>> /\ queue'[u] = Tail(queue[u]),
           \A u \in Takes : state'[u] \in {state[u], "absent"} \/ queue'[u] = <<>>
    PROVE  StreamInv'
  <1> SUFFICES ASSUME NEW u \in Takes
               PROVE  /\ Orderly(queue'[u], progress[u])
                      /\ HoldsTerminal(queue'[u]) => state'[u] \in Terminal \cup {"absent"}
    BY DEF StreamInv
  <1>1. /\ queue[u] \in Seq(Events) /\ progress[u] \in Nat /\ Orderly(queue[u], progress[u])
        /\ HoldsTerminal(queue[u]) => state[u] \in Terminal \cup {"absent"}
    BY FullType DEF TypeOK, StreamInv
  <1>2. CASE queue'[u] = <<>>
    BY <1>1, <1>2, ShortOrderly
  <1>3. CASE queue'[u] = queue[u] /\ queue'[u] # <<>>
    BY <1>1, <1>3
  <1>4. CASE queue[u] # <<>> /\ queue'[u] = Tail(queue[u]) /\ queue'[u] # <<>>
    BY <1>1, <1>4, TailOrderly
  <1> QED
    BY <1>2, <1>3, <1>4

\* A record ends with its runner, when every report is written (default_generate_runner).
LEMMA NextRecordInv == TypeOK /\ RecordInv /\ [Next]_vars => RecordInv'
  <1> SUFFICES ASSUME TypeOK /\ RecordInv, [Next]_vars PROVE RecordInv'
    OBVIOUS
  <1> USE TakeDeliveryAssumption
  <1> USE DEF TypeOK, RecordInv, Terminal, Following, Fetching, Ended,
              recordVars, runVars, streamVars, copyVars, boundVars
  <1>1. ASSUME NEW t \in Takes, Submit(t) PROVE RecordInv'
    BY <1>1 DEF Submit, SetRunner, SetClient
  <1>2. ASSUME NEW t \in Takes, SubmitFails(t) PROVE RecordInv'
    BY <1>2 DEF SubmitFails, SetClient
  <1>3. ASSUME NEW t \in Takes, Cancel(t) PROVE RecordInv'
    BY <1>3 DEF Cancel, CancelTake, DiscardTake, SetClient
  <1>4. ASSUME NEW t \in Takes, MarkRunning(t) PROVE RecordInv'
    BY <1>4 DEF MarkRunning, Update, SetRunner
  <1>5. ASSUME NEW t \in Takes, WriteProgress(t) PROVE RecordInv'
    <2>1. /\ state' = state /\ UNCHANGED <<expired, runner, reported, client>>
          /\ state[t] # "absent" /\ written[t] < reported[t]
          /\ written'[t] = written[t] + 1 /\ progress'[t] = written[t] + 1
      BY <1>5 DEF WriteProgress, Update
    <2>2. \A u \in Takes : u # t => /\ written'[u] = written[u] /\ progress'[u] = progress[u]
                                   /\ queue'[u] = queue[u]
      BY <1>5 DEF WriteProgress, Update
    <2>3. written[t] # reported[t]
      <3>1. written[t] \in 0 .. MaxReports /\ reported[t] \in 0 .. MaxReports
        OBVIOUS
      <3> QED
        BY <2>1, <3>1
    <2>4. /\ client[t] # "idle" /\ state[t] \notin Terminal
          /\ runner[t] \notin {"write", "complete", "fail"}
      BY <2>1, <2>3
    <2> QED
      BY <2>1, <2>2, <2>4
  <1>6. ASSUME NEW t \in Takes, RenderEnds(t) PROVE RecordInv'
    BY <1>6 DEF RenderEnds, SetRunner
  <1>7. ASSUME NEW t \in Takes, Gather(t) PROVE RecordInv'
    BY <1>7 DEF Gather, AllWritten, SetRunner
  <1>8. ASSUME NEW t \in Takes, WriteFile(t) PROVE RecordInv'
    BY <1>8 DEF WriteFile, SetRunner, DiskError
  <1>9. ASSUME NEW t \in Takes, Complete(t) PROVE RecordInv'
    BY <1>9, FullType DEF Complete, Update, SetRunner
  <1>10. ASSUME NEW t \in Takes, Fail(t) PROVE RecordInv'
    BY <1>10 DEF Fail, Update, SetRunner
  <1>11. ASSUME NEW t \in Takes, Report(t) PROVE RecordInv'
    BY <1>11 DEF Report
  <1>12. ASSUME NEW t \in Takes, CheckTask(t) PROVE RecordInv'
    BY <1>12 DEF CheckTask, SetClient, Answer
  <1>13. ASSUME NEW t \in Takes, Subscribe(t) PROVE RecordInv'
    BY <1>13 DEF Subscribe, SetClient, Initial
  <1>14. ASSUME NEW t \in Takes, Receive(t) PROVE RecordInv'
    <2>1. Head(queue[t]).type \in {"progress", "done", "error"}
      <3>1. Head(queue[t]) \in Events
        BY <1>14 DEF Receive
      <3> QED
        BY <3>1 DEF Events
    <2>2. client'[t] \in {"stream", "opening", "failed"}
      BY <1>14, <2>1 DEF Receive, SetClient, AfterEvent
    <2>3. client[t] = "stream" /\ \A u \in Takes : u # t => client'[u] = client[u] /\ queue'[u] = queue[u]
      BY <1>14 DEF Receive, SetClient
    <2>4. UNCHANGED <<state, progress, reported, written, runner, expired>>
      BY <1>14 DEF Receive
    <2> QED
      BY <2>2, <2>3, <2>4
  <1>15. ASSUME NEW t \in Takes, Dropped(t) PROVE RecordInv'
    BY <1>15 DEF Dropped, Reconnect, BudgetLeft, SetClient
  <1>16. ASSUME NEW t \in Takes, Silent(t) PROVE RecordInv'
    BY <1>16 DEF Silent, SetClient
  <1>17. ASSUME NEW t \in Takes, OpenTakeFile(t) PROVE RecordInv'
    BY <1>17 DEF OpenTakeFile, SetClient
  <1>18. ASSUME NEW t \in Takes, GetResult(t) PROVE RecordInv'
    BY <1>18 DEF GetResult, SetClient
  <1>19. ASSUME NEW t \in Takes, ReadChunk(t) PROVE RecordInv'
    BY <1>19 DEF ReadChunk, SetClient
  <1>20. ASSUME NEW t \in Takes, FetchFails(t) PROVE RecordInv'
    BY <1>20 DEF FetchFails, DiscardTake, SetClient
  <1>21. ASSUME NEW t \in Takes, Release(t) PROVE RecordInv'
    BY <1>21 DEF Release, SetClient, DiskError
  <1>22. ASSUME NEW t \in Takes, NetworkDrop(t) PROVE RecordInv'
    BY <1>22 DEF NetworkDrop, Reconnect, BudgetLeft, DiscardTake, SetClient
  <1>23. ASSUME NEW t \in Takes, Expire(t) PROVE RecordInv'
    BY <1>23 DEF Expire
  <1>24. ASSUME NEW t \in Takes, Sweep(t) PROVE RecordInv'
    BY <1>24 DEF Sweep, KeepRecord, DiskError
  <1>25. CASE Crash
    BY <1>25 DEF Crash
  <1>26. CASE Restart
    BY <1>26 DEF Restart
  <1>27. CASE UNCHANGED vars
    BY <1>27 DEF vars
  <1> QED
    BY <1>1, <1>2, <1>3, <1>4, <1>5, <1>6, <1>7, <1>8, <1>9, <1>10, <1>11, <1>12, <1>13,
       <1>14, <1>15, <1>16, <1>17, <1>18, <1>19, <1>20, <1>21, <1>22, <1>23, <1>24, <1>25,
       <1>26, <1>27
    DEF Next, RunnerStep, ClientStep

\* Every step keeps the streams in order.
LEMMA NextStreamInv == TypeOK /\ RecordInv /\ StreamInv /\ [Next]_vars => StreamInv'
  <1> SUFFICES ASSUME TypeOK, RecordInv, StreamInv, [Next]_vars PROVE StreamInv'
    OBVIOUS
  <1> DEFINE Reads ==
               /\ UNCHANGED progress
               /\ \A u \in Takes : \/ queue'[u] \in {queue[u], <<>>}
                                   \/ queue[u] # <<>> /\ queue'[u] = Tail(queue[u])
               /\ \A u \in Takes : state'[u] \in {state[u], "absent"} \/ queue'[u] = <<>>
  <1> USE DEF recordVars, runVars, streamVars, copyVars, boundVars
  <1>1. ASSUME NEW t \in Takes, MarkRunning(t) PROVE StreamInv'
    <2>1. Update(t, "running", progress[t], recorded[t]) /\ runner[t] # "none"
      BY <1>1 DEF MarkRunning
    <2>2. /\ "running" \in TaskStates /\ progress[t] \in 0 .. Full /\ progress[t] <= progress[t]
          /\ state[t] \in {"pending", "running"}
      BY <2>1, FullType DEF TypeOK, RecordInv, TaskStates, Terminal
    <2> QED
      BY <2>1, <2>2, UpdateOrderly
  <1>2. ASSUME NEW t \in Takes, WriteProgress(t) PROVE StreamInv'
    <2>1. /\ Update(t, state[t], written[t] + 1, recorded[t]) /\ state[t] # "absent"
          /\ written[t] < reported[t]
      BY <1>2 DEF WriteProgress, TypeOK
    <2>2. written[t] \in 0 .. MaxReports /\ reported[t] \in 0 .. MaxReports /\ MaxReports \in Nat
      BY TakeDeliveryAssumption DEF TypeOK
    <2>3. written[t] # reported[t] /\ written[t] + 1 \in 0 .. Full
      BY <2>1, <2>2 DEF Full
    <2>4. state[t] \in {"pending", "running"} /\ state[t] \in TaskStates
      BY <2>1, <2>3 DEF TypeOK, RecordInv, TaskStates, Terminal
    <2>5. progress[t] <= written[t] + 1
      BY <2>2, <2>4 DEF RecordInv
    <2> QED
      BY <2>1, <2>3, <2>4, <2>5, UpdateOrderly
  <1>3. ASSUME NEW t \in Takes, Complete(t) PROVE StreamInv'
    <2>1. Update(t, "done", Full, TRUE) /\ runner[t] # "none"
      BY <1>3 DEF Complete
    <2>2. progress[t] \in 0 .. Full /\ "done" \in TaskStates /\ Full \in 0 .. Full
      BY FullType DEF TypeOK, TaskStates, Terminal
    <2>3. progress[t] <= Full /\ state[t] \in {"pending", "running"}
      BY <2>1, <2>2 DEF TypeOK, RecordInv, Terminal
    <2> QED
      BY <2>1, <2>2, <2>3, UpdateOrderly
  <1>4. ASSUME NEW t \in Takes, Fail(t) PROVE StreamInv'
    <2>1. Update(t, "error", progress[t], recorded[t]) /\ runner[t] # "none"
      BY <1>4 DEF Fail
    <2>2. /\ "error" \in TaskStates /\ progress[t] \in 0 .. Full /\ progress[t] <= progress[t]
          /\ state[t] \in {"pending", "running"}
      BY <2>1, FullType DEF TypeOK, RecordInv, TaskStates, Terminal
    <2> QED
      BY <2>1, <2>2, UpdateOrderly
  <1>5. ASSUME NEW t \in Takes, Submit(t) PROVE StreamInv'
    <2>1. queue[t] = <<>> /\ \A u \in Takes : queue'[u] = queue[u] /\ progress'[u] = progress[u]
      BY <1>5 DEF Submit, RecordInv
    <2>2. \A u \in Takes : u # t => state'[u] = state[u]
      BY <1>5 DEF Submit, TypeOK
    <2> QED
      BY <2>1, <2>2 DEF StreamInv, HoldsTerminal
  <1>6. ASSUME NEW t \in Takes, Subscribe(t) PROVE StreamInv'
    <2> SUFFICES ASSUME NEW u \in Takes
                 PROVE  /\ Orderly(queue'[u], progress[u])
                        /\ HoldsTerminal(queue'[u]) => state[u] \in Terminal \cup {"absent"}
      BY <1>6 DEF StreamInv, Subscribe
    <2>1. CASE u # t
      BY <1>6, <2>1 DEF Subscribe, StreamInv, TypeOK
    <2>2. CASE u = t
      <3>1. queue'[t] = <<Event(state[t], progress[t])>>
        BY <1>6 DEF Subscribe, Initial, TypeOK
      <3>2. /\ Event(state[t], progress[t]) \in Events
            /\ Event(state[t], progress[t]).progress = progress[t] /\ progress[t] \in Nat
        <4>1. state[t] \in TaskStates /\ progress[t] \in 0 .. Full
          BY DEF TypeOK, TaskStates
        <4>2. Event(state[t], progress[t]) \in Events
          BY <4>1, EventType
        <4> QED
          BY <4>1, <4>2, FullType DEF Event
      <3>3. Event(state[t], progress[t]).type \in Terminal => state[t] \in Terminal
        BY DEF Event, Terminal
      <3>4. HoldsTerminal(queue'[t]) => Event(state[t], progress[t]).type \in Terminal
        BY <3>1 DEF HoldsTerminal
      <3> QED
        BY <2>2, <3>1, <3>2, <3>3, <3>4, ShortOrderly
    <2> QED
      BY <2>1, <2>2
  <1>7. ASSUME NEW t \in Takes, SubmitFails(t) PROVE Reads
    BY <1>7 DEF SubmitFails, TypeOK
  <1>8. ASSUME NEW t \in Takes, Cancel(t) PROVE Reads
    BY <1>8 DEF Cancel, TypeOK
  <1>9. ASSUME NEW t \in Takes, RenderEnds(t) PROVE Reads
    BY <1>9 DEF RenderEnds, TypeOK
  <1>10. ASSUME NEW t \in Takes, Gather(t) PROVE Reads
    BY <1>10 DEF Gather, TypeOK
  <1>11. ASSUME NEW t \in Takes, WriteFile(t) PROVE Reads
    BY <1>11 DEF WriteFile, TypeOK
  <1>12. ASSUME NEW t \in Takes, Report(t) PROVE Reads
    BY <1>12 DEF Report, TypeOK
  <1>13. ASSUME NEW t \in Takes, CheckTask(t) PROVE Reads
    BY <1>13 DEF CheckTask, TypeOK
  <1>14. ASSUME NEW t \in Takes, Receive(t) PROVE Reads
    BY <1>14 DEF Receive, TypeOK
  <1>15. ASSUME NEW t \in Takes, Dropped(t) PROVE Reads
    BY <1>15 DEF Dropped, Reconnect, TypeOK
  <1>16. ASSUME NEW t \in Takes, Silent(t) PROVE Reads
    BY <1>16 DEF Silent, TypeOK
  <1>17. ASSUME NEW t \in Takes, OpenTakeFile(t) PROVE Reads
    BY <1>17 DEF OpenTakeFile, TypeOK
  <1>18. ASSUME NEW t \in Takes, GetResult(t) PROVE Reads
    BY <1>18 DEF GetResult, TypeOK
  <1>19. ASSUME NEW t \in Takes, ReadChunk(t) PROVE Reads
    BY <1>19 DEF ReadChunk, TypeOK
  <1>20. ASSUME NEW t \in Takes, FetchFails(t) PROVE Reads
    BY <1>20 DEF FetchFails, TypeOK
  <1>21. ASSUME NEW t \in Takes, Release(t) PROVE Reads
    BY <1>21 DEF Release, TypeOK
  <1>22. ASSUME NEW t \in Takes, NetworkDrop(t) PROVE Reads
    BY <1>22 DEF NetworkDrop, Reconnect, TypeOK
  <1>23. ASSUME NEW t \in Takes, Expire(t) PROVE Reads
    BY <1>23 DEF Expire, TypeOK
  <1>24. ASSUME NEW t \in Takes, Sweep(t) PROVE Reads
    BY <1>24 DEF Sweep, KeepRecord, TypeOK
  <1>25. ASSUME Crash \/ Restart \/ UNCHANGED vars PROVE Reads
    BY <1>25 DEF Crash, Restart, vars, TypeOK
  <1>26. Reads => StreamInv'
    BY ReadOrderly
  <1> QED
    BY <1>1, <1>2, <1>3, <1>4, <1>5, <1>6, <1>7, <1>8, <1>9, <1>10, <1>11, <1>12, <1>13,
       <1>14, <1>15, <1>16, <1>17, <1>18, <1>19, <1>20, <1>21, <1>22, <1>23, <1>24, <1>25,
       <1>26
    DEF Next, RunnerStep, ClientStep
-----------------------------------------------------------------------------
\* The initial states satisfy the invariant.
LEMMA InitIInv == Init => IInv
  <1> SUFFICES ASSUME Init PROVE IInv
    OBVIOUS
  <1>1. TypeOK
    BY TakeDeliveryAssumption, FullType DEF Init, TypeOK
  <1>2. FileInv /\ RunnerInv /\ NoTerminalEventMissed
    BY DEF Init, FileInv, HasFile, RunnerInv, NoTerminalEventMissed
  <1>3. RecordInv /\ StreamInv
    BY DEF Init, RecordInv, StreamInv, Orderly, HoldsTerminal, Terminal
  <1> QED
    BY <1>1, <1>2, <1>3 DEF IInv

\* The invariant is inductive.
LEMMA Inductive == Spec => []IInv
  <1>1. IInv /\ [Next]_vars => IInv'
    BY NextTypeOK, NextFileInv, NextRunnerInv, NextNoTerminalEventMissed, NextRecordInv,
       NextStreamInv DEF IInv
  <1> QED
    BY InitIInv, <1>1, PTL DEF Spec

\* Types, for every number of takes, reports, chunks, drops, crashes and disk
\* errors (TaskStore, dispatch_generation_on_worker).
THEOREM TypeCorrect == Spec => []TypeOK
  <1>1. IInv => TypeOK
    BY DEF IInv
  <1> QED
    BY Inductive, <1>1, PTL

\* A fetched take is whole, whatever happened to the result file while it was
\* read (_fetch_generation_result).
THEOREM FetchedIsWhole == Spec => []TakeArrivesWhole
  <1>1. IInv => TakeArrivesWhole
    BY DEF IInv, FileInv, HasFile, TakeArrivesWhole
  <1> QED
    BY Inductive, <1>1, PTL

\* A dispatch that failed or was cancelled, at whichever await, has left no take
\* file on the music worker (_fetch_generation_result, acquire_in_thread).
THEOREM FailureLeavesNothing == Spec => []NoFileLeftBehind
  <1>1. IInv => NoFileLeftBehind
    BY DEF IInv, FileInv, HasFile, NoFileLeftBehind
  <1> QED
    BY Inductive, <1>1, PTL

\* A stream that is open when its task has ended still holds the terminal event,
\* in whatever order the subscription, the updates and the sweep came
\* (TaskStore.subscribe, TaskStore._update, TaskStore.cleanup_terminal).
THEOREM TerminalEventArrives == Spec => []NoTerminalEventMissed
  <1>1. IInv => NoTerminalEventMissed
    BY DEF IInv
  <1> QED
    BY Inductive, <1>1, PTL

\* A stream says nothing after the end of its task, and its progress never goes
\* back, although the rendering thread's reports are only scheduled
\* (default_generate_runner's gather, TaskStore._update).
THEOREM LastWordIsLast == Spec => []TerminalEventIsLast
  <1>1. IInv => TerminalEventIsLast
    BY DEF IInv, StreamInv, Orderly, TerminalEventIsLast
  <1> QED
    BY Inductive, <1>1, PTL

\* Nothing is in a take file that was not yet created.
EmptyInv ==
    \A t \in Takes : client[t] \notin HasFile \cup {"failed"} => got[t] = 0

\* A step that neither ends a dispatch nor touches its take file.
LEMMA TakesRest ==
    ASSUME EmptyInv, UNCHANGED copyVars,
           \A t \in Takes : /\ \A e \in Ended : client'[t] = e <=> client[t] = e
                            /\ client[t] \in HasFile => client'[t] \in HasFile
    PROVE  UNCHANGED Promise!promise /\ EmptyInv'
  <1>1. Outcome' = Outcome
    BY DEF Outcome, Ended
  <1>2. Copy' = Copy
    BY DEF Copy, copyVars
  <1>3. EmptyInv'
    BY DEF EmptyInv, copyVars, Ended, HasFile
  <1> QED
    BY <1>1, <1>2, <1>3 DEF Promise!promise

\* A failure removes what there is of the take ...
LEMMA GivesUp ==
    ASSUME TypeOK, EmptyInv, NEW t \in Takes, client[t] \notin Ended, DiscardTake(t),
           UNCHANGED got
    PROVE  Promise!GiveUp(t) /\ EmptyInv'
  <1> USE DEF TypeOK, DiscardTake, SetClient, Ended
  <1>1. Outcome[t] = "open"
    BY DEF Outcome
  <1>2. Outcome' = [Outcome EXCEPT ![t] = "nothing"]
    BY DEF Outcome
  <1>3. Copy' = [Copy EXCEPT ![t] = "none"]
    BY DEF Copy
  <1>4. EmptyInv'
    BY DEF EmptyInv
  <1> QED
    BY <1>1, <1>2, <1>3, <1>4 DEF Promise!GiveUp

\* ... or finds none.
LEMMA GivesUpWithout ==
    ASSUME TypeOK, FileInv, EmptyInv, NEW t \in Takes, client[t] \notin HasFile \cup Ended,
           SetClient(t, "failed"), UNCHANGED copyVars
    PROVE  Promise!GiveUp(t) /\ EmptyInv'
  <1>1. local' = [local EXCEPT ![t] = FALSE]
    BY DEF TypeOK, FileInv, copyVars
  <1> QED
    BY <1>1, GivesUp DEF DiscardTake, copyVars

\* Every step of a dispatch is a step of the promise, or invisible to it.
LEMMA PromiseStep ==
    ASSUME TypeOK, FileInv, EmptyInv, [Next]_vars
    PROVE  [Promise!Next]_(Promise!promise) /\ EmptyInv'
  <1> DEFINE Goal == [Promise!Next]_(Promise!promise) /\ EmptyInv'
  <1> USE TakeDeliveryAssumption
  <1> USE DEF TypeOK, Following, Fetching
  <1>0. ASSUME NEW t \in Takes, Promise!Grow(t) \/ Promise!Bring(t) \/ Promise!GiveUp(t)
        PROVE  [Promise!Next]_(Promise!promise)
    BY <1>0 DEF Promise!Next
  <1>1. ASSUME UNCHANGED <<client, copyVars>> PROVE Goal
    BY <1>1, TakesRest
  <1>2. ASSUME NEW t \in Takes, NEW c, SetClient(t, c), UNCHANGED copyVars,
               client[t] \notin Ended, c \notin Ended, client[t] \in HasFile => c \in HasFile
        PROVE  Goal
    <2>1. \A u \in Takes : /\ \A e \in Ended : client'[u] = e <=> client[u] = e
                           /\ client[u] \in HasFile => client'[u] \in HasFile
      BY <1>2 DEF SetClient, Ended
    <2> QED
      BY <1>2, <2>1, TakesRest
  <1>3. ASSUME NEW t \in Takes, DiscardTake(t), UNCHANGED got, client[t] \notin Ended
        PROVE  Goal
    BY <1>0, <1>3, GivesUp
  <1>4. ASSUME NEW t \in Takes, SetClient(t, "failed"), UNCHANGED copyVars,
               client[t] \notin HasFile \cup Ended
        PROVE  Goal
    BY <1>0, <1>4, GivesUpWithout
  <1>5. ASSUME NEW t \in Takes, RunnerStep(t) \/ Report(t) \/ Expire(t) \/ Sweep(t) PROVE Goal
    <2>1. UNCHANGED <<client, copyVars>>
      BY <1>5 DEF RunnerStep, MarkRunning, WriteProgress, RenderEnds, Gather, WriteFile,
                  Complete, Fail, Report, Expire, Sweep, Update
    <2> QED
      BY <1>1, <2>1
  <1>6. ASSUME NEW t \in Takes, Submit(t) PROVE Goal
    <2>1. CASE SetClient(t, "connect")
      BY <1>2, <1>6, <2>1 DEF Submit, Ended, HasFile
    <2>2. CASE SetClient(t, "failed")
      BY <1>4, <1>6, <2>2 DEF Submit, Ended, HasFile
    <2> QED
      BY <1>6, <2>1, <2>2 DEF Submit
  <1>7. ASSUME NEW t \in Takes, SubmitFails(t) PROVE Goal
    BY <1>4, <1>7 DEF SubmitFails, Ended, HasFile
  <1>8. ASSUME NEW t \in Takes, Cancel(t) PROVE Goal
    <2>1. CASE client[t] = "opening" /\ SetClient(t, "discarding") /\ UNCHANGED local
      BY <1>2, <1>8, <2>1 DEF Cancel, Ended, HasFile, copyVars
    <2>2. CASE client[t] \in Following \cup Fetching /\ DiscardTake(t)
      BY <1>3, <1>8, <2>2 DEF Cancel, Ended
    <2> QED
      BY <1>8, <2>1, <2>2 DEF Cancel, CancelTake
  <1>9. ASSUME NEW t \in Takes, CheckTask(t) PROVE Goal
    <2>1. CASE Answer(t) = "checked"
      BY <1>2, <1>9, <2>1 DEF CheckTask, Ended, HasFile
    <2>2. CASE Answer(t) = "failed"
      BY <1>4, <1>9, <2>2 DEF CheckTask, Ended, HasFile
    <2> QED
      BY <2>1, <2>2 DEF Answer
  <1>10. ASSUME NEW t \in Takes, Subscribe(t) \/ GetResult(t) PROVE Goal
    <2>1. CASE Subscribe(t)
      BY <1>2, <2>1 DEF Subscribe, Ended, HasFile
    <2>2. CASE GetResult(t)
      BY <1>2, <2>2 DEF GetResult, Ended, HasFile
    <2> QED
      BY <1>10, <2>1, <2>2
  <1>11. ASSUME NEW t \in Takes, Receive(t) PROVE Goal
    <2>1. Head(queue[t]) \in Events
      BY <1>11 DEF Receive
    <2>2. PICK c \in {"stream", "opening", "failed"} : SetClient(t, c)
      BY <1>11, <2>1 DEF Receive, Events, AfterEvent
    <2>3. client[t] \notin HasFile \cup Ended /\ UNCHANGED copyVars
      BY <1>11 DEF Receive, HasFile, Ended
    <2>4. CASE c = "failed"
      BY <1>4, <2>2, <2>3, <2>4
    <2>5. CASE c # "failed"
      BY <1>2, <2>2, <2>3, <2>5 DEF Ended
    <2> QED
      BY <2>4, <2>5
  <1>12. ASSUME NEW t \in Takes, client[t] \in Following, Reconnect(t), UNCHANGED copyVars
         PROVE  Goal
    <2>1. client[t] \notin HasFile \cup Ended
      BY <1>12 DEF HasFile, Ended
    <2>2. CASE SetClient(t, "connect")
      BY <1>2, <1>12, <2>1, <2>2 DEF Ended
    <2>3. CASE SetClient(t, "failed")
      BY <1>4, <1>12, <2>1, <2>3
    <2> QED
      BY <1>12, <2>2, <2>3 DEF Reconnect
  <1>13. ASSUME NEW t \in Takes, Dropped(t) PROVE Goal
    BY <1>12, <1>13 DEF Dropped
  <1>14. ASSUME NEW t \in Takes, Silent(t) PROVE Goal
    BY <1>4, <1>14 DEF Silent, Ended, HasFile
  <1>15. ASSUME NEW t \in Takes, OpenTakeFile(t) PROVE Goal
    <2>1. CASE client[t] = "discarding"
      BY <1>4, <1>15, <2>1 DEF OpenTakeFile, Ended, HasFile, copyVars
    <2>2. CASE client[t] # "discarding"
      <3>1. /\ client[t] = "opening"
            /\ client' = [client EXCEPT ![t] = "get"]
            /\ local' = [local EXCEPT ![t] = TRUE]
            /\ UNCHANGED got
        BY <1>15, <2>2 DEF OpenTakeFile, SetClient
      <3>2. got[t] = 0 /\ ~local[t]
        BY <3>1 DEF EmptyInv, FileInv, HasFile
      <3>3. Outcome[t] = "open" /\ Copy[t] = "none"
        BY <3>1, <3>2 DEF Outcome, Copy
      <3>4. Outcome' = Outcome
        BY <3>1 DEF Outcome
      <3>5. Copy' = [Copy EXCEPT ![t] = "part"]
        BY <3>1, <3>2 DEF Copy
      <3>6. EmptyInv'
        BY <3>1 DEF EmptyInv, HasFile
      <3> QED
        BY <1>0, <3>3, <3>4, <3>5, <3>6 DEF Promise!Grow
    <2> QED
      BY <2>1, <2>2
  <1>16. ASSUME NEW t \in Takes, ReadChunk(t) PROVE Goal
    <2>1. /\ client[t] = "read" /\ got[t] < Chunks
          /\ got' = [got EXCEPT ![t] = @ + 1]
          /\ client' = [client EXCEPT ![t] = IF got[t] + 1 = Chunks THEN "release" ELSE "read"]
          /\ UNCHANGED local
      BY <1>16 DEF ReadChunk, SetClient
    <2>2. local[t] /\ Outcome[t] = "open" /\ Copy[t] = "part"
      BY <2>1 DEF FileInv, HasFile, Outcome, Copy
    <2>3. Outcome' = Outcome
      BY <2>1 DEF Outcome
    <2>4. EmptyInv'
      BY <2>1 DEF EmptyInv, HasFile
    <2>5. CASE got[t] + 1 = Chunks
      <3>1. Copy' = [Copy EXCEPT ![t] = "whole"]
        BY <2>1, <2>2, <2>5 DEF Copy
      <3> QED
        BY <1>0, <2>2, <2>3, <2>4, <3>1 DEF Promise!Grow
    <2>6. CASE got[t] + 1 # Chunks
      <3>1. Copy' = Copy
        BY <2>1, <2>2, <2>6 DEF Copy
      <3> QED
        BY <2>3, <2>4, <3>1 DEF Promise!promise
    <2> QED
      BY <2>5, <2>6
  <1>17. ASSUME NEW t \in Takes, FetchFails(t) PROVE Goal
    BY <1>3, <1>17 DEF FetchFails, Ended
  <1>18. ASSUME NEW t \in Takes, Release(t) PROVE Goal
    <2>1. /\ client[t] = "release"
          /\ client' = [client EXCEPT ![t] = "fetched"]
          /\ UNCHANGED <<local, got>>
      BY <1>18 DEF Release, SetClient, copyVars
    <2>2. Outcome[t] = "open" /\ Copy[t] = "whole"
      BY <2>1 DEF FileInv, HasFile, Outcome, Copy
    <2>3. Outcome' = [Outcome EXCEPT ![t] = "take"]
      BY <2>1 DEF Outcome
    <2>4. Copy' = Copy
      BY <2>1 DEF Copy
    <2>5. EmptyInv'
      BY <2>1 DEF EmptyInv, HasFile
    <2> QED
      BY <1>0, <2>2, <2>3, <2>4, <2>5 DEF Promise!Bring
  <1>19. ASSUME NEW t \in Takes, NetworkDrop(t) PROVE Goal
    <2>1. CASE client[t] \in Following /\ Reconnect(t) /\ UNCHANGED local
      BY <1>12, <1>19, <2>1 DEF NetworkDrop, copyVars
    <2>2. CASE client[t] \in {"get", "read"} /\ DiscardTake(t)
      BY <1>3, <1>19, <2>2 DEF NetworkDrop, Ended
    <2> QED
      BY <1>19, <2>1, <2>2 DEF NetworkDrop
  <1>20. CASE Crash
    <2>1. UNCHANGED copyVars
      BY <1>20 DEF Crash
    <2>2. \A u \in Takes : /\ \A e \in Ended : client'[u] = e <=> client[u] = e
                           /\ client[u] \in HasFile => client'[u] \in HasFile
      BY <1>20 DEF Crash, Ended, HasFile
    <2> QED
      BY <2>1, <2>2, TakesRest
  <1>21. CASE Restart
    BY <1>1, <1>21 DEF Restart
  <1>22. CASE UNCHANGED vars
    BY <1>1, <1>22 DEF vars
  <1> QED
    BY <1>5, <1>6, <1>7, <1>8, <1>9, <1>10, <1>11, <1>13, <1>14, <1>15, <1>16, <1>17, <1>18,
       <1>19, <1>20, <1>21, <1>22
    DEF Next, ClientStep

\* The delivery keeps its promise (TakePromise): through dropped streams, late
\* 404s, expiry, crashes, failed removals and cancels a dispatch ends once, with
\* the whole take or with no file at all, and nothing reaches what was fetched
\* afterwards (dispatch_generation_on_worker, _fetch_generation_result).
THEOREM DeliveryKeepsPromise == Spec => KeepsPromise
  <1>1. Init => Promise!Init /\ EmptyInv
    BY DEF Init, Promise!Init, Outcome, Copy, EmptyInv
  <1>2. IInv /\ EmptyInv /\ [Next]_vars => [Promise!Next]_(Promise!promise) /\ EmptyInv'
    BY PromiseStep DEF IInv
  <1> QED
    BY Inductive, <1>1, <1>2, PTL DEF Spec, KeepsPromise, Promise!Spec

-----------------------------------------------------------------------------
(***************************************************************************)
(* One training of a voice, whoever dies in the middle: the music worker   *)
(* at any write or rename of the adoption, and any reconciler at any of    *)
(* its own.                                                                *)
(***************************************************************************)

\* A run whose job is RUNNING ...
Begun == {"materialize", "prepare", "submit"} \cup L!Watching \cup L!Adopting
\* ... and one that has not yet written the completed-training-mode record, or will not.
Early == {"enqueue", "reserve", "begin", "materialize", "prepare", "submit", "record"} \cup
         L!Watching \cup L!Failing

\* The row names the mode of the adapter in place.
Fits == final # None => lora.mode = L!ModeOf(final)

\* What the variables range over; without a disk error no rename is undone.
Stages == L!RunStates \ L!Keeping

\* Where a reconciler is.
RecStates == {"idle", "restore", "stage", "swap", "prune", "keep", "drop", "tidy"}

\* The statuses of a training job.
JobStates == {"new", "queued", "running", "completed", "failed", "cancelled"}

\* The voice's row.
LoraRows == [status : {"draft", "ready", "failed"} \cup L!LoraActive,
             job : Jobs \cup {None}, mode : L!Modes, deleted : BOOLEAN]

\* The ranges of the variables; there are no disk errors and no cancels (bounds).
VoiceTyped ==
    /\ job \in [Jobs -> JobStates]
    /\ delivered \in [Jobs -> BOOLEAN]
    /\ run \in [Jobs -> Stages]
    /\ task \in [Jobs -> {"none", "training", "exported", "failed"}]
    /\ lora \in LoraRows
    /\ final \in Jobs \cup {Original, None}
    /\ previous \in Jobs \cup {Original, None}
    /\ tmp \in Jobs \cup {None}
    /\ record \in Jobs \cup {None}
    /\ rec \in [Reconcilers -> RecStates]
    /\ saw \in [Reconcilers -> BOOLEAN]
    /\ rowLock \in Reconcilers \cup {None}
    /\ proc \in {"up", "down"}
    /\ ioErrors = 0 /\ cancels = 0

\* A running job is carried by a run of the live worker; the row names the job.
RunGoes ==
    /\ \A j \in Jobs : job[j] = "new" => run[j] = "none" /\ ~delivered[j]
    /\ \A j \in Jobs : job[j] # "new" => lora.job = j
    /\ \A j \in Jobs : run[j] \in Begun => job[j] = "running" /\ proc = "up"
    /\ \A j \in Jobs : (job[j] = "running" /\ proc = "up") => run[j] \in Begun \cup L!Failing
    /\ lora.status \in L!LoraActive => lora.job \in Jobs
    /\ \A j \in Jobs : run[j] \in ({"submit"} \cup L!Watching \cup L!Adopting) \ {"complete"} =>
        lora.status \in L!LoraActive

\* What lies on disk at each step of the adoption: while the record stands, the new
\* adapter is either still in the temporary directory, with at most one of the others,
\* or in place; without it nothing is set aside and the row fits what is in place.
DiskFits ==
    /\ record # None /\ tmp # None => final = None \/ previous = None
    /\ record # None /\ tmp = None => final \in Jobs
    /\ record = None => previous = None /\ Fits
    /\ \A j \in Jobs :
        /\ job[j] \in {"new", "queued"} => record = None
        /\ run[j] \in Early \cup {"ready", "complete"} => record = None
        /\ task[j] = "training" => record = None
        /\ run[j] \in L!Adopting => task[j] # "training"
        /\ run[j] = "record" => tmp # None
        /\ run[j] \in {"mode", "stage"} => record # None /\ tmp # None /\ previous = None
        /\ run[j] = "move" => record # None /\ tmp # None /\ final = None
        /\ run[j] \in {"prune", "clear", "ready", "complete"} => tmp = None /\ final \in Jobs
        /\ run[j] = "clear" => previous = None
        /\ run[j] \in {"stage", "move", "prune", "clear", "ready", "complete"} => lora.mode = "sft"

\* What a reconciler may rely on: before its commit it has the row locked, what it read
\* of the record still holds, and no run is at work.
Reconciling(r) ==
    /\ rec[r] \notin {"idle", "tidy"} => rowLock = r /\ lora.status \in L!LoraActive
    /\ rec[r] = "tidy" => lora.status \notin L!LoraActive /\ previous = None /\ Fits
    /\ rec[r] # "idle" => \A j \in Jobs : job[j] \in L!JobTerminal
    /\ rec[r] = "restore" => record = None /\ ~saw[r]
    /\ rec[r] \in {"stage", "swap", "prune"} => record # None /\ saw[r]
    /\ (rec[r] \in {"keep", "drop"} /\ ~saw[r]) => record = None
    /\ rec[r] = "swap" => tmp # None /\ final = None
    /\ rec[r] = "prune" => tmp = None /\ final \in Jobs
    /\ rec[r] \in {"keep", "drop"} => previous = None
    /\ rec[r] = "keep" => final # None
    /\ rec[r] = "drop" => final = None
    /\ (rec[r] = "keep" /\ saw[r]) => final \in Jobs

\* All of them.
RecGoes == \A r \in Reconcilers : Reconciling(r)

\* The inductive invariant.
VoiceInv == VoiceTyped /\ RunGoes /\ DiskFits /\ RecGoes /\ L!ReadyIsUsable

\* The voice is trained once; two trainings can be at work on one directory (README).
OneTraining == \A i, j \in Jobs : i = j

\* A fresh draft, or a voice trained before.
LEMMA VoiceInit == ASSUME L!Init PROVE VoiceInv
  <1> USE PartConstants DEF L!Init
  <1>1. VoiceTyped
    <2>1. job \in [Jobs -> JobStates] /\ run \in [Jobs -> Stages]
      BY DEF Stages, L!RunStates, L!Keeping, JobStates
    <2>2. lora \in LoraRows
      <3>1. CASE lora = [status |-> "draft", job |-> None, mode |-> "sft", deleted |-> FALSE]
        BY <3>1 DEF LoraRows, L!Modes
      <3>2. CASE lora = [status |-> "ready", job |-> None, mode |-> L!ModeOf(Original), deleted
          |-> FALSE]
        BY <3>2 DEF LoraRows, L!Modes, L!ModeOf
      <3> QED
        BY <3>1, <3>2
    <2>3. rec \in [Reconcilers -> RecStates] /\ final \in Jobs \cup {Original, None}
      BY DEF RecStates
    <2> QED
      BY <2>1, <2>2, <2>3 DEF VoiceTyped
  <1>2. RunGoes
    BY DEF RunGoes, Begun, L!Watching, L!Adopting, L!Failing, L!LoraActive
  <1>3. DiskFits
    BY DEF DiskFits, Fits, Early, L!ModeOf, L!Watching, L!Failing
  <1>4. RecGoes
    BY DEF RecGoes, Reconciling
  <1>5. L!ReadyIsUsable
    BY DEF L!ReadyIsUsable
  <1> QED
    BY <1>1, <1>2, <1>3, <1>4, <1>5 DEF VoiceInv

\* What a step must keep: the invariant, and an adapter in place or set aside.
VoiceKeeps == VoiceInv' /\ (final # None \/ previous # None => final' # None \/ previous' # None)

\* The musician, the kill of the worker and its restart.

\* api_delete_lora takes only a voice that is not in training.
LEMMA KeepsDeleteLora ==
    ASSUME VoiceInv, OneTraining, L!DeleteLora PROVE VoiceKeeps
  <1> USE PartConstants DEF VoiceInv, OneTraining, L!DeleteLora, L!UpdateLora, L!jobVars,
                   L!diskVars, L!recVars, L!boundVars
  <1> USE DEF L!LoraActive, L!JobActive, L!JobTerminal, L!Modes, L!ModeOf, L!Watching, L!Adopting,
              L!Failing
  <1>1. VoiceTyped'
    BY DEF VoiceTyped, Stages, L!RunStates, L!Keeping, L!Sync, RecStates, JobStates, LoraRows
  <1>2. RunGoes'
    BY <1>1 DEF VoiceTyped, RunGoes, Begun, LoraRows, JobStates, RecGoes, Reconciling
  <1>3. DiskFits'
    BY <1>1 DEF VoiceTyped, RunGoes, DiskFits, RecGoes, Reconciling, JobStates, Fits, Begun,
                Early, LoraRows
  <1>4. RecGoes'
    BY <1>1 DEF VoiceTyped, RunGoes, DiskFits, RecGoes, Reconciling, JobStates, Fits, Begun,
                Early, LoraRows, L!ReadyIsUsable
  <1>5. L!ReadyIsUsable'
    BY <1>1 DEF VoiceTyped, RunGoes, DiskFits, RecGoes, Reconciling, JobStates, Fits, LoraRows,
                L!ReadyIsUsable
  <1>6. final # None \/ previous # None => final' # None \/ previous' # None
    BY <1>1 DEF VoiceTyped, DiskFits, RecGoes, Reconciling
  <1> QED
    BY <1>1, <1>2, <1>3, <1>4, <1>5, <1>6 DEF VoiceKeeps

\* A kill may come between any two steps; what lies on disk stays.
LEMMA KeepsCrash ==
    ASSUME VoiceInv, OneTraining, L!Crash PROVE VoiceKeeps
  <1> USE PartConstants DEF VoiceInv, OneTraining, L!Crash, L!diskVars, L!recVars
  <1> USE DEF L!LoraActive, L!JobActive, L!JobTerminal, L!Modes, L!ModeOf, L!Watching, L!Adopting,
              L!Failing
  <1>1. VoiceTyped'
    BY DEF VoiceTyped, Stages, L!RunStates, L!Keeping, L!Sync, RecStates, JobStates, LoraRows
  <1>2. RunGoes'
    BY <1>1 DEF VoiceTyped, RunGoes, Begun, LoraRows, JobStates, RecGoes, Reconciling
  <1>3. DiskFits'
    BY <1>1 DEF VoiceTyped, RunGoes, DiskFits, RecGoes, Reconciling, JobStates, Fits, Begun,
                Early, LoraRows
  <1>4. RecGoes'
    BY <1>1 DEF VoiceTyped, RunGoes, DiskFits, RecGoes, Reconciling, JobStates, Fits, Begun,
                Early, LoraRows, L!ReadyIsUsable
  <1>5. L!ReadyIsUsable'
    BY <1>1 DEF VoiceTyped, RunGoes, DiskFits, RecGoes, Reconciling, JobStates, Fits, LoraRows,
                L!ReadyIsUsable
  <1>6. final # None \/ previous # None => final' # None \/ previous' # None
    BY <1>1 DEF VoiceTyped, DiskFits, RecGoes, Reconciling
  <1> QED
    BY <1>1, <1>2, <1>3, <1>4, <1>5, <1>6 DEF VoiceKeeps

\* The recovery at startup fails the running job: from here on no run of it goes on.
LEMMA KeepsRestart ==
    ASSUME VoiceInv, OneTraining, L!Restart PROVE VoiceKeeps
  <1> USE PartConstants DEF VoiceInv, OneTraining, L!Restart, L!diskVars, L!recVars, L!boundVars
  <1> USE DEF L!LoraActive, L!JobActive, L!JobTerminal, L!Modes, L!ModeOf, L!Watching, L!Adopting,
              L!Failing
  <1>1. VoiceTyped'
    BY DEF VoiceTyped, Stages, L!RunStates, L!Keeping, L!Sync, RecStates, JobStates, LoraRows
  <1>2. RunGoes'
    BY <1>1 DEF VoiceTyped, RunGoes, Begun, LoraRows, JobStates, RecGoes, Reconciling
  <1>3. DiskFits'
    BY <1>1 DEF VoiceTyped, RunGoes, DiskFits, RecGoes, Reconciling, JobStates, Fits, Begun,
                Early, LoraRows
  <1>4. RecGoes'
    BY <1>1 DEF VoiceTyped, RunGoes, DiskFits, RecGoes, Reconciling, JobStates, Fits, Begun,
                Early, LoraRows, L!ReadyIsUsable
  <1>5. L!ReadyIsUsable'
    BY <1>1 DEF VoiceTyped, RunGoes, DiskFits, RecGoes, Reconciling, JobStates, Fits, LoraRows,
                L!ReadyIsUsable
  <1>6. final # None \/ previous # None => final' # None \/ previous' # None
    BY <1>1 DEF VoiceTyped, DiskFits, RecGoes, Reconciling
  <1> QED
    BY <1>1, <1>2, <1>3, <1>4, <1>5, <1>6 DEF VoiceKeeps

\* A request names the job in the row; nothing lies on disk yet.
LEMMA KeepsTrain ==
    ASSUME VoiceInv, OneTraining, NEW j \in Jobs, L!Train(j) PROVE VoiceKeeps
  <1> USE PartConstants DEF VoiceInv, OneTraining, L!Train, L!UpdateLora, L!SetRun, L!diskVars,
                   L!recVars, L!boundVars
  <1> USE DEF L!LoraActive, L!JobActive, L!JobTerminal, L!Modes, L!ModeOf, L!Watching, L!Adopting,
              L!Failing
  <1>1. VoiceTyped'
    BY DEF VoiceTyped, Stages, L!RunStates, L!Keeping, L!Sync, RecStates, JobStates, LoraRows
  <1>2. RunGoes'
    BY <1>1 DEF VoiceTyped, RunGoes, Begun, LoraRows, JobStates, RecGoes, Reconciling
  <1>3. DiskFits'
    BY <1>1 DEF VoiceTyped, RunGoes, DiskFits, RecGoes, Reconciling, JobStates, Fits, Begun,
                Early, LoraRows
  <1>4. RecGoes'
    BY <1>1 DEF VoiceTyped, RunGoes, DiskFits, RecGoes, Reconciling, JobStates, Fits, Begun,
                Early, LoraRows, L!ReadyIsUsable
  <1>5. L!ReadyIsUsable'
    BY <1>1 DEF VoiceTyped, RunGoes, DiskFits, RecGoes, Reconciling, JobStates, Fits, LoraRows,
                L!ReadyIsUsable
  <1>6. final # None \/ previous # None => final' # None \/ previous' # None
    BY <1>1 DEF VoiceTyped, DiskFits, RecGoes, Reconciling
  <1> QED
    BY <1>1, <1>2, <1>3, <1>4, <1>5, <1>6 DEF VoiceKeeps

\* The delivery touches neither row nor disk.
LEMMA KeepsEnqueueJob ==
    ASSUME VoiceInv, OneTraining, NEW j \in Jobs, L!EnqueueJob(j) PROVE VoiceKeeps
  <1> USE PartConstants DEF VoiceInv, OneTraining, L!EnqueueJob, L!SetRun, L!diskVars, L!recVars,
                   L!boundVars
  <1> USE DEF L!LoraActive, L!JobActive, L!JobTerminal, L!Modes, L!ModeOf, L!Watching, L!Adopting,
              L!Failing
  <1>1. VoiceTyped'
    BY DEF VoiceTyped, Stages, L!RunStates, L!Keeping, L!Sync, RecStates, JobStates, LoraRows
  <1>2. RunGoes'
    BY <1>1 DEF VoiceTyped, RunGoes, Begun, LoraRows, JobStates, RecGoes, Reconciling
  <1>3. DiskFits'
    BY <1>1 DEF VoiceTyped, RunGoes, DiskFits, RecGoes, Reconciling, JobStates, Fits, Begun,
                Early, LoraRows
  <1>4. RecGoes'
    BY <1>1 DEF VoiceTyped, RunGoes, DiskFits, RecGoes, Reconciling, JobStates, Fits, Begun,
                Early, LoraRows, L!ReadyIsUsable
  <1>5. L!ReadyIsUsable'
    BY <1>1 DEF VoiceTyped, RunGoes, DiskFits, RecGoes, Reconciling, JobStates, Fits, LoraRows,
                L!ReadyIsUsable
  <1>6. final # None \/ previous # None => final' # None \/ previous' # None
    BY <1>1 DEF VoiceTyped, DiskFits, RecGoes, Reconciling
  <1> QED
    BY <1>1, <1>2, <1>3, <1>4, <1>5, <1>6 DEF VoiceKeeps

\* The refused request leaves the voice FAILED, or QUEUED without a delivery.
LEMMA KeepsEnqueueRefused ==
    ASSUME VoiceInv, OneTraining, NEW j \in Jobs, L!EnqueueRefused(j) PROVE VoiceKeeps
  <1> USE PartConstants DEF VoiceInv, OneTraining, L!EnqueueRefused, L!UpdateJob, L!UpdateLora,
                   L!SetRun, L!diskVars, L!recVars, L!boundVars
  <1> USE DEF L!LoraActive, L!JobActive, L!JobTerminal, L!Modes, L!ModeOf, L!Watching, L!Adopting,
              L!Failing
  <1>1. VoiceTyped'
    BY DEF VoiceTyped, Stages, L!RunStates, L!Keeping, L!Sync, RecStates, JobStates, LoraRows
  <1>2. RunGoes'
    BY <1>1 DEF VoiceTyped, RunGoes, Begun, LoraRows, JobStates, RecGoes, Reconciling
  <1>3. DiskFits'
    BY <1>1 DEF VoiceTyped, RunGoes, DiskFits, RecGoes, Reconciling, JobStates, Fits, Begun,
                Early, LoraRows
  <1>4. RecGoes'
    BY <1>1 DEF VoiceTyped, RunGoes, DiskFits, RecGoes, Reconciling, JobStates, Fits, Begun,
                Early, LoraRows, L!ReadyIsUsable
  <1>5. L!ReadyIsUsable'
    BY <1>1 DEF VoiceTyped, RunGoes, DiskFits, RecGoes, Reconciling, JobStates, Fits, LoraRows,
                L!ReadyIsUsable
  <1>6. final # None \/ previous # None => final' # None \/ previous' # None
    BY <1>1 DEF VoiceTyped, DiskFits, RecGoes, Reconciling
  <1> QED
    BY <1>1, <1>2, <1>3, <1>4, <1>5, <1>6 DEF VoiceKeeps

\* There are no cancels (bound).
LEMMA KeepsCancelJob ==
    ASSUME VoiceInv, OneTraining, NEW j \in Jobs, L!CancelJob(j) PROVE VoiceKeeps
  <1> USE PartConstants DEF VoiceInv, OneTraining, L!CancelJob, L!UpdateJob, L!diskVars, L!recVars
  <1> USE DEF L!LoraActive, L!JobActive, L!JobTerminal, L!Modes, L!ModeOf, L!Watching, L!Adopting,
              L!Failing
  <1>1. VoiceTyped'
    BY DEF VoiceTyped, Stages, L!RunStates, L!Keeping, L!Sync, RecStates, JobStates, LoraRows
  <1>2. RunGoes'
    BY <1>1 DEF VoiceTyped, RunGoes, Begun, LoraRows, JobStates, RecGoes, Reconciling
  <1>3. DiskFits'
    BY <1>1 DEF VoiceTyped, RunGoes, DiskFits, RecGoes, Reconciling, JobStates, Fits, Begun,
                Early, LoraRows
  <1>4. RecGoes'
    BY <1>1 DEF VoiceTyped, RunGoes, DiskFits, RecGoes, Reconciling, JobStates, Fits, Begun,
                Early, LoraRows, L!ReadyIsUsable
  <1>5. L!ReadyIsUsable'
    BY <1>1 DEF VoiceTyped, RunGoes, DiskFits, RecGoes, Reconciling, JobStates, Fits, LoraRows,
                L!ReadyIsUsable
  <1>6. final # None \/ previous # None => final' # None \/ previous' # None
    BY <1>1 DEF VoiceTyped, DiskFits, RecGoes, Reconciling
  <1> QED
    BY <1>1, <1>2, <1>3, <1>4, <1>5, <1>6 DEF VoiceKeeps

\* The run, up to the end of the training.

\* Only a job that never ran is taken up: a redelivered one is terminal.
LEMMA KeepsStartRun ==
    ASSUME VoiceInv, OneTraining, NEW j \in Jobs, L!StartRun(j) PROVE VoiceKeeps
  <1> USE PartConstants DEF VoiceInv, OneTraining, L!StartRun, L!UpdateJob, L!SetRun, L!Turn,
                   L!diskVars, L!recVars, L!boundVars
  <1> USE DEF L!LoraActive, L!JobActive, L!JobTerminal, L!Modes, L!ModeOf, L!Watching, L!Adopting,
              L!Failing
  <1>1. VoiceTyped'
    BY DEF VoiceTyped, Stages, L!RunStates, L!Keeping, L!Sync, RecStates, JobStates, LoraRows
  <1>2. RunGoes'
    BY <1>1 DEF VoiceTyped, RunGoes, Begun, LoraRows, JobStates, RecGoes, Reconciling
  <1>3. DiskFits'
    BY <1>1 DEF VoiceTyped, RunGoes, DiskFits, RecGoes, Reconciling, JobStates, Fits, Begun,
                Early, LoraRows
  <1>4. RecGoes'
    BY <1>1 DEF VoiceTyped, RunGoes, DiskFits, RecGoes, Reconciling, JobStates, Fits, Begun,
                Early, LoraRows, L!ReadyIsUsable
  <1>5. L!ReadyIsUsable'
    BY <1>1 DEF VoiceTyped, RunGoes, DiskFits, RecGoes, Reconciling, JobStates, Fits, LoraRows,
                L!ReadyIsUsable
  <1>6. final # None \/ previous # None => final' # None \/ previous' # None
    BY <1>1 DEF VoiceTyped, DiskFits, RecGoes, Reconciling
  <1> QED
    BY <1>1, <1>2, <1>3, <1>4, <1>5, <1>6 DEF VoiceKeeps

\* The hold is the run's own affair.
LEMMA KeepsReserve ==
    ASSUME VoiceInv, OneTraining, NEW j \in Jobs, L!Reserve(j) PROVE VoiceKeeps
  <1> USE PartConstants DEF VoiceInv, OneTraining, L!Reserve, L!SetRun, L!Turn, L!diskVars,
                   L!recVars, L!boundVars, L!Holds
  <1> USE DEF L!LoraActive, L!JobActive, L!JobTerminal, L!Modes, L!ModeOf, L!Watching, L!Adopting,
              L!Failing
  <1>1. VoiceTyped'
    BY DEF VoiceTyped, Stages, L!RunStates, L!Keeping, L!Sync, RecStates, JobStates, LoraRows
  <1>2. RunGoes'
    BY <1>1 DEF VoiceTyped, RunGoes, Begun, LoraRows, JobStates, RecGoes, Reconciling
  <1>3. DiskFits'
    BY <1>1 DEF VoiceTyped, RunGoes, DiskFits, RecGoes, Reconciling, JobStates, Fits, Begun,
                Early, LoraRows
  <1>4. RecGoes'
    BY <1>1 DEF VoiceTyped, RunGoes, DiskFits, RecGoes, Reconciling, JobStates, Fits, Begun,
                Early, LoraRows, L!ReadyIsUsable
  <1>5. L!ReadyIsUsable'
    BY <1>1 DEF VoiceTyped, RunGoes, DiskFits, RecGoes, Reconciling, JobStates, Fits, LoraRows,
                L!ReadyIsUsable
  <1>6. final # None \/ previous # None => final' # None \/ previous' # None
    BY <1>1 DEF VoiceTyped, DiskFits, RecGoes, Reconciling
  <1> QED
    BY <1>1, <1>2, <1>3, <1>4, <1>5, <1>6 DEF VoiceKeeps

\* A deferred job is as it was before its run.
LEMMA KeepsDefer ==
    ASSUME VoiceInv, OneTraining, NEW j \in Jobs, L!Defer(j) PROVE VoiceKeeps
  <1> USE PartConstants DEF VoiceInv, OneTraining, L!Defer, L!UpdateJob, L!SetRun, L!Turn,
                   L!diskVars, L!recVars, L!boundVars
  <1> USE DEF L!LoraActive, L!JobActive, L!JobTerminal, L!Modes, L!ModeOf, L!Watching, L!Adopting,
              L!Failing
  <1>1. VoiceTyped'
    <2>1. job' \in [Jobs -> JobStates] /\ delivered' \in [Jobs -> BOOLEAN]
      BY DEF VoiceTyped, JobStates
    <2>2. run' \in [Jobs -> Stages]
      BY DEF VoiceTyped, Stages, L!RunStates, L!Keeping, L!Sync
    <2> QED
      BY <2>1, <2>2 DEF VoiceTyped
  <1>2. RunGoes'
    BY <1>1 DEF VoiceTyped, RunGoes, Begun, LoraRows, JobStates, RecGoes, Reconciling
  <1>3. DiskFits'
    BY <1>1 DEF VoiceTyped, RunGoes, DiskFits, RecGoes, Reconciling, JobStates, Fits, Begun,
                Early, LoraRows
  <1>4. RecGoes'
    BY <1>1 DEF VoiceTyped, RunGoes, DiskFits, RecGoes, Reconciling, JobStates, Fits, Begun,
                Early, LoraRows, L!ReadyIsUsable
  <1>5. L!ReadyIsUsable'
    BY <1>1 DEF VoiceTyped, RunGoes, DiskFits, RecGoes, Reconciling, JobStates, Fits, LoraRows,
                L!ReadyIsUsable
  <1>6. final # None \/ previous # None => final' # None \/ previous' # None
    BY <1>1 DEF VoiceTyped, DiskFits, RecGoes, Reconciling
  <1> QED
    BY <1>1, <1>2, <1>3, <1>4, <1>5, <1>6 DEF VoiceKeeps

\* The RUNNING write is refused for a job that has ended.
LEMMA KeepsBegin ==
    ASSUME VoiceInv, OneTraining, NEW j \in Jobs, L!Begin(j) PROVE VoiceKeeps
  <1> USE PartConstants DEF VoiceInv, OneTraining, L!Begin, L!UpdateJob, L!SetRun, L!Turn,
                   L!diskVars, L!recVars, L!boundVars
  <1> USE DEF L!LoraActive, L!JobActive, L!JobTerminal, L!Modes, L!ModeOf, L!Watching, L!Adopting,
              L!Failing
  <1>1. VoiceTyped'
    BY DEF VoiceTyped, Stages, L!RunStates, L!Keeping, L!Sync, RecStates, JobStates, LoraRows
  <1>2. RunGoes'
    BY <1>1 DEF VoiceTyped, RunGoes, Begun, LoraRows, JobStates, RecGoes, Reconciling
  <1>3. DiskFits'
    BY <1>1 DEF VoiceTyped, RunGoes, DiskFits, RecGoes, Reconciling, JobStates, Fits, Begun,
                Early, LoraRows
  <1>4. RecGoes'
    BY <1>1 DEF VoiceTyped, RunGoes, DiskFits, RecGoes, Reconciling, JobStates, Fits, Begun,
                Early, LoraRows, L!ReadyIsUsable
  <1>5. L!ReadyIsUsable'
    BY <1>1 DEF VoiceTyped, RunGoes, DiskFits, RecGoes, Reconciling, JobStates, Fits, LoraRows,
                L!ReadyIsUsable
  <1>6. final # None \/ previous # None => final' # None \/ previous' # None
    BY <1>1 DEF VoiceTyped, DiskFits, RecGoes, Reconciling
  <1> QED
    BY <1>1, <1>2, <1>3, <1>4, <1>5, <1>6 DEF VoiceKeeps

\* The dataset is apart from the adapters.
LEMMA KeepsMaterialize ==
    ASSUME VoiceInv, OneTraining, NEW j \in Jobs, L!Materialize(j) PROVE VoiceKeeps
  <1> USE PartConstants DEF VoiceInv, OneTraining, L!Materialize, L!SetRun, L!recVars, L!boundVars
  <1> USE DEF L!LoraActive, L!JobActive, L!JobTerminal, L!Modes, L!ModeOf, L!Watching, L!Adopting,
              L!Failing
  <1>1. VoiceTyped'
    BY DEF VoiceTyped, Stages, L!RunStates, L!Keeping, L!Sync, RecStates, JobStates, LoraRows
  <1>2. RunGoes'
    BY <1>1 DEF VoiceTyped, RunGoes, Begun, LoraRows, JobStates, RecGoes, Reconciling
  <1>3. DiskFits'
    BY <1>1 DEF VoiceTyped, RunGoes, DiskFits, RecGoes, Reconciling, JobStates, Fits, Begun,
                Early, LoraRows
  <1>4. RecGoes'
    BY <1>1 DEF VoiceTyped, RunGoes, DiskFits, RecGoes, Reconciling, JobStates, Fits, Begun,
                Early, LoraRows, L!ReadyIsUsable
  <1>5. L!ReadyIsUsable'
    BY <1>1 DEF VoiceTyped, RunGoes, DiskFits, RecGoes, Reconciling, JobStates, Fits, LoraRows,
                L!ReadyIsUsable
  <1>6. final # None \/ previous # None => final' # None \/ previous' # None
    BY <1>1 DEF VoiceTyped, DiskFits, RecGoes, Reconciling
  <1> QED
    BY <1>1, <1>2, <1>3, <1>4, <1>5, <1>6 DEF VoiceKeeps

\* From here on the row is in an active status until the run ends.
LEMMA KeepsMarkPreprocessing ==
    ASSUME VoiceInv, OneTraining, NEW j \in Jobs, L!MarkPreprocessing(j) PROVE VoiceKeeps
  <1> USE PartConstants DEF VoiceInv, OneTraining, L!MarkPreprocessing, L!UpdateLora, L!SetRun,
                   L!Turn, L!diskVars, L!recVars, L!boundVars
  <1> USE DEF L!LoraActive, L!JobActive, L!JobTerminal, L!Modes, L!ModeOf, L!Watching, L!Adopting,
              L!Failing
  <1>1. VoiceTyped'
    BY DEF VoiceTyped, Stages, L!RunStates, L!Keeping, L!Sync, RecStates, JobStates, LoraRows
  <1>2. RunGoes'
    BY <1>1 DEF VoiceTyped, RunGoes, Begun, LoraRows, JobStates, RecGoes, Reconciling
  <1>3. DiskFits'
    BY <1>1 DEF VoiceTyped, RunGoes, DiskFits, RecGoes, Reconciling, JobStates, Fits, Begun,
                Early, LoraRows
  <1>4. RecGoes'
    BY <1>1 DEF VoiceTyped, RunGoes, DiskFits, RecGoes, Reconciling, JobStates, Fits, Begun,
                Early, LoraRows, L!ReadyIsUsable
  <1>5. L!ReadyIsUsable'
    BY <1>1 DEF VoiceTyped, RunGoes, DiskFits, RecGoes, Reconciling, JobStates, Fits, LoraRows,
                L!ReadyIsUsable
  <1>6. final # None \/ previous # None => final' # None \/ previous' # None
    BY <1>1 DEF VoiceTyped, DiskFits, RecGoes, Reconciling
  <1> QED
    BY <1>1, <1>2, <1>3, <1>4, <1>5, <1>6 DEF VoiceKeeps

\* The old temporary directory goes before the worker's task begins.
LEMMA KeepsSubmit ==
    ASSUME VoiceInv, OneTraining, NEW j \in Jobs, L!Submit(j) PROVE VoiceKeeps
  <1> USE PartConstants DEF VoiceInv, OneTraining, L!Submit, L!SetRun, L!Turn, L!recVars,
                   L!boundVars
  <1> USE DEF L!LoraActive, L!JobActive, L!JobTerminal, L!Modes, L!ModeOf, L!Watching, L!Adopting,
              L!Failing
  <1>1. VoiceTyped'
    BY DEF VoiceTyped, Stages, L!RunStates, L!Keeping, L!Sync, RecStates, JobStates, LoraRows
  <1>2. RunGoes'
    BY <1>1 DEF VoiceTyped, RunGoes, Begun, LoraRows, JobStates, RecGoes, Reconciling
  <1>3. DiskFits'
    BY <1>1 DEF VoiceTyped, RunGoes, DiskFits, RecGoes, Reconciling, JobStates, Fits, Begun,
                Early, LoraRows
  <1>4. RecGoes'
    BY <1>1 DEF VoiceTyped, RunGoes, DiskFits, RecGoes, Reconciling, JobStates, Fits, Begun,
                Early, LoraRows, L!ReadyIsUsable
  <1>5. L!ReadyIsUsable'
    BY <1>1 DEF VoiceTyped, RunGoes, DiskFits, RecGoes, Reconciling, JobStates, Fits, LoraRows,
                L!ReadyIsUsable
  <1>6. final # None \/ previous # None => final' # None \/ previous' # None
    BY <1>1 DEF VoiceTyped, DiskFits, RecGoes, Reconciling
  <1> QED
    BY <1>1, <1>2, <1>3, <1>4, <1>5, <1>6 DEF VoiceKeeps

\* A validated handoff: the new adapter is in the temporary directory.
LEMMA KeepsTaskEnds ==
    ASSUME VoiceInv, OneTraining, NEW j \in Jobs, L!TaskEnds(j) PROVE VoiceKeeps
  <1> USE PartConstants DEF VoiceInv, OneTraining, L!TaskEnds, L!SetRun, L!Turn, L!diskVars,
                   L!recVars, L!boundVars
  <1> USE DEF L!LoraActive, L!JobActive, L!JobTerminal, L!Modes, L!ModeOf, L!Watching, L!Adopting,
              L!Failing
  <1>1. VoiceTyped'
    BY DEF VoiceTyped, Stages, L!RunStates, L!Keeping, L!Sync, RecStates, JobStates, LoraRows
  <1>2. RunGoes'
    BY <1>1 DEF VoiceTyped, RunGoes, Begun, LoraRows, JobStates, RecGoes, Reconciling
  <1>3. DiskFits'
    BY <1>1 DEF VoiceTyped, RunGoes, DiskFits, RecGoes, Reconciling, JobStates, Fits, Begun,
                Early, LoraRows
  <1>4. RecGoes'
    BY <1>1 DEF VoiceTyped, RunGoes, DiskFits, RecGoes, Reconciling, JobStates, Fits, Begun,
                Early, LoraRows, L!ReadyIsUsable
  <1>5. L!ReadyIsUsable'
    BY <1>1 DEF VoiceTyped, RunGoes, DiskFits, RecGoes, Reconciling, JobStates, Fits, LoraRows,
                L!ReadyIsUsable
  <1>6. final # None \/ previous # None => final' # None \/ previous' # None
    BY <1>1 DEF VoiceTyped, DiskFits, RecGoes, Reconciling
  <1> QED
    BY <1>1, <1>2, <1>3, <1>4, <1>5, <1>6 DEF VoiceKeeps

\* A failure before the record: nothing was set aside.
LEMMA KeepsRunFails ==
    ASSUME VoiceInv, OneTraining, NEW j \in Jobs, L!RunFails(j) PROVE VoiceKeeps
  <1> USE PartConstants DEF VoiceInv, OneTraining, L!RunFails, L!SetRun, L!Turn, L!diskVars,
                   L!recVars, L!boundVars
  <1> USE DEF L!LoraActive, L!JobActive, L!JobTerminal, L!Modes, L!ModeOf, L!Watching, L!Adopting,
              L!Failing
  <1>1. VoiceTyped'
    BY DEF VoiceTyped, Stages, L!RunStates, L!Keeping, L!Sync, RecStates, JobStates, LoraRows
  <1>2. RunGoes'
    BY <1>1 DEF VoiceTyped, RunGoes, Begun, LoraRows, JobStates, RecGoes, Reconciling
  <1>3. DiskFits'
    BY <1>1 DEF VoiceTyped, RunGoes, DiskFits, RecGoes, Reconciling, JobStates, Fits, Begun,
                Early, LoraRows
  <1>4. RecGoes'
    BY <1>1 DEF VoiceTyped, RunGoes, DiskFits, RecGoes, Reconciling, JobStates, Fits, Begun,
                Early, LoraRows, L!ReadyIsUsable
  <1>5. L!ReadyIsUsable'
    BY <1>1 DEF VoiceTyped, RunGoes, DiskFits, RecGoes, Reconciling, JobStates, Fits, LoraRows,
                L!ReadyIsUsable
  <1>6. final # None \/ previous # None => final' # None \/ previous' # None
    BY <1>1 DEF VoiceTyped, DiskFits, RecGoes, Reconciling
  <1> QED
    BY <1>1, <1>2, <1>3, <1>4, <1>5, <1>6 DEF VoiceKeeps

\* The row follows the worker's stream.
LEMMA KeepsReport ==
    ASSUME VoiceInv, OneTraining, NEW j \in Jobs, L!Report(j) PROVE VoiceKeeps
  <1> USE PartConstants DEF VoiceInv, OneTraining, L!Report, L!UpdateJob, L!UpdateLora, L!SetRun,
                   L!Turn, L!diskVars, L!recVars, L!boundVars
  <1> USE DEF L!LoraActive, L!JobActive, L!JobTerminal, L!Modes, L!ModeOf, L!Watching, L!Adopting,
              L!Failing
  <1>1. VoiceTyped'
    BY DEF VoiceTyped, Stages, L!RunStates, L!Keeping, L!Sync, RecStates, JobStates, LoraRows
  <1>2. RunGoes'
    BY <1>1 DEF VoiceTyped, RunGoes, Begun, LoraRows, JobStates, RecGoes, Reconciling
  <1>3. DiskFits'
    BY <1>1 DEF VoiceTyped, RunGoes, DiskFits, RecGoes, Reconciling, JobStates, Fits, Begun,
                Early, LoraRows
  <1>4. RecGoes'
    BY <1>1 DEF VoiceTyped, RunGoes, DiskFits, RecGoes, Reconciling, JobStates, Fits, Begun,
                Early, LoraRows, L!ReadyIsUsable
  <1>5. L!ReadyIsUsable'
    BY <1>1 DEF VoiceTyped, RunGoes, DiskFits, RecGoes, Reconciling, JobStates, Fits, LoraRows,
                L!ReadyIsUsable
  <1>6. final # None \/ previous # None => final' # None \/ previous' # None
    BY <1>1 DEF VoiceTyped, DiskFits, RecGoes, Reconciling
  <1> QED
    BY <1>1, <1>2, <1>3, <1>4, <1>5, <1>6 DEF VoiceKeeps

\* The worker exports while no record exists.
LEMMA KeepsWorkerExports ==
    ASSUME VoiceInv, OneTraining, NEW j \in Jobs, L!WorkerExports(j) PROVE VoiceKeeps
  <1> USE PartConstants DEF VoiceInv, OneTraining, L!WorkerExports, L!recVars, L!boundVars
  <1> USE DEF L!LoraActive, L!JobActive, L!JobTerminal, L!Modes, L!ModeOf, L!Watching, L!Adopting,
              L!Failing
  <1>1. VoiceTyped'
    BY DEF VoiceTyped, Stages, L!RunStates, L!Keeping, L!Sync, RecStates, JobStates, LoraRows
  <1>2. RunGoes'
    BY <1>1 DEF VoiceTyped, RunGoes, Begun, LoraRows, JobStates, RecGoes, Reconciling
  <1>3. DiskFits'
    BY <1>1 DEF VoiceTyped, RunGoes, DiskFits, RecGoes, Reconciling, JobStates, Fits, Begun,
                Early, LoraRows
  <1>4. RecGoes'
    BY <1>1 DEF VoiceTyped, RunGoes, DiskFits, RecGoes, Reconciling, JobStates, Fits, Begun,
                Early, LoraRows, L!ReadyIsUsable
  <1>5. L!ReadyIsUsable'
    BY <1>1 DEF VoiceTyped, RunGoes, DiskFits, RecGoes, Reconciling, JobStates, Fits, LoraRows,
                L!ReadyIsUsable
  <1>6. final # None \/ previous # None => final' # None \/ previous' # None
    BY <1>1 DEF VoiceTyped, DiskFits, RecGoes, Reconciling
  <1> QED
    BY <1>1, <1>2, <1>3, <1>4, <1>5, <1>6 DEF VoiceKeeps

\* A failed task leaves nothing.
LEMMA KeepsWorkerFails ==
    ASSUME VoiceInv, OneTraining, NEW j \in Jobs, L!WorkerFails(j) PROVE VoiceKeeps
  <1> USE PartConstants DEF VoiceInv, OneTraining, L!WorkerFails, L!diskVars, L!recVars,
                   L!boundVars
  <1> USE DEF L!LoraActive, L!JobActive, L!JobTerminal, L!Modes, L!ModeOf, L!Watching, L!Adopting,
              L!Failing
  <1>1. VoiceTyped'
    BY DEF VoiceTyped, Stages, L!RunStates, L!Keeping, L!Sync, RecStates, JobStates, LoraRows
  <1>2. RunGoes'
    BY <1>1 DEF VoiceTyped, RunGoes, Begun, LoraRows, JobStates, RecGoes, Reconciling
  <1>3. DiskFits'
    BY <1>1 DEF VoiceTyped, RunGoes, DiskFits, RecGoes, Reconciling, JobStates, Fits, Begun,
                Early, LoraRows
  <1>4. RecGoes'
    BY <1>1 DEF VoiceTyped, RunGoes, DiskFits, RecGoes, Reconciling, JobStates, Fits, Begun,
                Early, LoraRows, L!ReadyIsUsable
  <1>5. L!ReadyIsUsable'
    BY <1>1 DEF VoiceTyped, RunGoes, DiskFits, RecGoes, Reconciling, JobStates, Fits, LoraRows,
                L!ReadyIsUsable
  <1>6. final # None \/ previous # None => final' # None \/ previous' # None
    BY <1>1 DEF VoiceTyped, DiskFits, RecGoes, Reconciling
  <1> QED
    BY <1>1, <1>2, <1>3, <1>4, <1>5, <1>6 DEF VoiceKeeps

\* The reaper fails a job whose run is gone; a reconciler may follow.
LEMMA KeepsReap ==
    ASSUME VoiceInv, OneTraining, NEW j \in Jobs, L!Reap(j) PROVE VoiceKeeps
  <1> USE PartConstants DEF VoiceInv, OneTraining, L!Reap, L!diskVars, L!recVars, L!boundVars
  <1> USE DEF L!LoraActive, L!JobActive, L!JobTerminal, L!Modes, L!ModeOf, L!Watching, L!Adopting,
              L!Failing
  <1>1. VoiceTyped'
    BY DEF VoiceTyped, Stages, L!RunStates, L!Keeping, L!Sync, RecStates, JobStates, LoraRows
  <1>2. RunGoes'
    BY <1>1 DEF VoiceTyped, RunGoes, Begun, LoraRows, JobStates, RecGoes, Reconciling
  <1>3. DiskFits'
    BY <1>1 DEF VoiceTyped, RunGoes, DiskFits, RecGoes, Reconciling, JobStates, Fits, Begun,
                Early, LoraRows
  <1>4. RecGoes'
    BY <1>1 DEF VoiceTyped, RunGoes, DiskFits, RecGoes, Reconciling, JobStates, Fits, Begun,
                Early, LoraRows, L!ReadyIsUsable
  <1>5. L!ReadyIsUsable'
    BY <1>1 DEF VoiceTyped, RunGoes, DiskFits, RecGoes, Reconciling, JobStates, Fits, LoraRows,
                L!ReadyIsUsable
  <1>6. final # None \/ previous # None => final' # None \/ previous' # None
    BY <1>1 DEF VoiceTyped, DiskFits, RecGoes, Reconciling
  <1> QED
    BY <1>1, <1>2, <1>3, <1>4, <1>5, <1>6 DEF VoiceKeeps

\* The adoption and the end of a run.

\* The record is written while both adapters can still be told apart.
LEMMA KeepsRecord ==
    ASSUME VoiceInv, OneTraining, NEW j \in Jobs, L!Record(j) PROVE VoiceKeeps
  <1> USE PartConstants DEF VoiceInv, OneTraining, L!Record, L!recVars, L!WriteRecord, L!SetRun,
                   L!DiskError
  <1> USE DEF L!LoraActive, L!JobActive, L!JobTerminal, L!Modes, L!ModeOf, L!Watching, L!Adopting,
              L!Failing
  <1>1. VoiceTyped'
    BY DEF VoiceTyped, Stages, L!RunStates, L!Keeping, L!Sync, RecStates, JobStates, LoraRows
  <1>2. RunGoes'
    BY <1>1 DEF VoiceTyped, RunGoes, Begun, LoraRows, JobStates, RecGoes, Reconciling
  <1>3. DiskFits'
    BY <1>1 DEF VoiceTyped, RunGoes, DiskFits, RecGoes, Reconciling, JobStates, Fits, Begun,
                Early, LoraRows
  <1>4. RecGoes'
    BY <1>1 DEF VoiceTyped, RunGoes, DiskFits, RecGoes, Reconciling, JobStates, Fits, Begun,
                Early, LoraRows, L!ReadyIsUsable
  <1>5. L!ReadyIsUsable'
    BY <1>1 DEF VoiceTyped, RunGoes, DiskFits, RecGoes, Reconciling, JobStates, Fits, LoraRows,
                L!ReadyIsUsable
  <1>6. final # None \/ previous # None => final' # None \/ previous' # None
    BY <1>1 DEF VoiceTyped, DiskFits, RecGoes, Reconciling
  <1> QED
    BY <1>1, <1>2, <1>3, <1>4, <1>5, <1>6 DEF VoiceKeeps

\* The row takes the new mode while the record explains it.
LEMMA KeepsSaveMode ==
    ASSUME VoiceInv, OneTraining, NEW j \in Jobs, L!SaveMode(j) PROVE VoiceKeeps
  <1> USE PartConstants DEF VoiceInv, OneTraining, L!SaveMode, L!UpdateLora, L!SetRun, L!diskVars,
                   L!recVars, L!boundVars, L!KeepMode
  <1> USE DEF L!LoraActive, L!JobActive, L!JobTerminal, L!Modes, L!ModeOf, L!Watching, L!Adopting,
              L!Failing
  <1>1. VoiceTyped'
    BY DEF VoiceTyped, Stages, L!RunStates, L!Keeping, L!Sync, RecStates, JobStates, LoraRows
  <1>2. RunGoes'
    BY <1>1 DEF VoiceTyped, RunGoes, Begun, LoraRows, JobStates, RecGoes, Reconciling
  <1>3. DiskFits'
    BY <1>1 DEF VoiceTyped, RunGoes, DiskFits, RecGoes, Reconciling, JobStates, Fits, Begun,
                Early, LoraRows
  <1>4. RecGoes'
    BY <1>1 DEF VoiceTyped, RunGoes, DiskFits, RecGoes, Reconciling, JobStates, Fits, Begun,
                Early, LoraRows, L!ReadyIsUsable
  <1>5. L!ReadyIsUsable'
    BY <1>1 DEF VoiceTyped, RunGoes, DiskFits, RecGoes, Reconciling, JobStates, Fits, LoraRows,
                L!ReadyIsUsable
  <1>6. final # None \/ previous # None => final' # None \/ previous' # None
    BY <1>1 DEF VoiceTyped, DiskFits, RecGoes, Reconciling
  <1> QED
    BY <1>1, <1>2, <1>3, <1>4, <1>5, <1>6 DEF VoiceKeeps

\* The first rename: the old adapter is set aside.
LEMMA KeepsStage ==
    ASSUME VoiceInv, OneTraining, NEW j \in Jobs, L!Stage(j) PROVE VoiceKeeps
  <1> USE PartConstants DEF VoiceInv, OneTraining, L!Stage, L!SetRun, L!recVars, L!FailsIf,
                   L!DiskError, L!SetAside
  <1> USE DEF L!LoraActive, L!JobActive, L!JobTerminal, L!Modes, L!ModeOf, L!Watching, L!Adopting,
              L!Failing
  <1>1. VoiceTyped'
    BY DEF VoiceTyped, Stages, L!RunStates, L!Keeping, L!Sync, RecStates, JobStates, LoraRows
  <1>2. RunGoes'
    BY <1>1 DEF VoiceTyped, RunGoes, Begun, LoraRows, JobStates, RecGoes, Reconciling
  <1>3. DiskFits'
    BY <1>1 DEF VoiceTyped, RunGoes, DiskFits, RecGoes, Reconciling, JobStates, Fits, Begun,
                Early, LoraRows
  <1>4. RecGoes'
    BY <1>1 DEF VoiceTyped, RunGoes, DiskFits, RecGoes, Reconciling, JobStates, Fits, Begun,
                Early, LoraRows, L!ReadyIsUsable
  <1>5. L!ReadyIsUsable'
    BY <1>1 DEF VoiceTyped, RunGoes, DiskFits, RecGoes, Reconciling, JobStates, Fits, LoraRows,
                L!ReadyIsUsable
  <1>6. final # None \/ previous # None => final' # None \/ previous' # None
    BY <1>1 DEF VoiceTyped, DiskFits, RecGoes, Reconciling
  <1> QED
    BY <1>1, <1>2, <1>3, <1>4, <1>5, <1>6 DEF VoiceKeeps

\* The second rename: the new one is in place.
LEMMA KeepsMove ==
    ASSUME VoiceInv, OneTraining, NEW j \in Jobs, L!Move(j) PROVE VoiceKeeps
  <1> USE PartConstants DEF VoiceInv, OneTraining, L!Move, L!SetRun, L!recVars, L!FailsIf,
                   L!DiskError, L!RestoreOrFail
  <1> USE DEF L!LoraActive, L!JobActive, L!JobTerminal, L!Modes, L!ModeOf, L!Watching, L!Adopting,
              L!Failing, Stages, L!RunStates, L!Keeping, L!Sync
  <1>1. VoiceTyped'
    BY DEF VoiceTyped, DiskFits, Stages, L!RunStates, L!Keeping, L!Sync, RecStates, JobStates,
           LoraRows
  <1>2. RunGoes'
    BY <1>1 DEF VoiceTyped, RunGoes, Begun, LoraRows, JobStates, RecGoes, Reconciling
  <1>3. DiskFits'
    BY <1>1 DEF VoiceTyped, RunGoes, DiskFits, RecGoes, Reconciling, JobStates, Fits, Begun,
                Early, LoraRows
  <1>4. RecGoes'
    BY <1>1 DEF VoiceTyped, RunGoes, DiskFits, RecGoes, Reconciling, JobStates, Fits, Begun,
                Early, LoraRows, L!ReadyIsUsable
  <1>5. L!ReadyIsUsable'
    BY <1>1 DEF VoiceTyped, RunGoes, DiskFits, RecGoes, Reconciling, JobStates, Fits, LoraRows,
                L!ReadyIsUsable
  <1>6. final # None \/ previous # None => final' # None \/ previous' # None
    BY <1>1 DEF VoiceTyped, DiskFits, RecGoes, Reconciling
  <1> QED
    BY <1>1, <1>2, <1>3, <1>4, <1>5, <1>6 DEF VoiceKeeps

\* The old adapter goes only now.
LEMMA KeepsPrune ==
    ASSUME VoiceInv, OneTraining, NEW j \in Jobs, L!Prune(j) PROVE VoiceKeeps
  <1> USE PartConstants DEF VoiceInv, OneTraining, L!Prune, L!SetRun, L!recVars,
                   L!RemovedOrLogged, L!DiskError
  <1> USE DEF L!LoraActive, L!JobActive, L!JobTerminal, L!Modes, L!ModeOf, L!Watching, L!Adopting,
              L!Failing
  <1>1. VoiceTyped'
    BY DEF VoiceTyped, Stages, L!RunStates, L!Keeping, L!Sync, RecStates, JobStates, LoraRows
  <1>2. RunGoes'
    BY <1>1 DEF VoiceTyped, RunGoes, Begun, LoraRows, JobStates, RecGoes, Reconciling
  <1>3. DiskFits'
    BY <1>1 DEF VoiceTyped, RunGoes, DiskFits, RecGoes, Reconciling, JobStates, Fits, Begun,
                Early, LoraRows
  <1>4. RecGoes'
    BY <1>1 DEF VoiceTyped, RunGoes, DiskFits, RecGoes, Reconciling, JobStates, Fits, Begun,
                Early, LoraRows, L!ReadyIsUsable
  <1>5. L!ReadyIsUsable'
    BY <1>1 DEF VoiceTyped, RunGoes, DiskFits, RecGoes, Reconciling, JobStates, Fits, LoraRows,
                L!ReadyIsUsable
  <1>6. final # None \/ previous # None => final' # None \/ previous' # None
    BY <1>1 DEF VoiceTyped, DiskFits, RecGoes, Reconciling
  <1> QED
    BY <1>1, <1>2, <1>3, <1>4, <1>5, <1>6 DEF VoiceKeeps

\* Without the record the row and the adapter in place agree.
LEMMA KeepsClear ==
    ASSUME VoiceInv, OneTraining, NEW j \in Jobs, L!Clear(j) PROVE VoiceKeeps
  <1> USE PartConstants DEF VoiceInv, OneTraining, L!Clear, L!SetRun, L!recVars,
                   L!RemovedOrLogged, L!DiskError
  <1> USE DEF L!LoraActive, L!JobActive, L!JobTerminal, L!Modes, L!ModeOf, L!Watching, L!Adopting,
              L!Failing
  <1>1. VoiceTyped'
    BY DEF VoiceTyped, Stages, L!RunStates, L!Keeping, L!Sync, RecStates, JobStates, LoraRows
  <1>2. RunGoes'
    BY <1>1 DEF VoiceTyped, RunGoes, Begun, LoraRows, JobStates, RecGoes, Reconciling
  <1>3. DiskFits'
    BY <1>1 DEF VoiceTyped, RunGoes, DiskFits, RecGoes, Reconciling, JobStates, Fits, Begun,
                Early, LoraRows
  <1>4. RecGoes'
    BY <1>1 DEF VoiceTyped, RunGoes, DiskFits, RecGoes, Reconciling, JobStates, Fits, Begun,
                Early, LoraRows, L!ReadyIsUsable
  <1>5. L!ReadyIsUsable'
    BY <1>1 DEF VoiceTyped, RunGoes, DiskFits, RecGoes, Reconciling, JobStates, Fits, LoraRows,
                L!ReadyIsUsable
  <1>6. final # None \/ previous # None => final' # None \/ previous' # None
    BY <1>1 DEF VoiceTyped, DiskFits, RecGoes, Reconciling
  <1> QED
    BY <1>1, <1>2, <1>3, <1>4, <1>5, <1>6 DEF VoiceKeeps

\* A READY row over the adapter just adopted.
LEMMA KeepsMarkReady ==
    ASSUME VoiceInv, OneTraining, NEW j \in Jobs, L!MarkReady(j) PROVE VoiceKeeps
  <1> USE PartConstants DEF VoiceInv, OneTraining, L!MarkReady, L!UpdateLora, L!SetRun,
                   L!diskVars, L!recVars, L!boundVars
  <1> USE DEF L!LoraActive, L!JobActive, L!JobTerminal, L!Modes, L!ModeOf, L!Watching, L!Adopting,
              L!Failing
  <1>1. VoiceTyped'
    BY DEF VoiceTyped, Stages, L!RunStates, L!Keeping, L!Sync, RecStates, JobStates, LoraRows
  <1>2. RunGoes'
    BY <1>1 DEF VoiceTyped, RunGoes, Begun, LoraRows, JobStates, RecGoes, Reconciling
  <1>3. DiskFits'
    BY <1>1 DEF VoiceTyped, RunGoes, DiskFits, RecGoes, Reconciling, JobStates, Fits, Begun,
                Early, LoraRows
  <1>4. RecGoes'
    BY <1>1 DEF VoiceTyped, RunGoes, DiskFits, RecGoes, Reconciling, JobStates, Fits, Begun,
                Early, LoraRows, L!ReadyIsUsable
  <1>5. L!ReadyIsUsable'
    BY <1>1 DEF VoiceTyped, RunGoes, DiskFits, RecGoes, Reconciling, JobStates, Fits, LoraRows,
                L!ReadyIsUsable
  <1>6. final # None \/ previous # None => final' # None \/ previous' # None
    BY <1>1 DEF VoiceTyped, DiskFits, RecGoes, Reconciling
  <1> QED
    BY <1>1, <1>2, <1>3, <1>4, <1>5, <1>6 DEF VoiceKeeps

\* A failed run leaves the adapter in place as it was.
LEMMA KeepsEndRow ==
    ASSUME VoiceInv, OneTraining, NEW j \in Jobs, L!EndRow(j) PROVE VoiceKeeps
  <1> USE PartConstants DEF VoiceInv, OneTraining, L!EndRow, L!UpdateLora, L!SetRun, L!diskVars,
                   L!recVars, L!boundVars
  <1> USE DEF L!LoraActive, L!JobActive, L!JobTerminal, L!Modes, L!ModeOf, L!Watching, L!Adopting,
              L!Failing, Stages, L!RunStates, L!Keeping, L!Sync
  <1>1. VoiceTyped'
    BY DEF VoiceTyped, DiskFits, Stages, L!RunStates, L!Keeping, L!Sync, RecStates, JobStates,
           LoraRows
  <1>2. RunGoes'
    BY <1>1 DEF VoiceTyped, RunGoes, Begun, LoraRows, JobStates, RecGoes, Reconciling
  <1>3. DiskFits'
    BY <1>1 DEF VoiceTyped, RunGoes, DiskFits, RecGoes, Reconciling, JobStates, Fits, Begun,
                Early, LoraRows
  <1>4. RecGoes'
    BY <1>1 DEF VoiceTyped, RunGoes, DiskFits, RecGoes, Reconciling, JobStates, Fits, Begun,
                Early, LoraRows, L!ReadyIsUsable
  <1>5. L!ReadyIsUsable'
    BY <1>1 DEF VoiceTyped, RunGoes, DiskFits, RecGoes, Reconciling, JobStates, Fits, LoraRows,
                L!ReadyIsUsable
  <1>6. final # None \/ previous # None => final' # None \/ previous' # None
    BY <1>1 DEF VoiceTyped, DiskFits, RecGoes, Reconciling
  <1> QED
    BY <1>1, <1>2, <1>3, <1>4, <1>5, <1>6 DEF VoiceKeeps

\* What a failed run removes is its own.
LEMMA KeepsEndPaths ==
    ASSUME VoiceInv, OneTraining, NEW j \in Jobs, L!EndPaths(j) PROVE VoiceKeeps
  <1> USE PartConstants DEF VoiceInv, OneTraining, L!EndPaths, L!SetRun, L!diskVars, L!recVars,
                   L!RemovedOrLogged, L!DiskError, L!CleanupPaths
  <1> USE DEF L!LoraActive, L!JobActive, L!JobTerminal, L!Modes, L!ModeOf, L!Watching, L!Adopting,
              L!Failing, Stages, L!RunStates, L!Keeping, L!Sync
  <1>1. VoiceTyped'
    BY DEF VoiceTyped, DiskFits, Stages, L!RunStates, L!Keeping, L!Sync, RecStates, JobStates,
           LoraRows
  <1>2. RunGoes'
    BY <1>1 DEF VoiceTyped, RunGoes, Begun, LoraRows, JobStates, RecGoes, Reconciling
  <1>3. DiskFits'
    BY <1>1 DEF VoiceTyped, RunGoes, DiskFits, RecGoes, Reconciling, JobStates, Fits, Begun,
                Early, LoraRows
  <1>4. RecGoes'
    BY <1>1 DEF VoiceTyped, RunGoes, DiskFits, RecGoes, Reconciling, JobStates, Fits, Begun,
                Early, LoraRows, L!ReadyIsUsable
  <1>5. L!ReadyIsUsable'
    BY <1>1 DEF VoiceTyped, RunGoes, DiskFits, RecGoes, Reconciling, JobStates, Fits, LoraRows,
                L!ReadyIsUsable
  <1>6. final # None \/ previous # None => final' # None \/ previous' # None
    BY <1>1 DEF VoiceTyped, DiskFits, RecGoes, Reconciling
  <1> QED
    BY <1>1, <1>2, <1>3, <1>4, <1>5, <1>6 DEF VoiceKeeps

\* The job's last write.
LEMMA KeepsEndJob ==
    ASSUME VoiceInv, OneTraining, NEW j \in Jobs, L!EndJob(j) PROVE VoiceKeeps
  <1> USE PartConstants DEF VoiceInv, OneTraining, L!EndJob, L!UpdateJob, L!SetRun, L!diskVars,
                   L!recVars, L!boundVars
  <1> USE DEF L!LoraActive, L!JobActive, L!JobTerminal, L!Modes, L!ModeOf, L!Watching, L!Adopting,
              L!Failing
  <1>1. VoiceTyped'
    BY DEF VoiceTyped, Stages, L!RunStates, L!Keeping, L!Sync, RecStates, JobStates, LoraRows
  <1>2. RunGoes'
    BY <1>1 DEF VoiceTyped, RunGoes, Begun, LoraRows, JobStates, RecGoes, Reconciling
  <1>3. DiskFits'
    BY <1>1 DEF VoiceTyped, RunGoes, DiskFits, RecGoes, Reconciling, JobStates, Fits, Begun,
                Early, LoraRows
  <1>4. RecGoes'
    BY <1>1 DEF VoiceTyped, RunGoes, DiskFits, RecGoes, Reconciling, JobStates, Fits, Begun,
                Early, LoraRows, L!ReadyIsUsable
  <1>5. L!ReadyIsUsable'
    BY <1>1 DEF VoiceTyped, RunGoes, DiskFits, RecGoes, Reconciling, JobStates, Fits, LoraRows,
                L!ReadyIsUsable
  <1>6. final # None \/ previous # None => final' # None \/ previous' # None
    BY <1>1 DEF VoiceTyped, DiskFits, RecGoes, Reconciling
  <1> QED
    BY <1>1, <1>2, <1>3, <1>4, <1>5, <1>6 DEF VoiceKeeps

\* The reconcilers.

\* Only the voice of a job that has ended is selected, under the row lock.
LEMMA KeepsSelect ==
    ASSUME VoiceInv, OneTraining, NEW r \in Reconcilers, L!Select(r) PROVE VoiceKeeps
  <1> USE PartConstants DEF VoiceInv, OneTraining, L!Select, L!SetRec, L!jobVars, L!diskVars,
                   L!boundVars, L!Reconcilable, L!RecordMatches
  <1> USE DEF L!LoraActive, L!JobActive, L!JobTerminal, L!Modes, L!ModeOf, L!Watching, L!Adopting,
              L!Failing
  <1>1. VoiceTyped'
    BY DEF VoiceTyped, Stages, L!RunStates, L!Keeping, L!Sync, RecStates, JobStates, LoraRows
  <1>2. RunGoes'
    BY <1>1 DEF VoiceTyped, RunGoes, Begun, LoraRows, JobStates, RecGoes, Reconciling
  <1>3. DiskFits'
    BY <1>1 DEF VoiceTyped, RunGoes, DiskFits, RecGoes, Reconciling, JobStates, Fits, Begun,
                Early, LoraRows
  <1>4. RecGoes'
    <2>1. lora.job \in Jobs /\ \A j \in Jobs : job[j] \in L!JobTerminal
      BY DEF VoiceTyped, RunGoes, LoraRows
    <2>2. L!RecordMatches <=> record # None
      BY <2>1 DEF VoiceTyped
    <2>3. saw' = [saw EXCEPT ![r] = record # None]
      BY <2>2
    <2>4. rec' = [rec EXCEPT ![r] = IF record # None THEN "stage" ELSE "restore"]
      BY <2>3 DEF VoiceTyped
    <2> QED
      BY <1>1, <2>1, <2>3, <2>4 DEF VoiceTyped, RecGoes, Reconciling, Fits
  <1>5. L!ReadyIsUsable'
    BY <1>1 DEF VoiceTyped, RunGoes, DiskFits, RecGoes, Reconciling, JobStates, Fits, LoraRows,
                L!ReadyIsUsable
  <1>6. final # None \/ previous # None => final' # None \/ previous' # None
    BY <1>1 DEF VoiceTyped, DiskFits, RecGoes, Reconciling
  <1> QED
    BY <1>1, <1>2, <1>3, <1>4, <1>5, <1>6 DEF VoiceKeeps

\* Without a record the adapter in place, or the one set aside, stays.
LEMMA KeepsRestore ==
    ASSUME VoiceInv, OneTraining, NEW r \in Reconcilers, L!Restore(r) PROVE VoiceKeeps
  <1> USE PartConstants DEF VoiceInv, OneTraining, L!Restore, L!jobVars, L!DiskError,
                   L!RestorePrevious, L!Recovered, L!SetRec, L!Abort
  <1> USE DEF L!LoraActive, L!JobActive, L!JobTerminal, L!Modes, L!ModeOf, L!Watching, L!Adopting,
              L!Failing
  <1>1. VoiceTyped'
    BY DEF VoiceTyped, Stages, L!RunStates, L!Keeping, L!Sync, RecStates, JobStates, LoraRows
  <1>2. RunGoes'
    BY <1>1 DEF VoiceTyped, RunGoes, Begun, LoraRows, JobStates, RecGoes, Reconciling
  <1>3. DiskFits'
    BY <1>1 DEF VoiceTyped, RunGoes, DiskFits, RecGoes, Reconciling, JobStates, Fits, Begun,
                Early, LoraRows
  <1>4. RecGoes'
    BY <1>1 DEF VoiceTyped, RunGoes, DiskFits, RecGoes, Reconciling, JobStates, Fits, Begun,
                Early, LoraRows, L!ReadyIsUsable
  <1>5. L!ReadyIsUsable'
    BY <1>1 DEF VoiceTyped, RunGoes, DiskFits, RecGoes, Reconciling, JobStates, Fits, LoraRows,
                L!ReadyIsUsable
  <1>6. final # None \/ previous # None => final' # None \/ previous' # None
    BY <1>1 DEF VoiceTyped, DiskFits, RecGoes, Reconciling
  <1> QED
    BY <1>1, <1>2, <1>3, <1>4, <1>5, <1>6 DEF VoiceKeeps

\* With one the first rename is made unless it was.
LEMMA KeepsStageAgain ==
    ASSUME VoiceInv, OneTraining, NEW r \in Reconcilers, L!StageAgain(r) PROVE VoiceKeeps
  <1> USE PartConstants DEF VoiceInv, OneTraining, L!StageAgain, L!SetRec, L!jobVars, L!FailsIf,
                   L!DiskError, L!SetAside, L!Abort
  <1> USE DEF L!LoraActive, L!JobActive, L!JobTerminal, L!Modes, L!ModeOf, L!Watching, L!Adopting,
              L!Failing
  <1>1. VoiceTyped'
    BY DEF VoiceTyped, Stages, L!RunStates, L!Keeping, L!Sync, RecStates, JobStates, LoraRows
  <1>2. RunGoes'
    BY <1>1 DEF VoiceTyped, RunGoes, Begun, LoraRows, JobStates, RecGoes, Reconciling
  <1>3. DiskFits'
    BY <1>1 DEF VoiceTyped, RunGoes, DiskFits, RecGoes, Reconciling, JobStates, Fits, Begun,
                Early, LoraRows
  <1>4. RecGoes'
    BY <1>1 DEF VoiceTyped, RunGoes, DiskFits, RecGoes, Reconciling, JobStates, Fits, Begun,
                Early, LoraRows, L!ReadyIsUsable
  <1>5. L!ReadyIsUsable'
    BY <1>1 DEF VoiceTyped, RunGoes, DiskFits, RecGoes, Reconciling, JobStates, Fits, LoraRows,
                L!ReadyIsUsable
  <1>6. final # None \/ previous # None => final' # None \/ previous' # None
    BY <1>1 DEF VoiceTyped, DiskFits, RecGoes, Reconciling
  <1> QED
    BY <1>1, <1>2, <1>3, <1>4, <1>5, <1>6 DEF VoiceKeeps

\* The second rename.
LEMMA KeepsSwap ==
    ASSUME VoiceInv, OneTraining, NEW r \in Reconcilers, L!Swap(r) PROVE VoiceKeeps
  <1> USE PartConstants DEF VoiceInv, OneTraining, L!Swap, L!SetRec, L!jobVars, L!FailsIf,
                   L!DiskError, L!Abort
  <1> USE DEF L!LoraActive, L!JobActive, L!JobTerminal, L!Modes, L!ModeOf, L!Watching, L!Adopting,
              L!Failing
  <1>1. VoiceTyped'
    BY DEF VoiceTyped, Stages, L!RunStates, L!Keeping, L!Sync, RecStates, JobStates, LoraRows
  <1>2. RunGoes'
    BY <1>1 DEF VoiceTyped, RunGoes, Begun, LoraRows, JobStates, RecGoes, Reconciling
  <1>3. DiskFits'
    BY <1>1 DEF VoiceTyped, RunGoes, DiskFits, RecGoes, Reconciling, JobStates, Fits, Begun,
                Early, LoraRows
  <1>4. RecGoes'
    BY <1>1 DEF VoiceTyped, RunGoes, DiskFits, RecGoes, Reconciling, JobStates, Fits, Begun,
                Early, LoraRows, L!ReadyIsUsable
  <1>5. L!ReadyIsUsable'
    BY <1>1 DEF VoiceTyped, RunGoes, DiskFits, RecGoes, Reconciling, JobStates, Fits, LoraRows,
                L!ReadyIsUsable
  <1>6. final # None \/ previous # None => final' # None \/ previous' # None
    BY <1>1 DEF VoiceTyped, DiskFits, RecGoes, Reconciling
  <1> QED
    BY <1>1, <1>2, <1>3, <1>4, <1>5, <1>6 DEF VoiceKeeps

\* The replaced adapter goes.
LEMMA KeepsPruneAgain ==
    ASSUME VoiceInv, OneTraining, NEW r \in Reconcilers, L!PruneAgain(r) PROVE VoiceKeeps
  <1> USE PartConstants DEF VoiceInv, OneTraining, L!PruneAgain, L!jobVars, L!DiskError,
                   L!Recovered, L!SetRec, L!Abort
  <1> USE DEF L!LoraActive, L!JobActive, L!JobTerminal, L!Modes, L!ModeOf, L!Watching, L!Adopting,
              L!Failing
  <1>1. VoiceTyped'
    BY DEF VoiceTyped, Stages, L!RunStates, L!Keeping, L!Sync, RecStates, JobStates, LoraRows
  <1>2. RunGoes'
    BY <1>1 DEF VoiceTyped, RunGoes, Begun, LoraRows, JobStates, RecGoes, Reconciling
  <1>3. DiskFits'
    BY <1>1 DEF VoiceTyped, RunGoes, DiskFits, RecGoes, Reconciling, JobStates, Fits, Begun,
                Early, LoraRows
  <1>4. RecGoes'
    BY <1>1 DEF VoiceTyped, RunGoes, DiskFits, RecGoes, Reconciling, JobStates, Fits, Begun,
                Early, LoraRows, L!ReadyIsUsable
  <1>5. L!ReadyIsUsable'
    BY <1>1 DEF VoiceTyped, RunGoes, DiskFits, RecGoes, Reconciling, JobStates, Fits, LoraRows,
                L!ReadyIsUsable
  <1>6. final # None \/ previous # None => final' # None \/ previous' # None
    BY <1>1 DEF VoiceTyped, DiskFits, RecGoes, Reconciling
  <1> QED
    BY <1>1, <1>2, <1>3, <1>4, <1>5, <1>6 DEF VoiceKeeps

\* The outcome that is persisted is the one on disk.
LEMMA KeepsCommit ==
    ASSUME VoiceInv, OneTraining, NEW r \in Reconcilers, L!Commit(r) PROVE VoiceKeeps
  <1> USE PartConstants DEF VoiceInv, OneTraining, L!Commit, L!SetRec, L!jobVars, L!diskVars,
                   L!boundVars
  <1> USE DEF L!LoraActive, L!JobActive, L!JobTerminal, L!Modes, L!ModeOf, L!Watching, L!Adopting,
              L!Failing
  <1>1. VoiceTyped'
    BY DEF VoiceTyped, Stages, L!RunStates, L!Keeping, L!Sync, RecStates, JobStates, LoraRows
  <1>2. RunGoes'
    BY <1>1 DEF VoiceTyped, RunGoes, Begun, LoraRows, JobStates, RecGoes, Reconciling
  <1>3. DiskFits'
    BY <1>1 DEF VoiceTyped, RunGoes, DiskFits, RecGoes, Reconciling, JobStates, Fits, Begun,
                Early, LoraRows
  <1>4. RecGoes'
    BY <1>1 DEF VoiceTyped, RunGoes, DiskFits, RecGoes, Reconciling, JobStates, Fits, Begun,
                Early, LoraRows, L!ReadyIsUsable
  <1>5. L!ReadyIsUsable'
    BY <1>1 DEF VoiceTyped, RunGoes, DiskFits, RecGoes, Reconciling, JobStates, Fits, LoraRows,
                L!ReadyIsUsable
  <1>6. final # None \/ previous # None => final' # None \/ previous' # None
    BY <1>1 DEF VoiceTyped, DiskFits, RecGoes, Reconciling
  <1> QED
    BY <1>1, <1>2, <1>3, <1>4, <1>5, <1>6 DEF VoiceKeeps

\* What is tidied is not an adapter in place.
LEMMA KeepsTidy ==
    ASSUME VoiceInv, OneTraining, NEW r \in Reconcilers, L!Tidy(r) PROVE VoiceKeeps
  <1> USE PartConstants DEF VoiceInv, OneTraining, L!Tidy, L!SetRec, L!jobVars, L!diskVars,
                   L!RemovedOrLogged, L!DiskError, L!CleanupPaths
  <1> USE DEF L!LoraActive, L!JobActive, L!JobTerminal, L!Modes, L!ModeOf, L!Watching, L!Adopting,
              L!Failing
  <1>1. VoiceTyped'
    BY DEF VoiceTyped, Stages, L!RunStates, L!Keeping, L!Sync, RecStates, JobStates, LoraRows
  <1>2. RunGoes'
    BY <1>1 DEF VoiceTyped, RunGoes, Begun, LoraRows, JobStates, RecGoes, Reconciling
  <1>3. DiskFits'
    BY <1>1 DEF VoiceTyped, RunGoes, DiskFits, RecGoes, Reconciling, JobStates, Fits, Begun,
                Early, LoraRows
  <1>4. RecGoes'
    BY <1>1 DEF VoiceTyped, RunGoes, DiskFits, RecGoes, Reconciling, JobStates, Fits, Begun,
                Early, LoraRows, L!ReadyIsUsable
  <1>5. L!ReadyIsUsable'
    BY <1>1 DEF VoiceTyped, RunGoes, DiskFits, RecGoes, Reconciling, JobStates, Fits, LoraRows,
                L!ReadyIsUsable
  <1>6. final # None \/ previous # None => final' # None \/ previous' # None
    BY <1>1 DEF VoiceTyped, DiskFits, RecGoes, Reconciling
  <1> QED
    BY <1>1, <1>2, <1>3, <1>4, <1>5, <1>6 DEF VoiceKeeps

\* A death of a reconciler leaves its step to the next one.
LEMMA KeepsReconcilerDies ==
    ASSUME VoiceInv, OneTraining, NEW r \in Reconcilers, L!ReconcilerDies(r) PROVE VoiceKeeps
  <1> USE PartConstants DEF VoiceInv, OneTraining, L!ReconcilerDies, L!SetRec, L!jobVars,
                   L!diskVars
  <1> USE DEF L!LoraActive, L!JobActive, L!JobTerminal, L!Modes, L!ModeOf, L!Watching, L!Adopting,
              L!Failing
  <1>1. VoiceTyped'
    BY DEF VoiceTyped, Stages, L!RunStates, L!Keeping, L!Sync, RecStates, JobStates, LoraRows
  <1>2. RunGoes'
    BY <1>1 DEF VoiceTyped, RunGoes, Begun, LoraRows, JobStates, RecGoes, Reconciling
  <1>3. DiskFits'
    BY <1>1 DEF VoiceTyped, RunGoes, DiskFits, RecGoes, Reconciling, JobStates, Fits, Begun,
                Early, LoraRows
  <1>4. RecGoes'
    BY <1>1 DEF VoiceTyped, RunGoes, DiskFits, RecGoes, Reconciling, JobStates, Fits, Begun,
                Early, LoraRows, L!ReadyIsUsable
  <1>5. L!ReadyIsUsable'
    BY <1>1 DEF VoiceTyped, RunGoes, DiskFits, RecGoes, Reconciling, JobStates, Fits, LoraRows,
                L!ReadyIsUsable
  <1>6. final # None \/ previous # None => final' # None \/ previous' # None
    BY <1>1 DEF VoiceTyped, DiskFits, RecGoes, Reconciling
  <1> QED
    BY <1>1, <1>2, <1>3, <1>4, <1>5, <1>6 DEF VoiceKeeps

\* Every step of the voice keeps it ...
LEMMA VoiceStep == ASSUME VoiceInv, OneTraining, L!Next PROVE VoiceKeeps
  <1>1. CASE L!DeleteLora \/ L!Crash \/ L!Restart
    BY <1>1, KeepsDeleteLora, KeepsCrash, KeepsRestart
  <1>2. ASSUME NEW j \in Jobs,
               \/ L!Train(j) \/ L!EnqueueJob(j) \/ L!EnqueueRefused(j) \/ L!CancelJob(j)
               \/ L!RunFails(j) \/ L!Report(j) \/ L!WorkerExports(j) \/ L!WorkerFails(j)
               \/ L!Reap(j)
        PROVE  VoiceKeeps
    BY <1>2, KeepsTrain, KeepsEnqueueJob, KeepsEnqueueRefused, KeepsCancelJob, KeepsRunFails,
       KeepsReport, KeepsWorkerExports, KeepsWorkerFails, KeepsReap
  <1>3. ASSUME NEW j \in Jobs, L!RunStep(j) PROVE VoiceKeeps
    BY <1>3, KeepsStartRun, KeepsReserve, KeepsDefer, KeepsBegin, KeepsMaterialize,
       KeepsMarkPreprocessing, KeepsSubmit, KeepsTaskEnds, KeepsRecord, KeepsSaveMode, KeepsStage,
       KeepsMove, KeepsPrune, KeepsClear, KeepsMarkReady, KeepsEndRow, KeepsEndPaths, KeepsEndJob
    DEF L!RunStep
  <1>4. ASSUME NEW r \in Reconcilers, L!ReconcileStep(r) \/ L!ReconcilerDies(r) PROVE VoiceKeeps
    BY <1>4, KeepsSelect, KeepsRestore, KeepsStageAgain, KeepsSwap, KeepsPruneAgain, KeepsCommit,
       KeepsTidy, KeepsReconcilerDies
    DEF L!ReconcileStep
  <1> QED
    BY <1>1, <1>2, <1>3, <1>4 DEF L!Next

\* ... and so does every step of the other parts.
LEMMA VoiceRests == ASSUME VoiceInv, UNCHANGED trainingVars PROVE VoiceKeeps
  BY DEF VoiceKeeps, trainingVars, VoiceInv, VoiceTyped, RunGoes, DiskFits, RecGoes, Reconciling,
         Fits, L!ReadyIsUsable

\* _stage_current_lora_adapter, _move_lora_adapter and reconcile_crashed_loras: through
\* any number of kills of the worker and of reconcilers, a complete adapter that was in
\* place stays in place or next to it, and a READY voice has an adapter in place that was
\* trained in the mode the row names.
THEOREM VoiceStaysWhole == ASSUME OneTraining PROVE AllSpec => VoiceIsWhole
  <1>1. AllInit => VoiceInv
    BY VoiceInit DEF AllInit
  <1>2. VoiceInv /\ [AllNext]_allVars => VoiceKeeps
    <2> SUFFICES ASSUME VoiceInv, [AllNext]_allVars PROVE VoiceKeeps
      OBVIOUS
    <2>1. L!Next \/ UNCHANGED trainingVars
      BY DEF AllNext, allVars, Delivery, Training, Turns, Stale, Backfill
    <2> QED
      BY <2>1, VoiceStep, VoiceRests
  <1>3. VoiceInv /\ [AllNext]_allVars => VoiceInv'
    BY <1>2 DEF VoiceKeeps
  <1>4. VoiceInv /\ [AllNext]_allVars =>
          [final # None \/ previous # None => final' # None \/ previous' # None]_(L!vars)
    BY <1>2 DEF VoiceKeeps
  <1>5. VoiceInv => L!ReadyIsUsable
    BY DEF VoiceInv
  <1> QED
    BY <1>1, <1>3, <1>4, <1>5, PTL DEF AllSpec, VoiceIsWhole, L!VoiceSurvives

-----------------------------------------------------------------------------
(***************************************************************************)
(* The verdict on a queued job.                                            *)
(***************************************************************************)

\* The ages that the reaper and the liveness records go by.
AgesTyped ==
    /\ signal \in [Signals -> BOOLEAN]
    /\ down \in [Signals -> V!Age]
    /\ seen \in [Signals -> V!Age \cup {None}]
    /\ server \in V!Age \cup {None}

\* A signal that went while the server ran had just been observed; one that went while
\* it did not run has been away for at least as long as the server is back.
AwayIsKnown ==
    \A s \in Signals :
        ~signal[s] /\ seen[s] # None /\ server # None => seen[s] <= down[s] + 1 \/ server <= down[s]

\* The inductive invariant.
StaleInv == AgesTyped /\ AwayIsKnown

\* Counting on keeps ages in order.
LEMMA OlderAges ==
    /\ \A n \in V!Age : V!Older(n) \in V!Age /\ V!Older(n) \in Nat
    /\ \A m, n \in V!Age : m <= n => V!Older(m) <= V!Older(n)
    /\ \A m, n \in V!Age : m <= n + 1 => V!Older(m) <= V!Older(n) + 1
  BY PartConstants DEF V!StaleConstants, V!Age, V!Older

\* At first nothing was observed.
LEMMA StaleInit == ASSUME V!Init PROVE StaleInv
  BY PartConstants DEF V!StaleConstants, V!Age, V!Init, StaleInv, AgesTyped, AwayIsKnown

\* A job failed for want of a worker waited for one that was away for its grace.
Spared ==
    (waiting'.why = "no_worker_alive" /\ waiting.why = None) => \E s \in Signals : ~signal[s] /\ down[s] >= Grace

\* Every step keeps the invariant.
LEMMA StaleStep == ASSUME StaleInv, [V!Next]_(V!vars) PROVE StaleInv'
  <1> USE PartConstants DEF V!StaleConstants, StaleInv, AgesTyped, AwayIsKnown
  <1>1. CASE V!Reap
    BY <1>1 DEF V!Reap, V!Recorded, V!Age
  <1>2. CASE V!TakeTask \/ UNCHANGED V!vars
    BY <1>2 DEF V!TakeTask, V!vars
  <1>3. CASE V!ServerStops \/ V!ServerStarts
    BY <1>3 DEF V!ServerStops, V!ServerStarts, V!Age
  <1>4. CASE V!Tick
    <2>1. AgesTyped'
      BY <1>4, OlderAges DEF V!Tick, V!Age
    <2>2. ASSUME NEW s \in Signals, ~signal'[s], seen'[s] # None, server' # None
          PROVE  seen'[s] <= down'[s] + 1 \/ server' <= down'[s]
      <3>1. seen[s] \in V!Age /\ server \in V!Age /\ down[s] \in V!Age /\ ~signal[s]
        BY <1>4, <2>2 DEF V!Tick
      <3>2. seen'[s] = V!Older(seen[s]) /\ down'[s] = V!Older(down[s]) /\ server' = V!Older(server)
        BY <1>4, <2>2, <3>1 DEF V!Tick, V!Age
      <3>3. seen[s] # None /\ server # None
        BY <3>1 DEF V!Age
      <3> QED
        BY <3>1, <3>2, <3>3, OlderAges
    <2> QED
      BY <2>1, <2>2
  <1>5. ASSUME NEW s \in Signals, V!SignalGoes(s) \/ V!SignalComes(s) PROVE StaleInv'
    <2>1. CASE V!SignalGoes(s)
      <3>1. signal' = [signal EXCEPT ![s] = FALSE] /\ down' = [down EXCEPT ![s] = 0]
            /\ UNCHANGED <<seen, server>> /\ (server # None => seen[s] \in {0, 1})
        BY <2>1 DEF V!SignalGoes
      <3>2. AgesTyped'
        BY <3>1 DEF V!Age
      <3>3. ASSUME NEW o \in Signals, ~signal'[o], seen'[o] # None, server' # None
            PROVE  seen'[o] <= down'[o] + 1 \/ server' <= down'[o]
        <4>1. CASE o = s
          BY <3>1, <3>3, <4>1
        <4>2. CASE o # s
          BY <3>1, <3>3, <4>2
        <4> QED
          BY <4>1, <4>2
      <3> QED
        BY <3>2, <3>3
    <2>2. CASE V!SignalComes(s)
      <3>1. signal' = [signal EXCEPT ![s] = TRUE] /\ down' = [down EXCEPT ![s] = 0]
            /\ UNCHANGED <<seen, server>>
        BY <2>2 DEF V!SignalComes
      <3> QED
        BY <3>1 DEF V!Age
    <2> QED
      BY <1>5, <2>1, <2>2
  <1> QED
    BY <1>1, <1>2, <1>3, <1>4, <1>5 DEF V!Next

\* ... and gives no job up too early.
LEMMA StaleSpares == ASSUME StaleInv, [V!Next]_(V!vars) PROVE Spared
  <1> SUFFICES ASSUME waiting'.why = "no_worker_alive", waiting.why = None
               PROVE  \E s \in Signals : ~signal[s] /\ down[s] >= Grace
    BY DEF Spared
  <1>0. None # "no_worker_alive"
    BY PartConstants DEF V!StaleConstants
  <1>1. V!Reap
    <2>1. ASSUME V!TakeTask PROVE waiting'.why = waiting.why
      BY <2>1 DEF V!TakeTask
    <2>2. ASSUME V!Tick PROVE waiting'.why = waiting.why
      BY <2>2 DEF V!Tick
    <2>3. ASSUME UNCHANGED waiting PROVE FALSE
      BY <1>0, <2>3
    <2> QED
      BY <1>0, <2>1, <2>2, <2>3
      DEF V!Next, V!vars, V!ServerStops, V!ServerStarts, V!SignalGoes, V!SignalComes
  <1>2. V!QueuedVerdict(V!JobLiveness) = "no_worker_alive"
    BY <1>0, <1>1 DEF V!Reap
  <1>3. V!JobLiveness = "dead"
    BY <1>0, <1>2 DEF V!QueuedVerdict
  <1>4. PICK s \in Signals : V!Liveness(s) = "dead"
    BY <1>3 DEF V!JobLiveness
  <1>5. ~signal[s] /\ seen[s] # None /\ ~(seen[s] <= Grace) /\ ~(server <= Grace)
    BY <1>4 DEF V!Liveness, V!MissingSignalLiveness
  <1>6. server # None
    BY <1>1 DEF V!Reap
  <1> QED
    BY <1>5, <1>6, PartConstants DEF V!StaleConstants, StaleInv, AgesTyped, AwayIsKnown, V!Age

\* _missing_signal_liveness: however often workers and server stop and start, a queued
\* job is failed for want of a worker only if one it needs was away for its grace.
THEOREM RestartsCostNoJob == AllSpec => V!RestartIsSpared
  <1>1. AllInit => StaleInv
    BY StaleInit DEF AllInit
  <1>2. [AllNext]_allVars => [V!Next]_(V!vars)
    BY DEF AllNext, allVars, Delivery, Training, Turns, Stale, Backfill, staleVars, V!vars
  <1>3. StaleInv /\ [AllNext]_allVars => StaleInv'
    BY <1>2, StaleStep
  <1>4. StaleInv /\ [AllNext]_allVars =>
          [(waiting'.why = "no_worker_alive" /\ waiting.why = None)
              => \E s \in Signals : ~signal[s] /\ down[s] >= Grace]_(V!vars)
    BY <1>2, StaleSpares DEF Spared
  <1> QED
    BY <1>1, <1>3, <1>4, PTL DEF AllSpec, V!RestartIsSpared
=============================================================================
