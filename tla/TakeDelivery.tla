----------------------------- MODULE TakeDelivery -----------------------------
(***************************************************************************)
(* How one rendered take gets from the ACE-Step worker to the music        *)
(* worker: the worker's TaskStore record, its event stream and its result  *)
(* file, and dispatch_generation_on_worker, which submits the take,        *)
(* follows the stream through dropped connections, fetches the file and    *)
(* frees it.  Loading and holding the model is the subject of GpuHold.     *)
(*                                                                         *)
(* The worker is one asyncio process.  An update of a task takes the       *)
(* store's lock, writes the record and puts the event into the             *)
(* subscribers' unbounded queues without yielding: it is one step.  The    *)
(* sweep, an update and a subscription interleave in any order.            *)
(***************************************************************************)
EXTENDS Naturals, Sequences

CONSTANTS
    Takes,          \* takes that are dispatched to the worker
    MaxReports,     \* bound: progress reports of one take
    Chunks,         \* chunks of a result file
    MaxReconnects,  \* DispatchOptions.max_sse_reconnects
    MaxDrops,       \* bound: connections the network drops
    MaxCrashes,     \* bound: deaths of the worker
    MaxDiskErrors   \* bound: writes and removals of result files that fail

ASSUME TakeDeliveryAssumption ==
    /\ MaxReports \in Nat
    /\ Chunks \in Nat \ {0}
    /\ MaxReconnects \in Nat
    /\ MaxDrops \in Nat
    /\ MaxCrashes \in Nat
    /\ MaxDiskErrors \in Nat

VARIABLES
    up,         \* the worker process runs
    state,      \* TaskState of the record ("absent": no record)
    progress,   \* progress of the record, in reports
    recorded,   \* the record names a result file
    expired,    \* terminal_at is longer ago than the retention
    runner,     \* where default_generate_runner is
    reported,   \* progress callbacks the rendering thread has scheduled
    written,    \* ... and the event loop has executed
    file,       \* the result file exists
    client,     \* where dispatch_generation_on_worker is
    queue,      \* the events of the open stream that are not yet read
    reconnects, \* dropped connections of the stream
    got,        \* chunks in the take file of the music worker
    local,      \* that file exists
    drops, crashes, diskErrors

recordVars == <<state, progress, recorded, expired>>
runVars    == <<runner, reported, written>>
streamVars == <<queue, reconnects>>
copyVars   == <<got, local>>
boundVars  == <<drops, crashes, diskErrors>>
vars == <<up, recordVars, runVars, file, client, streamVars, copyVars, boundVars>>

Terminal == {"done", "error"}
\* The progress of a finished task, 1.0.
Full == MaxReports + 1

Event(s, p) == [type |-> IF s \in Terminal THEN s ELSE "progress", progress |-> p]
Events == [type : {"progress", "done", "error"}, progress : 0 .. Full]

\* The client's connection to the stream; "cut" by the death of the worker.
Following == {"connect", "checked", "stream", "cut"}
\* ... and to the result file; "torn" by the death of the worker.
Fetching  == {"get", "read", "torn", "release"}
Ended     == {"fetched", "failed"}

TypeOK ==
    /\ up \in BOOLEAN
    /\ state \in [Takes -> {"absent", "pending", "running"} \cup Terminal]
    /\ progress \in [Takes -> 0 .. Full]
    /\ recorded \in [Takes -> BOOLEAN]
    /\ expired \in [Takes -> BOOLEAN]
    /\ runner \in [Takes -> {"none", "start", "render", "rendered", "broken", "write",
                             "complete", "fail"}]
    /\ reported \in [Takes -> 0 .. MaxReports]
    /\ written \in [Takes -> 0 .. MaxReports]
    /\ file \in [Takes -> BOOLEAN]
    /\ client \in [Takes -> {"idle", "opening", "discarding"} \cup Following \cup Fetching
                               \cup Ended]
    /\ queue \in [Takes -> Seq(Events)]
    /\ reconnects \in [Takes -> 0 .. MaxReconnects]
    /\ got \in [Takes -> 0 .. Chunks]
    /\ local \in [Takes -> BOOLEAN]
    /\ drops \in 0 .. MaxDrops
    /\ crashes \in 0 .. MaxCrashes
    /\ diskErrors \in 0 .. MaxDiskErrors

Init ==
    /\ up = TRUE
    /\ state = [t \in Takes |-> "absent"]
    /\ progress = [t \in Takes |-> 0]
    /\ recorded = [t \in Takes |-> FALSE]
    /\ expired = [t \in Takes |-> FALSE]
    /\ runner = [t \in Takes |-> "none"]
    /\ reported = [t \in Takes |-> 0]
    /\ written = [t \in Takes |-> 0]
    /\ file = [t \in Takes |-> FALSE]
    /\ client = [t \in Takes |-> "idle"]
    /\ queue = [t \in Takes |-> <<>>]
    /\ reconnects = [t \in Takes |-> 0]
    /\ got = [t \in Takes |-> 0]
    /\ local = [t \in Takes |-> FALSE]
    /\ drops = 0
    /\ crashes = 0
    /\ diskErrors = 0

SetRunner(t, s) == runner' = [runner EXCEPT ![t] = s]
SetClient(t, s) == client' = [client EXCEPT ![t] = s]

DiskError == diskErrors < MaxDiskErrors /\ diskErrors' = diskErrors + 1
-----------------------------------------------------------------------------
(***************************************************************************)
(* The worker: default_generate_runner and the store.                      *)
(***************************************************************************)

\* TaskStore._update: the record, then its event to the open stream, if any.
Update(t, s, p, f) ==
    /\ state' = [state EXCEPT ![t] = s]
    /\ progress' = [progress EXCEPT ![t] = p]
    /\ recorded' = [recorded EXCEPT ![t] = f]
    /\ queue' = IF client[t] = "stream" THEN [queue EXCEPT ![t] = Append(@, Event(s, p))]
                                        ELSE queue
    /\ UNCHANGED <<expired, reconnects>>

MarkRunning(t) ==
    /\ runner[t] = "start"
    /\ Update(t, "running", progress[t], recorded[t])
    /\ SetRunner(t, "render")
    /\ UNCHANGED <<up, reported, written, file, client, copyVars, boundVars>>

\* _on_progress, called in the rendering thread: the update is only scheduled.
Report(t) ==
    /\ runner[t] = "render"
    /\ reported[t] < MaxReports
    /\ reported' = [reported EXCEPT ![t] = @ + 1]
    /\ UNCHANGED <<up, recordVars, runner, written, file, client, streamVars, copyVars,
                   boundVars>>

\* update_progress, in the order in which the updates were scheduled.
WriteProgress(t) ==
    /\ state[t] # "absent"
    /\ written[t] < reported[t]
    /\ written' = [written EXCEPT ![t] = @ + 1]
    /\ Update(t, state[t], written'[t], recorded[t])
    /\ UNCHANGED <<up, runner, reported, file, client, copyVars, boundVars>>

\* client.generate returns or raises.
RenderEnds(t) ==
    /\ runner[t] = "render"
    /\ SetRunner(t, "rendered") \/ SetRunner(t, "broken")
    /\ UNCHANGED <<up, recordVars, reported, written, file, client, streamVars, copyVars,
                   boundVars>>

\* Mutant: the scheduled updates are not awaited.
NotAwaited(t) == TRUE

\* asyncio.gather of the scheduled updates.
AllWritten(t) == written[t] = reported[t]

Gather(t) ==
    /\ AllWritten(t)
    /\ \/ runner[t] = "rendered" /\ SetRunner(t, "write")
       \/ runner[t] = "broken" /\ SetRunner(t, "fail")
    /\ UNCHANGED <<up, recordVars, reported, written, file, client, streamVars, copyVars,
                   boundVars>>

\* write_result_file; a write that fails may leave a part of the file.
WriteFile(t) ==
    /\ runner[t] = "write"
    /\ \/ /\ file' = [file EXCEPT ![t] = TRUE]
          /\ SetRunner(t, "complete")
          /\ UNCHANGED diskErrors
       \/ /\ DiskError
          /\ file' \in {file, [file EXCEPT ![t] = TRUE]}
          /\ SetRunner(t, "fail")
    /\ UNCHANGED <<up, recordVars, reported, written, client, streamVars, copyVars, drops,
                   crashes>>

Complete(t) ==
    /\ runner[t] = "complete"
    /\ Update(t, "done", Full, TRUE)
    /\ SetRunner(t, "none")
    /\ UNCHANGED <<up, reported, written, file, client, copyVars, boundVars>>

Fail(t) ==
    /\ runner[t] = "fail"
    /\ Update(t, "error", progress[t], recorded[t])
    /\ SetRunner(t, "none")
    /\ UNCHANGED <<up, reported, written, file, client, copyVars, boundVars>>

\* TERMINAL_RETENTION_SECONDS pass.
Expire(t) ==
    /\ state[t] \in Terminal
    /\ ~expired[t]
    /\ expired' = [expired EXCEPT ![t] = TRUE]
    /\ UNCHANGED <<up, state, progress, recorded, runVars, file, client, streamVars, copyVars,
                   boundVars>>

\* Mutant: the record goes whether or not its file does.
DropAnyway(t) ==
    /\ state' = [state EXCEPT ![t] = "absent"]
    /\ recorded' = [recorded EXCEPT ![t] = FALSE]
    /\ UNCHANGED file

\* "A record whose file would not go stays".
KeepRecord(t) == UNCHANGED <<state, recorded, file>>

\* cleanup_terminal for one expired record.
Sweep(t) ==
    /\ expired[t]
    /\ \/ /\ state' = [state EXCEPT ![t] = "absent"]
          /\ file' = [file EXCEPT ![t] = @ /\ ~recorded[t]]
          /\ recorded' = [recorded EXCEPT ![t] = FALSE]
          /\ expired' = [expired EXCEPT ![t] = FALSE]
          /\ UNCHANGED diskErrors
       \/ recorded[t] /\ file[t] /\ DiskError /\ KeepRecord(t) /\ UNCHANGED expired
    /\ UNCHANGED <<up, progress, runVars, client, streamVars, copyVars, drops, crashes>>

\* The worker dies: records, runs and open streams are gone.
Crash ==
    /\ up
    /\ crashes < MaxCrashes
    /\ crashes' = crashes + 1
    /\ up' = FALSE
    /\ state' = [t \in Takes |-> "absent"]
    /\ recorded' = [t \in Takes |-> FALSE]
    /\ expired' = [t \in Takes |-> FALSE]
    /\ runner' = [t \in Takes |-> "none"]
    /\ client' = [t \in Takes |-> IF client[t] \in {"checked", "stream"} THEN "cut"
                                   ELSE IF client[t] = "read" THEN "torn" ELSE client[t]]
    /\ queue' = [t \in Takes |-> <<>>]
    /\ UNCHANGED <<progress, reported, written, file, reconnects, copyVars, drops, diskErrors>>

\* prepare_output_root empties the output directory.
Restart ==
    /\ ~up
    /\ up' = TRUE
    /\ file' = [t \in Takes |-> FALSE]
    /\ UNCHANGED <<recordVars, runVars, client, streamVars, copyVars, boundVars>>
-----------------------------------------------------------------------------
(***************************************************************************)
(* The music worker: dispatch_generation_on_worker.                        *)
(***************************************************************************)

\* _submit_generation: accepted, and the answer arrives or does not.
Submit(t) ==
    /\ client[t] = "idle"
    /\ up
    /\ state' = [state EXCEPT ![t] = "pending"]
    /\ SetRunner(t, "start")
    /\ SetClient(t, "connect") \/ SetClient(t, "failed")
    /\ UNCHANGED <<up, progress, recorded, expired, reported, written, file, streamVars,
                   copyVars, boundVars>>

\* The worker refuses, has not loaded the mode, or is not reached.
SubmitFails(t) ==
    /\ client[t] = "idle"
    /\ SetClient(t, "failed")
    /\ UNCHANGED <<up, recordVars, runVars, file, streamVars, copyVars, boundVars>>

\* Mutant: an unknown task is asked for again.
KeepAsking(t) == IF state[t] = "absent" THEN "connect" ELSE "checked"

\* An unknown task is a 404, which ends the dispatch.
Answer(t) == IF state[t] = "absent" THEN "failed" ELSE "checked"

\* stream_task looks the task up before it answers.
CheckTask(t) ==
    /\ client[t] = "connect"
    /\ up
    /\ SetClient(t, Answer(t))
    /\ UNCHANGED <<up, recordVars, runVars, file, streamVars, copyVars, boundVars>>

\* Mutant: the stream starts without the current state of the task.
NoReplay(t) == <<>>

\* The initial event of a subscription.
Initial(t) == <<Event(state[t], progress[t])>>

\* TaskStore.subscribe: the initial event and the subscription are one step.
Subscribe(t) ==
    /\ client[t] = "checked"
    /\ state[t] # "absent"
    /\ queue' = [queue EXCEPT ![t] = Initial(t)]
    /\ SetClient(t, "stream")
    /\ UNCHANGED <<up, recordVars, runVars, file, reconnects, copyVars, boundVars>>

\* Where an event leads the client.
AfterEvent == [progress |-> "stream", done |-> "opening", error |-> "failed"]

\* _consume_stream_event.
Receive(t) ==
    /\ client[t] = "stream"
    /\ queue[t] # <<>>
    /\ queue' = [queue EXCEPT ![t] = Tail(@)]
    /\ SetClient(t, AfterEvent[Head(queue[t]).type])
    /\ UNCHANGED <<up, recordVars, runVars, file, reconnects, copyVars, boundVars>>

\* Mutant: one reconnect too many.
OneMoreReconnect(t) == reconnects[t] <= MaxReconnects

\* _sse_reconnect_delay.
BudgetLeft(t) == reconnects[t] < MaxReconnects

\* _iterate_task_events after a transport error: it connects again after a
\* pause, until its budget is spent.
Reconnect(t) ==
    /\ queue' = [queue EXCEPT ![t] = <<>>]
    /\ IF BudgetLeft(t)
       THEN SetClient(t, "connect") /\ reconnects' = [reconnects EXCEPT ![t] = @ + 1]
       ELSE SetClient(t, "failed") /\ UNCHANGED reconnects

\* The worker has died or is down, or the sweep dropped the record between the
\* look-up and the subscription, whose KeyError breaks the answer off.
Dropped(t) ==
    /\ \/ client[t] = "cut"
       \/ client[t] = "connect" /\ ~up
       \/ client[t] = "checked" /\ state[t] = "absent"
    /\ Reconnect(t)
    /\ UNCHANGED <<up, recordVars, runVars, file, copyVars, boundVars>>

\* httpx.ReadTimeout, never retried.
Silent(t) ==
    /\ client[t] = "stream"
    /\ queue[t] = <<>>
    /\ SetClient(t, "failed")
    /\ UNCHANGED <<up, recordVars, runVars, file, streamVars, copyVars, boundVars>>

\* _open_take_file in its thread; after a cancel _release_acquired removes it.
OpenTakeFile(t) ==
    /\ \/ /\ client[t] = "opening"
          /\ local' = [local EXCEPT ![t] = TRUE]
          /\ SetClient(t, "get")
       \/ /\ client[t] = "discarding"
          /\ SetClient(t, "failed")
          /\ UNCHANGED local
    /\ UNCHANGED <<up, recordVars, runVars, file, streamVars, got, boundVars>>

\* open_result: the record names a file and it is there.
GetResult(t) ==
    /\ client[t] = "get"
    /\ up
    /\ recorded[t]
    /\ file[t]
    /\ SetClient(t, "read")
    /\ UNCHANGED <<up, recordVars, runVars, file, streamVars, copyVars, boundVars>>

\* A chunk from the open handle, whether or not the file is still linked.
ReadChunk(t) ==
    /\ client[t] = "read"
    /\ got[t] < Chunks
    /\ got' = [got EXCEPT ![t] = @ + 1]
    /\ SetClient(t, IF got'[t] = Chunks THEN "release" ELSE "read")
    /\ UNCHANGED <<up, recordVars, runVars, file, streamVars, local, boundVars>>

\* Mutant: a body that is cut short counts as the whole take.
CutIsWhole(t) == SetClient(t, "release") /\ UNCHANGED local

\* "Any failure leaves no file behind."
DiscardTake(t) == SetClient(t, "failed") /\ local' = [local EXCEPT ![t] = FALSE]

\* 404, or the worker is down or has died.
FetchFails(t) ==
    /\ \/ client[t] = "get" /\ ~(up /\ recorded[t] /\ file[t])
       \/ client[t] = "torn"
    /\ DiscardTake(t)
    /\ UNCHANGED <<up, recordVars, runVars, file, streamVars, got, boundVars>>

\* The network cuts a connection; a take that is over the limit or encoded is
\* refused with the same effect on the fetch.
NetworkDrop(t) ==
    /\ drops < MaxDrops
    /\ drops' = drops + 1
    /\ \/ client[t] \in Following /\ Reconnect(t) /\ UNCHANGED local
       \/ client[t] \in {"get", "read"} /\ DiscardTake(t) /\ UNCHANGED streamVars
    /\ UNCHANGED <<up, recordVars, runVars, file, got, crashes, diskErrors>>

\* _release_generation_result: the worker's discard_result, or a failure that is
\* only logged: no answer, no record, or a file that could not be removed.
Release(t) ==
    /\ client[t] = "release"
    /\ \/ /\ up
          /\ state[t] # "absent"
          /\ file' = [file EXCEPT ![t] = @ /\ ~recorded[t]]
          /\ recorded' = [recorded EXCEPT ![t] = FALSE]
          /\ UNCHANGED <<drops, diskErrors>>
       \/ (~up \/ state[t] = "absent") /\ UNCHANGED <<file, recorded, drops, diskErrors>>
       \/ drops < MaxDrops /\ drops' = drops + 1 /\ UNCHANGED <<file, recorded, diskErrors>>
       \/ recorded[t] /\ file[t] /\ DiskError /\ UNCHANGED <<file, recorded, drops>>
    /\ SetClient(t, "fetched")
    /\ UNCHANGED <<up, state, progress, expired, runVars, streamVars, copyVars, crashes>>

\* Mutant: a cancel leaves the file that is being created to its thread.
CancelDropsThread(t) ==
    /\ SetClient(t, "failed")
    /\ local' = [local EXCEPT ![t] = client[t] = "opening"]

\* acquire_in_thread waits for its thread; any other wait discards the file.
CancelTake(t) ==
    \/ client[t] = "opening" /\ SetClient(t, "discarding") /\ UNCHANGED local
    \/ client[t] \in Following \cup Fetching /\ DiscardTake(t)

\* arq cancels the job (timeout or shutdown) at one of the dispatch's awaits.
Cancel(t) ==
    /\ client[t] \in {"opening"} \cup Following \cup Fetching
    /\ CancelTake(t)
    /\ UNCHANGED <<up, recordVars, runVars, file, streamVars, got, boundVars>>
-----------------------------------------------------------------------------
RunnerStep(t) ==
    MarkRunning(t) \/ WriteProgress(t) \/ RenderEnds(t) \/ Gather(t) \/ WriteFile(t)
        \/ Complete(t) \/ Fail(t)

ClientStep(t) ==
    \/ CheckTask(t) \/ Subscribe(t) \/ Receive(t) \/ Dropped(t) \/ Silent(t)
    \/ OpenTakeFile(t) \/ GetResult(t) \/ ReadChunk(t) \/ FetchFails(t) \/ Release(t)

Next ==
    \/ Crash \/ Restart
    \/ \E t \in Takes :
          \/ Submit(t) \/ SubmitFails(t) \/ Cancel(t)
          \/ RunnerStep(t) \/ Report(t) \/ ClientStep(t)
          \/ NetworkDrop(t) \/ Expire(t) \/ Sweep(t)

Spec == Init /\ [][Next]_vars

\* The event loops run, the rendering returns (the engine's poll has a
\* deadline), time passes, the sweep's loop goes on, the container is
\* restarted.
Fairness ==
    /\ WF_vars(Restart)
    /\ \A t \in Takes :
          WF_vars(RunnerStep(t)) /\ WF_vars(ClientStep(t)) /\ WF_vars(Expire(t)) /\ WF_vars(Sweep(t))

FairSpec == Spec /\ Fairness
-----------------------------------------------------------------------------
(***************************************************************************)
(* Properties.                                                             *)
(***************************************************************************)

\* How a dispatch ended, and what the music worker has of its take.
Outcome == [t \in Takes |-> IF client[t] = "fetched" THEN "take"
                            ELSE IF client[t] = "failed" THEN "nothing" ELSE "open"]
Copy == [t \in Takes |-> IF ~local[t] THEN "none" ELSE IF got[t] = Chunks THEN "whole" ELSE "part"]

Promise == INSTANCE TakePromise WITH outcome <- Outcome, copy <- Copy

\* Through dropped streams, 404s, expiry, crashes, failed removals and cancels a
\* dispatch ends once, with the whole take or with no file, and afterwards neither
\* the worker's sweep nor its death reaches what was fetched
\* (dispatch_generation_on_worker as _generate_variant relies on it).
KeepsPromise == Promise!Spec

\* No subscriber waits for an event that was sent before it subscribed: an open
\* stream of a task that has ended still holds the terminal event, also when the
\* sweep has dropped the record meanwhile (TaskStore.subscribe,
\* TaskStore._update, stream_task).
NoTerminalEventMissed ==
    \A t \in Takes :
        client[t] = "stream" /\ runner[t] = "none"
            => \E i \in DOMAIN queue[t] : queue[t][i].type \in Terminal

\* The last word is the last: a stream carries no event after the terminal one,
\* and its progress never goes back, although the rendering thread's reports
\* reach the store through the event loop (default_generate_runner's gather).
TerminalEventIsLast ==
    \A t \in Takes : \A i, j \in DOMAIN queue[t] :
        i < j => queue[t][i].type = "progress" /\ queue[t][i].progress <= queue[t][j].progress

\* A take that was fetched is whole, although a DELETE, the sweep or the death
\* of the worker may take the result file away while it is read
\* (_fetch_generation_result, open_result).
TakeArrivesWhole ==
    \A t \in Takes : client[t] = "fetched" => local[t] /\ got[t] = Chunks

\* "Any failure leaves no file behind" (_fetch_generation_result): neither a
\* failed fetch nor a cancel in the middle of it, not even one that comes while
\* a thread is creating the file (acquire_in_thread).
NoFileLeftBehind ==
    \A t \in Takes : client[t] = "failed" => ~local[t]

\* A finished take's file does not stay on the worker, fetched or not, through
\* lost DELETEs, failed removals and crashes (docs/acestep.md:455, "the task
\* store's expiry sweep removes a file left behind together with its task
\* record").
ResultIsFreed ==
    \A t \in Takes : state[t] = "done" ~> ~file[t]

\* Every dispatch ends, with the take or with a failure: no lost stream, silent
\* worker, late 404 or crash leaves dispatch_generation_on_worker waiting.
EveryDispatchEnds ==
    \A t \in Takes : client[t] # "idle" ~> client[t] \in Ended
=============================================================================
